-------------------------- MODULE LinkedListProofs --------------------------
(***************************************************************************)
(* Proofs about LinkedList, for every set of nodes: of its types, of the   *)
(* ring its writes leave, of the walk that another thread's insertion      *)
(* overlaps, and of what is freed and used.                                *)
(***************************************************************************)
EXTENDS LinkedList, SequenceLemmas, TLAPS

Cells == Links \cup (Nodes \X {"live"})
Values == Nodes \cup {Null, Garbage, TRUE, FALSE}

\* The writes an operation makes when the nodes of U have been allocated.
Writes(U) ==
  {w \in Cells \X Values : /\ w[1][2] = "live" => w[2] \in BOOLEAN
                           /\ w[1] = Top => w[2] \in U \cup {Null}}

\* The thread that operates on the list, if any, has these writes left.
Left == IF Idle("owner") THEN todo["other"] ELSE todo["owner"]

\* The memory will be g when the writes ws have been made.
Settles(g, m, ws) ==
  \A c \in Cells :
    \/ m[c] = g[c] /\ \A k \in DOMAIN ws : ws[k][1] # c
    \/ \E k \in DOMAIN ws :
         /\ ws[k] = <<c, g[c]>>
         /\ \A j \in DOMAIN ws : j > k => ws[j][1] # c

\* The position after k in a ring of n.
Succ(k, n) == IF k = n THEN 1 ELSE k + 1
Pred(k, n) == IF k = 1 THEN n ELSE k - 1

\* The memory g holds the ring l.
Ring(g, l) ==
  /\ g[Top] = IF l = <<>> THEN Null ELSE l[1]
  /\ \A k \in 1..Len(l) : /\ g[NextOf(l[k])] = l[Succ(k, Len(l))]
                          /\ g[PrevOf(l[Succ(k, Len(l))])] = l[k]

LEMMA SuccIsModulo ==
  ASSUME NEW n \in Nat, NEW k \in 1..n
  PROVE  (k % n) + 1 = Succ(k, n)
  BY DEF Succ

LEMMA CellsDiffer ==
  /\ Top \in Cells
  /\ \A n \in Nodes : NextOf(n) \in Cells /\ PrevOf(n) \in Cells /\ Live(n) \in Cells
  /\ \A n, p : /\ NextOf(n) # Top /\ PrevOf(n) # Top /\ Live(n) # Top
               /\ NextOf(n) # PrevOf(p) /\ NextOf(n) # Live(p) /\ PrevOf(n) # Live(p)
               /\ n # p => /\ NextOf(n) # NextOf(p) /\ PrevOf(n) # PrevOf(p)
                           /\ Live(n) # Live(p)
  /\ \A n : /\ NextOf(n)[1] = n /\ PrevOf(n)[1] = n /\ Live(n)[1] = n
            /\ NextOf(n)[2] # "live" /\ PrevOf(n)[2] # "live" /\ Live(n)[2] = "live"
  /\ Top[1] = Null /\ Top[2] # "live"
  BY DEF Cells, Links, NextOf, PrevOf, Live, Top

-----------------------------------------------------------------------------
(* A ring with a node more or less.                                        *)

\* A node put before the head is the last of the ring, or, as the head, its first.
LEMMA RingBefore ==
  \A m, g, l, i :
    /\ l \in Seq(Nodes) /\ l # <<>> /\ IsInjective(l) /\ i \in Nodes /\ i \notin ToSet(l)
    /\ Ring(m, l)
    /\ g[NextOf(i)] = l[1] /\ g[PrevOf(i)] = l[Len(l)]
    /\ g[PrevOf(l[1])] = i /\ g[NextOf(l[Len(l)])] = i
    /\ \A k \in 1..Len(l) : /\ k # 1 => g[PrevOf(l[k])] = m[PrevOf(l[k])]
                            /\ k # Len(l) => g[NextOf(l[k])] = m[NextOf(l[k])]
    => /\ g[Top] = l[1] => Ring(g, Append(l, i))
       /\ g[Top] = i => Ring(g, <<i>> \o l)
<1> SUFFICES ASSUME NEW m, NEW g, NEW l \in Seq(Nodes), NEW i \in Nodes, l # <<>>,
                    Ring(m, l),
                    g[NextOf(i)] = l[1], g[PrevOf(i)] = l[Len(l)],
                    g[PrevOf(l[1])] = i, g[NextOf(l[Len(l)])] = i,
                    \A k \in 1..Len(l) :
                      /\ k # 1 => g[PrevOf(l[k])] = m[PrevOf(l[k])]
                      /\ k # Len(l) => g[NextOf(l[k])] = m[NextOf(l[k])]
             PROVE  /\ g[Top] = l[1] => Ring(g, Append(l, i))
                    /\ g[Top] = i => Ring(g, <<i>> \o l)
  OBVIOUS
<1> DEFINE n == Len(l)
<1>1. n \in Nat /\ n > 0
  BY LenProperties, EmptySeq
<1>2. \A k \in 1..n : /\ m[NextOf(l[k])] = l[Succ(k, n)]
                      /\ m[PrevOf(l[Succ(k, n)])] = l[k]
  BY DEF Ring
<1>3. ASSUME NEW k \in 1..n-1
      PROVE  g[NextOf(l[k])] = l[k+1] /\ g[PrevOf(l[k+1])] = l[k]
  <2>1. k \in 1..n /\ k # n /\ k+1 \in 1..n /\ k+1 # 1 /\ Succ(k, n) = k+1
    BY <1>1 DEF Succ
  <2> QED BY <1>2, <2>1
<1>4. ASSUME g[Top] = l[1] PROVE Ring(g, Append(l, i))
  <2> DEFINE r == Append(l, i)
  <2>1. /\ Len(r) = n + 1 /\ r # <<>> /\ r[n+1] = i
        /\ \A k \in 1..n : r[k] = l[k]
    BY AppendProperties, EmptySeq
  <2> HIDE DEF r, n
  <2>2. ASSUME NEW k \in 1..n+1
        PROVE  /\ g[NextOf(r[k])] = r[Succ(k, n+1)]
               /\ g[PrevOf(r[Succ(k, n+1)])] = r[k]
    <3>1. CASE k < n
      <4>1. Succ(k, n+1) = k+1 /\ k \in 1..n-1 /\ k \in 1..n /\ k+1 \in 1..n
        BY <1>1, <3>1 DEF Succ
      <4> QED BY <4>1, <2>1, <1>3
    <3>2. CASE k = n
      <4>1. Succ(k, n+1) = n+1 /\ n \in 1..n
        BY <1>1, <3>2 DEF Succ
      <4> QED BY <4>1, <3>2, <2>1 DEF n
    <3>3. CASE k = n+1
      <4>1. Succ(k, n+1) = 1 /\ 1 \in 1..n
        BY <1>1, <3>3 DEF Succ
      <4> QED BY <4>1, <3>3, <2>1 DEF n
    <3> QED BY <1>1, <3>1, <3>2, <3>3
  <2>3. 1 \in 1..n
    BY <1>1
  <2> QED BY <1>4, <2>1, <2>2, <2>3 DEF Ring, r
<1>5. ASSUME g[Top] = i PROVE Ring(g, <<i>> \o l)
  <2> DEFINE r == <<i>> \o l
  <2>1. /\ r # <<>> /\ Len(r) = n + 1 /\ r[1] = i
        /\ \A k \in 1..n : r[k+1] = l[k]
    <3>1. <<i>> \in Seq(Nodes) /\ Len(<<i>>) = 1 /\ <<i>>[1] = i
      OBVIOUS
    <3>2. /\ r \in Seq(Nodes) /\ Len(r) = n + 1
          /\ \A k \in 1..n+1 : r[k] = IF k <= 1 THEN <<i>>[k] ELSE l[k-1]
      BY <3>1, ConcatProperties
    <3>3. \A k \in 1..n : k+1 \in 1..n+1 /\ k+1 > 1 /\ (k+1)-1 = k
      BY <1>1
    <3>4. 1 \in 1..n+1
      BY <1>1
    <3> QED BY <1>1, <3>1, <3>2, <3>3, <3>4, EmptySeq
  <2> HIDE DEF r, n
  <2>2. ASSUME NEW k \in 1..n+1
        PROVE  /\ g[NextOf(r[k])] = r[Succ(k, n+1)]
               /\ g[PrevOf(r[Succ(k, n+1)])] = r[k]
    <3>1. CASE k = 1
      <4>1. Succ(k, n+1) = 1+1 /\ 1 \in 1..n
        BY <1>1, <3>1 DEF Succ
      <4> QED BY <4>1, <3>1, <2>1 DEF n
    <3>2. CASE k > 1 /\ k < n+1
      <4>1. /\ Succ(k, n+1) = k+1 /\ k-1 \in 1..n-1 /\ k-1 \in 1..n /\ k \in 1..n
            /\ (k-1)+1 = k
        BY <1>1, <3>2 DEF Succ
      <4> QED BY <4>1, <2>1, <1>3
    <3>3. CASE k = n+1
      <4>1. Succ(k, n+1) = 1 /\ n \in 1..n
        BY <1>1, <3>3 DEF Succ
      <4> QED BY <4>1, <3>3, <2>1 DEF n
    <3> QED BY <1>1, <3>1, <3>2, <3>3
  <2> QED BY <1>5, <2>1, <2>2 DEF Ring, r
<1> QED BY <1>4, <1>5

\* From m to g the links change as a node i is put after the k-th.
LinkedAfter(m, g, l, k, i) ==
  /\ g[NextOf(l[k])] = i /\ g[PrevOf(i)] = l[k]
  /\ g[NextOf(i)] = l[Succ(k, Len(l))] /\ g[PrevOf(l[Succ(k, Len(l))])] = i
  /\ g[Top] = m[Top]
  /\ \A j \in 1..Len(l) :
       j # k => /\ g[NextOf(l[j])] = m[NextOf(l[j])]
                /\ g[PrevOf(l[Succ(j, Len(l))])] = m[PrevOf(l[Succ(j, Len(l))])]

\* A node put after the k-th is the next one of the ring.
LEMMA RingAfter ==
  \A m, g : \A l \in Seq(Nodes) : \A k \in 1..Len(l), i \in Nodes :
    Ring(m, l) /\ LinkedAfter(m, g, l, k, i) => Ring(g, InsertAt(l, k + 1, i))
<1> SUFFICES ASSUME NEW m, NEW g, NEW l \in Seq(Nodes), NEW k \in 1..Len(l), NEW i \in Nodes,
                    Ring(m, l), LinkedAfter(m, g, l, k, i)
             PROVE  Ring(g, InsertAt(l, k + 1, i))
  OBVIOUS
<1> DEFINE n == Len(l)
           r == InsertAt(l, k + 1, i)
<1>1. n \in Nat /\ n > 0 /\ k + 1 \in 1..n+1 /\ l # <<>>
  BY LenProperties, EmptySeq
<1>2. /\ Len(r) = n + 1
      /\ \A j \in 1..n+1 : r[j] = IF j < k + 1 THEN l[j] ELSE IF j = k + 1 THEN i ELSE l[j-1]
  <2>1. PICK p \in 1..Len(l)+1 : p = k + 1
    BY <1>1
  <2>2. /\ Len(InsertAt(l, p, i)) = Len(l) + 1
        /\ \A j \in 1..Len(l)+1 :
             InsertAt(l, p, i)[j] = IF j < p THEN l[j] ELSE IF j = p THEN i ELSE l[j-1]
    BY InsertAtProperties
  <2> QED BY <2>1, <2>2
<1>3. \A j \in 1..n : j # k => /\ g[NextOf(l[j])] = l[Succ(j, n)]
                               /\ g[PrevOf(l[Succ(j, n)])] = l[j]
  BY DEF Ring, LinkedAfter
<1>4. /\ g[NextOf(l[k])] = i /\ g[PrevOf(i)] = l[k]
      /\ g[NextOf(i)] = l[Succ(k, n)] /\ g[PrevOf(l[Succ(k, n)])] = i
      /\ g[Top] = l[1]
  BY <1>1 DEF Ring, LinkedAfter
<1> HIDE DEF n, r
<1>5. k \in 1..n
  BY DEF n
<1>6. ASSUME NEW j \in 1..n+1
      PROVE  /\ g[NextOf(r[j])] = r[Succ(j, n+1)]
             /\ g[PrevOf(r[Succ(j, n+1)])] = r[j]
  <2>1. CASE j < k
    <3>1. /\ r[j] = l[j] /\ Succ(j, n+1) = j+1 /\ r[j+1] = l[j+1]
          /\ Succ(j, n) = j+1 /\ j \in 1..n /\ j # k
      BY <1>1, <1>2, <1>5, <2>1 DEF Succ
    <3> QED BY <1>3, <3>1
  <2>2. CASE j = k
    <3>1. r[j] = l[k] /\ Succ(j, n+1) = k+1 /\ r[k+1] = i
      BY <1>1, <1>2, <1>5, <2>2 DEF Succ
    <3> QED BY <1>4, <3>1
  <2>3. CASE j = k+1
    <3>1. r[j] = i /\ r[Succ(j, n+1)] = l[Succ(k, n)]
      <4>1. CASE k = n
        <5>1. Succ(j, n+1) = 1 /\ Succ(k, n) = 1 /\ 1 \in 1..n+1 /\ 1 < k+1
          BY <1>1, <1>5, <2>3, <4>1 DEF Succ
        <5> QED BY <1>2, <2>3, <5>1
      <4>2. CASE k # n
        <5>1. /\ Succ(j, n+1) = k+2 /\ Succ(k, n) = k+1 /\ k+2 \in 1..n+1 
              /\ (k+2)-1 = k+1 /\ ~(k+2 < k+1) /\ k+2 # k+1
          BY <1>1, <1>5, <2>3, <4>2 DEF Succ
        <5> QED BY <1>2, <2>3, <5>1
      <4> QED BY <4>1, <4>2
    <3> QED BY <1>4, <3>1
  <2>4. CASE j > k+1
    <3>1. r[j] = l[j-1] /\ j-1 \in 1..n /\ j-1 # k
      BY <1>1, <1>2, <1>5, <2>4
    <3>2. r[Succ(j, n+1)] = l[Succ(j-1, n)]
      <4>1. CASE j = n+1
        <5>1. Succ(j, n+1) = 1 /\ Succ(j-1, n) = 1 /\ 1 \in 1..n+1 /\ 1 < k+1
          BY <1>1, <1>5, <4>1 DEF Succ
        <5> QED BY <1>2, <5>1
      <4>2. CASE j # n+1
        <5>1. /\ Succ(j, n+1) = j+1 /\ Succ(j-1, n) = j /\ j+1 \in 1..n+1
              /\ (j+1)-1 = j /\ ~(j+1 < k+1) /\ j+1 # k+1
          BY <1>1, <1>5, <2>4, <4>2 DEF Succ
        <5> QED BY <1>2, <5>1
      <4> QED BY <4>1, <4>2
    <3> QED BY <1>3, <3>1, <3>2
  <2> QED BY <1>1, <1>5, <2>1, <2>2, <2>3, <2>4
<1>7. g[Top] = r[1] /\ r # <<>>
  <2>1. 1 \in 1..n+1 /\ 1 < k+1
    BY <1>1, <1>5
  <2> QED BY <1>1, <1>2, <1>4, <2>1, EmptySeq
<1> QED BY <1>2, <1>6, <1>7 DEF Ring, r

\* From m to g the links change as the k-th node is taken out.
Unlinked(m, g, l, k) ==
  /\ g[NextOf(l[Pred(k, Len(l))])] = l[Succ(k, Len(l))]
  /\ g[PrevOf(l[Succ(k, Len(l))])] = l[Pred(k, Len(l))]
  /\ \A j \in 1..Len(l) :
       j # k /\ j # Pred(k, Len(l)) =>
         /\ g[NextOf(l[j])] = m[NextOf(l[j])]
         /\ g[PrevOf(l[Succ(j, Len(l))])] = m[PrevOf(l[Succ(j, Len(l))])]

\* The ring of n nodes, without the k-th, in order: the j-th is the f[j]-th.
Skips(f, k, n) ==
  \A j \in 1..n-1 :
    /\ f[j] \in 1..n /\ f[j] # k
    /\ f[Succ(j, n-1)] = IF f[j] = Pred(k, n) THEN Succ(k, n) ELSE Succ(f[j], n)

\* A ring without its k-th node, listed from any place on.
LEMMA RingWithout ==
  ASSUME NEW m, NEW g, NEW f, NEW l \in Seq(Nodes), NEW r \in Seq(Nodes),
         NEW k \in 1..Len(l), Ring(m, l), Unlinked(m, g, l, k),
         Len(r) = Len(l) - 1, Skips(f, k, Len(l)),
         \A j \in 1..Len(l)-1 : r[j] = l[f[j]],
         g[Top] = IF r = <<>> THEN Null ELSE r[1]
  PROVE  Ring(g, r)
<1> DEFINE n == Len(l)
<1>1. n \in Nat /\ n > 0
  BY LenProperties, EmptySeq
<1>2. \A j \in 1..n : j # k /\ j # Pred(k, n) =>
        /\ g[NextOf(l[j])] = l[Succ(j, n)]
        /\ g[PrevOf(l[Succ(j, n)])] = l[j]
  BY DEF Ring, Unlinked
<1>3. ASSUME NEW j \in 1..n-1
      PROVE  /\ g[NextOf(r[j])] = r[Succ(j, n-1)]
             /\ g[PrevOf(r[Succ(j, n-1)])] = r[j]
  <2>1. Succ(j, n-1) \in 1..n-1
    BY <1>1 DEF Succ
  <2>2. r[j] = l[f[j]] /\ r[Succ(j, n-1)] = l[f[Succ(j, n-1)]] /\ f[j] \in 1..n /\ f[j] # k
    BY <2>1 DEF Skips
  <2>3. f[Succ(j, n-1)] = IF f[j] = Pred(k, n) THEN Succ(k, n) ELSE Succ(f[j], n)
    BY DEF Skips
  <2>4. g[NextOf(l[Pred(k, n)])] = l[Succ(k, n)] /\ g[PrevOf(l[Succ(k, n)])] = l[Pred(k, n)]
    BY DEF Unlinked
  <2> QED BY ONLY <1>2, <2>2, <2>3, <2>4
<1> QED BY <1>3 DEF Ring

\* The two ways the code lists the rest: from the same head, and from the
\* successor of the node.
LEMMA SkipsInPlace ==
  ASSUME NEW n \in Nat, NEW k \in 1..n
  PROVE  Skips([j \in 1..n-1 |-> IF j < k THEN j ELSE j + 1], k, n)
<1> DEFINE f == [j \in 1..n-1 |-> IF j < k THEN j ELSE j + 1]
<1> SUFFICES ASSUME NEW j \in 1..n-1
             PROVE  /\ f[j] \in 1..n /\ f[j] # k
                    /\ f[Succ(j, n-1)] = IF f[j] = Pred(k, n) THEN Succ(k, n) ELSE Succ(f[j], n)
  BY DEF Skips
<1>1. Succ(j, n-1) \in 1..n-1
  BY DEF Succ
<1> QED BY <1>1 DEF Succ, Pred

LEMMA SkipsRotated ==
  ASSUME NEW n \in Nat, NEW k \in 1..n
  PROVE  Skips([j \in 1..n-1 |-> IF j <= n-k THEN k + j ELSE j - (n-k)], k, n)
<1> DEFINE f == [j \in 1..n-1 |-> IF j <= n-k THEN k + j ELSE j - (n-k)]
<1> SUFFICES ASSUME NEW j \in 1..n-1
             PROVE  /\ f[j] \in 1..n /\ f[j] # k
                    /\ f[Succ(j, n-1)] = IF f[j] = Pred(k, n) THEN Succ(k, n) ELSE Succ(f[j], n)
  BY DEF Skips
<1>1. Succ(j, n-1) \in 1..n-1
  BY DEF Succ
<1> QED BY <1>1 DEF Succ, Pred

Rotated(l, k) == SubSeq(l, k + 1, Len(l)) \o SubSeq(l, 1, k - 1)

IsRotated(S, l, k) ==
  /\ Rotated(l, k) \in Seq(S) /\ Len(Rotated(l, k)) = Len(l) - 1
  /\ \A j \in 1..Len(l)-1 :
       Rotated(l, k)[j] = l[IF j <= Len(l)-k THEN k + j ELSE j - (Len(l)-k)]
  /\ IsInjective(l) => /\ IsInjective(Rotated(l, k))
                       /\ ToSet(Rotated(l, k)) = ToSet(l) \ {l[k]}

LEMMA RotatedElements ==
  ASSUME NEW S, NEW l \in Seq(S), NEW k \in 1..Len(l)
  PROVE  IsRotated(S, l, k)
<1> DEFINE n == Len(l)
           a == SubSeq(l, k + 1, n)
           b == SubSeq(l, 1, k - 1)
           f == [j \in 1..n-1 |-> IF j <= n-k THEN k + j ELSE j - (n-k)]
           r == Rotated(l, k)
<1>1. n \in Nat /\ DOMAIN l = 1..n /\ \A j \in 1..n : l[j] \in S
  BY LenProperties
<1>2. a \in Seq(S) /\ Len(a) = n-k /\ \A j \in 1..n-k : a[j] = l[k+j]
  <2>1. /\ a \in Seq(S) /\ Len(a) = IF k+1 <= n THEN n-(k+1)+1 ELSE 0
        /\ \A j \in 1..n-(k+1)+1 : a[j] = l[(k+1)+j-1]
    BY <1>1, SubSeqProperties
  <2>2. k \in 1..n
    OBVIOUS
  <2> HIDE DEF a, n, f
  <2>3. Len(a) = n-k /\ n-(k+1)+1 = n-k
    BY <1>1, <2>1, <2>2
  <2>4. \A j \in 1..n-k : (k+1)+j-1 = k+j
    BY <1>1, <2>2
  <2> QED BY <2>1, <2>3, <2>4
<1>3. b \in Seq(S) /\ Len(b) = k-1 /\ \A j \in 1..k-1 : b[j] = l[j]
  BY <1>1, SubSeqProperties
<1>4. /\ r \in Seq(S) /\ Len(r) = n-1
      /\ \A j \in 1..n-1 : r[j] = IF j <= n-k THEN a[j] ELSE b[j-(n-k)]
  <2> HIDE DEF a, b
  <2>1. /\ a \o b \in Seq(S) /\ Len(a \o b) = Len(a) + Len(b)
        /\ \A j \in 1..Len(a)+Len(b) : (a \o b)[j] = IF j <= Len(a) THEN a[j] ELSE b[j-Len(a)]
    BY <1>2, <1>3, ConcatProperties
  <2>2. Len(a) + Len(b) = n-1
    BY <1>1, <1>2, <1>3
  <2>3. r = a \o b
    BY DEF Rotated, a, b
  <2> QED BY <1>2, <2>1, <2>2, <2>3
<1> HIDE DEF r, a, b
<1>5. \A j \in 1..n-1 : f[j] \in 1..n /\ f[j] # k /\ r[j] = l[f[j]]
  <2> SUFFICES ASSUME NEW j \in 1..n-1 PROVE f[j] \in 1..n /\ f[j] # k /\ r[j] = l[f[j]]
    OBVIOUS
  <2>1. CASE j <= n-k
    <3>1. j \in 1..n-k
      BY <1>1, <2>1
    <3> QED BY <1>1, <1>2, <1>4, <2>1, <3>1
  <2>2. CASE j > n-k
    <3>1. j-(n-k) \in 1..k-1 /\ ~(j <= n-k)
      BY <1>1, <2>2
    <3> QED BY <1>1, <1>3, <1>4, <2>2, <3>1
  <2> QED BY <1>1, <2>1, <2>2
<1>6. \A i, j \in 1..n-1 : f[i] = f[j] => i = j
  BY <1>1
<1>7. \A i \in 1..n : i # k => \E j \in 1..n-1 : f[j] = i
  <2> SUFFICES ASSUME NEW i \in 1..n, i # k PROVE \E j \in 1..n-1 : f[j] = i
    OBVIOUS
  <2>1. CASE i > k
    <3>1. i-k \in 1..n-1 /\ f[i-k] = i
      BY <1>1, <2>1
    <3> QED BY <3>1
  <2>2. CASE i < k
    <3>1. i+(n-k) \in 1..n-1 /\ f[i+(n-k)] = i
      BY <1>1, <2>2
    <3> QED BY <3>1
  <2> QED BY <1>1, <2>1, <2>2
<1>8. DOMAIN r = 1..n-1
  BY <1>1, <1>4, LenProperties
<1>9. ASSUME IsInjective(l)
      PROVE  IsInjective(r) /\ ToSet(r) = ToSet(l) \ {l[k]}
  <2>1. \A i, j \in 1..n : l[i] = l[j] => i = j
    BY <1>1, <1>9 DEF IsInjective
  <2> HIDE DEF f, n
  <2>2. IsInjective(r)
    BY <1>5, <1>6, <1>8, <2>1 DEF IsInjective
  <2>3. ToSet(r) = {r[j] : j \in 1..n-1} /\ ToSet(l) = {l[j] : j \in 1..n} /\ k \in 1..n
    BY <1>1, <1>8 DEF ToSet, n
  <2> QED BY <1>5, <1>7, <2>1, <2>2, <2>3
<1>10. \A j \in 1..n-1 : r[j] = l[IF j <= n-k THEN k + j ELSE j - (n-k)]
  BY <1>5
<1> QED BY <1>4, <1>9, <1>10 DEF r, IsRotated

-----------------------------------------------------------------------------
(* What the writes of an operation leave.                                  *)

\* The value a cell has in g is in place, or is the last of ws to be written.
Settled(g, m, ws, c) ==
  \/ m[c] = g[c] /\ \A k \in DOMAIN ws : ws[k][1] # c
  \/ \E k \in DOMAIN ws :
       /\ ws[k] = <<c, g[c]>>
       /\ \A j \in DOMAIN ws : j > k => ws[j][1] # c

\* The first write made, the memory will still be g.
LEMMA WriteSettles ==
  \A U, g, m : \A ws \in Seq(Writes(U)) :
    /\ Settles(g, m, ws) /\ ws # <<>> /\ DOMAIN m = Cells
    => Settles(g, [m EXCEPT ![Head(ws)[1]] = Head(ws)[2]], Tail(ws))
<1> SUFFICES ASSUME NEW U, NEW g, NEW m, NEW ws \in Seq(Writes(U)), Settles(g, m, ws), ws # <<>>,
                    DOMAIN m = Cells
             PROVE  Settles(g, [m EXCEPT ![Head(ws)[1]] = Head(ws)[2]], Tail(ws))
  OBVIOUS
<1> DEFINE w == Head(ws)
           mm == [m EXCEPT ![w[1]] = w[2]]
           r == Tail(ws)
           n == Len(ws)
<1>1. /\ n \in Nat /\ n > 0 /\ DOMAIN ws = 1..n
      /\ r \in Seq(Writes(U)) /\ Len(r) = n-1 /\ DOMAIN r = 1..n-1
      /\ w = ws[1] /\ \A j \in 1..n-1 : r[j] = ws[j+1]
  BY LenProperties, EmptySeq, HeadTailProperties
<1>2. w \in Writes(U)
  BY <1>1, ElementOfSeq
<1>3. w[1] \in Cells /\ mm[w[1]] = w[2] /\ \A c \in Cells : c # w[1] => mm[c] = m[c]
  BY <1>2 DEF Writes
<1> HIDE DEF w, mm, r, n
<1>4. ASSUME NEW c \in Cells PROVE Settled(g, mm, r, c)
  <2>1. CASE m[c] = g[c] /\ \A k \in DOMAIN ws : ws[k][1] # c
    <3>1. c # w[1]
      BY <1>1, <2>1
    <3>2. \A k \in 1..n-1 : k+1 \in 1..n
      BY <1>1
    <3>3. \A k \in DOMAIN r : r[k][1] # c
      BY <1>1, <2>1, <3>2
    <3> QED BY <1>3, <2>1, <3>1, <3>3 DEF Settled
  <2>2. ASSUME NEW k \in 1..n, ws[k] = <<c, g[c]>>,
               \A j \in 1..n : j > k => ws[j][1] # c
        PROVE  Settled(g, mm, r, c)
    <3>1. CASE k = 1
      <4>1. w[1] = c /\ w[2] = g[c]
        BY <1>1, <2>2, <3>1
      <4>2. \A j \in 1..n-1 : j+1 \in 1..n /\ j+1 > k
        BY <1>1, <3>1
      <4>3. \A j \in DOMAIN r : r[j][1] # c
        BY <1>1, <2>2, <4>2
      <4> QED BY <1>3, <4>1, <4>3 DEF Settled
    <3>2. CASE k > 1
      <4>1. k-1 \in DOMAIN r /\ (k-1)+1 = k
        BY <1>1, <3>2
      <4>2. \A j \in 1..n-1 : j > k-1 => j+1 \in 1..n /\ j+1 > k
        BY <1>1
      <4>3. r[k-1] = <<c, g[c]>>
        BY <1>1, <2>2, <4>1
      <4>4. \A j \in DOMAIN r : j > k-1 => r[j][1] # c
        BY <1>1, <2>2, <4>2
      <4> QED BY ONLY <4>1, <4>3, <4>4 DEF Settled
    <3> QED BY <1>1, <3>1, <3>2
  <2>3. Settled(g, m, ws, c)
    BY DEF Settles, Settled
  <2> QED BY <1>1, <2>1, <2>2, <2>3 DEF Settled
<1>5. Settles(g, mm, r)
  BY <1>4 DEF Settles, Settled
<1> QED BY <1>5 DEF mm, r, w

\* Writes(U) and then more writes.
LEMMA SettlesInTurn ==
  \A U, m, h, g : \A a, b \in Seq(Writes(U)) :
    Settles(h, m, a) /\ Settles(g, h, b) => Settles(g, m, a \o b)
<1> SUFFICES ASSUME NEW U, NEW m, NEW h, NEW g, NEW a \in Seq(Writes(U)), NEW b \in Seq(Writes(U)),
                    Settles(h, m, a), Settles(g, h, b)
             PROVE  Settles(g, m, a \o b)
  OBVIOUS
<1> DEFINE r == a \o b
           la == Len(a)
           lb == Len(b)
<1>1. /\ la \in Nat /\ lb \in Nat /\ DOMAIN a = 1..la /\ DOMAIN b = 1..lb
  BY LenProperties
<1>2. /\ DOMAIN r = 1..la+lb
      /\ \A j \in 1..la+lb : r[j] = IF j <= la THEN a[j] ELSE b[j-la]
  BY ConcatProperties, LenProperties
<1> HIDE DEF r, la, lb
<1>3. \A j \in 1..la : j \in DOMAIN r /\ r[j] = a[j]
  BY <1>1, <1>2
<1>4. ASSUME NEW j \in 1..lb PROVE la+j \in DOMAIN r /\ r[la+j] = b[j]
  <2>1. la+j \in 1..la+lb /\ ~(la+j <= la) /\ (la+j)-la = j
    BY <1>1
  <2> QED BY <1>2, <2>1
<1>5. \A j \in DOMAIN r : j \in 1..la \/ (j-la \in 1..lb /\ la+(j-la) = j)
  BY <1>1, <1>2
<1>6. ASSUME NEW c \in Cells PROVE Settled(g, m, r, c)
  <2>1. CASE h[c] = g[c] /\ \A k \in DOMAIN b : b[k][1] # c
    <3>1. CASE m[c] = h[c] /\ \A k \in DOMAIN a : a[k][1] # c
      <4>1. \A k \in DOMAIN r : r[k][1] # c
        BY <1>1, <1>3, <1>4, <1>5, <2>1, <3>1
      <4> QED BY <2>1, <3>1, <4>1 DEF Settled
    <3>2. ASSUME NEW k \in DOMAIN a, a[k] = <<c, h[c]>>,
                 \A j \in DOMAIN a : j > k => a[j][1] # c
          PROVE  Settled(g, m, r, c)
      <4>1. k \in DOMAIN r /\ r[k] = <<c, g[c]>>
        BY <1>1, <1>3, <2>1, <3>2
      <4>2. \A j \in DOMAIN r : j > k => r[j][1] # c
        BY <1>1, <1>3, <1>4, <1>5, <2>1, <3>2
      <4> QED BY <4>1, <4>2 DEF Settled
    <3> QED BY <3>1, <3>2 DEF Settles
  <2>2. ASSUME NEW k \in DOMAIN b, b[k] = <<c, g[c]>>,
               \A j \in DOMAIN b : j > k => b[j][1] # c
        PROVE  Settled(g, m, r, c)
    <3>1. la+k \in DOMAIN r /\ r[la+k] = <<c, g[c]>>
      BY <1>1, <1>4, <2>2
    <3>2. ASSUME NEW j \in DOMAIN r, j > la+k PROVE r[j][1] # c
      <4>1. j-la \in 1..lb /\ la+(j-la) = j /\ j-la > k
        BY <1>1, <1>2, <3>2, <2>2
      <4> QED BY <1>1, <1>4, <2>2, <4>1
    <3> QED BY <3>1, <3>2 DEF Settled
  <2> QED BY <2>1, <2>2 DEF Settles
<1>7. Settles(g, m, r)
  BY <1>6 DEF Settles, Settled
<1> QED BY <1>7 DEF r

LEMMA SettlesNone ==
  \A U, m : Settles(m, m, <<>>) /\ <<>> \in Seq(Writes(U))
  BY DEF Settles

LEMMA SettlesOne ==
  \A U, m, c, v : DOMAIN m = Cells /\ <<c, v>> \in Writes(U) =>
    << <<c, v>> >> \in Seq(Writes(U)) /\ Settles([m EXCEPT ![c] = v], m, << <<c, v>> >>)
  BY DEF Settles, Writes

\* The writes ws turn the memory m into g, and change no cell but those of S.
Makes(g, m, ws, S) ==
  /\ Settles(g, m, ws) /\ DOMAIN g = Cells
  /\ \A y \in Cells : y \notin S => g[y] = m[y]

\* Writes to cells that differ.
One(c, v) == << <<c, v>> >>
MakesOne(g, m, c, v) == Makes(g, m, One(c, v), {c}) /\ g[c] = v
Two(c, v, d, u) == << <<c, v>>, <<d, u>> >>
MakesTwo(g, m, c, v, d, u) ==
  Makes(g, m, Two(c, v, d, u), {c, d}) /\ g[c] = v /\ g[d] = u

LEMMA TwoWrites ==
  ASSUME NEW U, NEW m, NEW c, NEW v, NEW d, NEW u, DOMAIN m = Cells,
         <<c, v>> \in Writes(U), <<d, u>> \in Writes(U), c # d
  PROVE  Two(c, v, d, u) \in Seq(Writes(U)) /\ \E g : MakesTwo(g, m, c, v, d, u)
<1> DEFINE h == [m EXCEPT ![c] = v]
           g == [h EXCEPT ![d] = u]
<1>1. << <<c, v>> >> \in Seq(Writes(U)) /\ Settles(h, m, << <<c, v>> >>)
  BY SettlesOne
<1>2. /\ DOMAIN g = Cells /\ g[c] = v /\ g[d] = u
      /\ \A x \in Cells : x \notin {c, d} => g[x] = m[x]
  BY DEF Writes
<1>3. << <<d, u>> >> \in Seq(Writes(U)) /\ Settles(g, h, << <<d, u>> >>)
  <2>1. DOMAIN h = Cells
    OBVIOUS
  <2> HIDE DEF h
  <2> QED BY <2>1, SettlesOne
<1> HIDE DEF g, h
<1>4. << <<c, v>>, <<d, u>> >> = << <<c, v>> >> \o << <<d, u>> >>
  BY OneAndOne
<1>5. << <<c, v>>, <<d, u>> >> \in Seq(Writes(U))
  OBVIOUS
<1>6. Settles(g, m, << <<c, v>>, <<d, u>> >>)
  BY <1>1, <1>3, <1>4, SettlesInTurn
<1> QED BY <1>2, <1>5, <1>6 DEF Makes, MakesTwo, Two

Four(c, v, d, u, e, w, f, x) == << <<c, v>>, <<d, u>>, <<e, w>>, <<f, x>> >>
MakesFour(g, m, c, v, d, u, e, w, f, x) ==
  /\ Makes(g, m, Four(c, v, d, u, e, w, f, x), {c, d, e, f})
  /\ g[c] = v /\ g[d] = u /\ g[e] = w /\ g[f] = x

LEMMA FourWrites ==
  ASSUME NEW U, NEW m, NEW c, NEW v, NEW d, NEW u, NEW e, NEW w, NEW f, NEW x,
         DOMAIN m = Cells, <<c, v>> \in Writes(U), <<d, u>> \in Writes(U),
         <<e, w>> \in Writes(U), <<f, x>> \in Writes(U),
         c # d, c # e, c # f, d # e, d # f, e # f
  PROVE  /\ Four(c, v, d, u, e, w, f, x) \in Seq(Writes(U))
         /\ \E g : MakesFour(g, m, c, v, d, u, e, w, f, x)
<1> DEFINE a == << <<c, v>>, <<d, u>> >>
           b == << <<e, w>>, <<f, x>> >>
           ws == << <<c, v>>, <<d, u>>, <<e, w>>, <<f, x>> >>
<1>1. a \in Seq(Writes(U)) /\ \E h : Makes(h, m, a, {c, d}) /\ h[c] = v /\ h[d] = u
  BY TwoWrites DEF MakesTwo, Two
<1>2. PICK h : Makes(h, m, a, {c, d}) /\ h[c] = v /\ h[d] = u
  BY <1>1
<1>3. DOMAIN h = Cells
  BY <1>2 DEF Makes
<1>4. b \in Seq(Writes(U)) /\ \E g : Makes(g, h, b, {e, f}) /\ g[e] = w /\ g[f] = x
  BY <1>3, TwoWrites DEF MakesTwo, Two
<1>5. PICK g : Makes(g, h, b, {e, f}) /\ g[e] = w /\ g[f] = x
  BY <1>4
<1>6. ws = a \o b /\ ws \in Seq(Writes(U))
  <2>1. ws = a \o b
    <3> DEFINE p == <<c, v>>
               q == <<d, u>>
               r == <<e, w>>
               t == <<f, x>>
    <3> HIDE DEF p, q, r, t
    <3>1. <<p, q, r, t>> = <<p, q>> \o <<r, t>>
      BY ONLY TwoAndTwo, Z3
    <3> QED BY <3>1 DEF p, q, r, t
  <2>2. ws \in Seq(Writes(U))
    OBVIOUS
  <2> QED BY <2>1, <2>2
<1>7. c \in Cells /\ d \in Cells /\ e \in Cells /\ f \in Cells
  BY DEF Writes
<1> HIDE DEF a, b, ws
<1>8. Settles(g, m, ws)
  BY <1>1, <1>2, <1>4, <1>5, <1>6, SettlesInTurn DEF Makes
<1>9. /\ DOMAIN g = Cells /\ g[c] = v /\ g[d] = u
      /\ \A y \in Cells : y \notin {c, d, e, f} => g[y] = m[y]
  BY <1>2, <1>5, <1>7 DEF Makes
<1>10. Makes(g, m, ws, {c, d, e, f})
  BY <1>8, <1>9 DEF Makes
<1>11. ws = Four(c, v, d, u, e, w, f, x)
  BY DEF ws, Four
<1>12. MakesFour(g, m, c, v, d, u, e, w, f, x)
  BY <1>5, <1>9, <1>10, <1>11 DEF MakesFour
<1> QED BY <1>6, <1>11, <1>12

LEMMA WritesAre ==
  ASSUME NEW U \in SUBSET Nodes
  PROVE  /\ \A n \in Nodes : \A v \in Nodes \cup {Null, Garbage} :
              <<NextOf(n), v>> \in Writes(U) /\ <<PrevOf(n), v>> \in Writes(U)
         /\ \A n \in Nodes : \A v \in BOOLEAN : <<Live(n), v>> \in Writes(U)
         /\ \A v \in U \cup {Null} : <<Top, v>> \in Writes(U)
<1>1. \A n \in Nodes : \A v \in Nodes \cup {Null, Garbage} :
        <<NextOf(n), v>> \in Writes(U) /\ <<PrevOf(n), v>> \in Writes(U)
  BY CellsDiffer DEF Writes, Values
<1>2. \A n \in Nodes : \A v \in BOOLEAN : <<Live(n), v>> \in Writes(U)
  BY CellsDiffer DEF Writes, Values
<1>3. \A v \in U \cup {Null} : <<Top, v>> \in Writes(U)
  BY CellsDiffer DEF Writes, Values
<1> QED BY <1>1, <1>2, <1>3

\* A new node is allocated, and nothing else has changed but its links.
LEMMA NewNodeWrites ==
  ASSUME NEW U \in SUBSET Nodes, NEW m, NEW i \in Nodes, DOMAIN m = Cells
  PROVE  /\ NewNode(i) \in Seq(Writes(U))
         /\ \E g : /\ Makes(g, m, NewNode(i), {Live(i), NextOf(i), PrevOf(i)})
                   /\ g[Live(i)] = TRUE
<1> DEFINE a == << <<Live(i), TRUE>> >>
           b == << <<NextOf(i), i>>, <<PrevOf(i), i>> >>
           h == [m EXCEPT ![Live(i)] = TRUE]
<1>1. /\ Live(i) \in Cells /\ NextOf(i) \in Cells /\ PrevOf(i) \in Cells
      /\ Live(i) # NextOf(i) /\ Live(i) # PrevOf(i) /\ NextOf(i) # PrevOf(i)
  BY CellsDiffer
<1>2. /\ <<Live(i), TRUE>> \in Writes(U) /\ <<NextOf(i), i>> \in Writes(U) /\ <<PrevOf(i), i>> \in Writes(U)
  BY WritesAre
<1>3. /\ a \in Seq(Writes(U)) /\ Settles(h, m, a) /\ DOMAIN h = Cells /\ h[Live(i)] = TRUE
      /\ \A y \in Cells : y # Live(i) => h[y] = m[y]
  BY <1>1, <1>2, SettlesOne
<1> HIDE DEF h
<1>4. b \in Seq(Writes(U)) /\ \E g : Makes(g, h, b, {NextOf(i), PrevOf(i)})
  <2>1. /\ Two(NextOf(i), i, PrevOf(i), i) \in Seq(Writes(U))
        /\ \E g : MakesTwo(g, h, NextOf(i), i, PrevOf(i), i)
    BY ONLY <1>1, <1>2, <1>3, TwoWrites
  <2> QED BY <2>1 DEF MakesTwo, Two
<1>5. PICK g : Makes(g, h, b, {NextOf(i), PrevOf(i)})
  BY <1>4
<1>6. NewNode(i) = a \o b
  <2> DEFINE p == <<Live(i), TRUE>>
             q == <<NextOf(i), i>>
             r == <<PrevOf(i), i>>
  <2> HIDE DEF p, q, r
  <2>1. <<p, q, r>> = <<p>> \o <<q, r>>
    BY OneAndTwo
  <2> QED BY <2>1 DEF p, q, r, NewNode
<1>7. NewNode(i) \in Seq(Writes(U))
  BY <1>2 DEF NewNode
<1> HIDE DEF a, b
<1>8. Settles(g, m, NewNode(i))
  BY <1>3, <1>4, <1>5, <1>6, SettlesInTurn DEF Makes
<1>9. /\ DOMAIN g = Cells /\ g[Live(i)] = TRUE
      /\ \A y \in Cells : y \notin {Live(i), NextOf(i), PrevOf(i)} => g[y] = m[y]
  BY <1>1, <1>3, <1>5 DEF Makes
<1> QED BY <1>7, <1>8, <1>9 DEF Makes

LEMMA OneWrite ==
  ASSUME NEW U, NEW m, NEW c, NEW v, DOMAIN m = Cells, <<c, v>> \in Writes(U)
  PROVE  One(c, v) \in Seq(Writes(U)) /\ \E g : MakesOne(g, m, c, v)
<1> DEFINE g == [m EXCEPT ![c] = v]
<1>1. << <<c, v>> >> \in Seq(Writes(U)) /\ Settles(g, m, << <<c, v>> >>)
  BY SettlesOne
<1>2. DOMAIN g = Cells /\ g[c] = v /\ \A y \in Cells : y \notin {c} => g[y] = m[y]
  BY DEF Writes
<1> HIDE DEF g
<1> QED BY <1>1, <1>2 DEF Makes, MakesOne, One

-----------------------------------------------------------------------------
(* The operations: the ring each leaves, and that only its node is          *)
(* allocated or freed.                                                     *)

Leaves(g, m, ws, l, i, live) ==
  /\ Settles(g, m, ws) /\ DOMAIN g = Cells
  /\ Ring(g, l)
  /\ g[Live(i)] = live /\ \A n \in Nodes : n # i => g[Live(n)] = m[Live(n)]

\* The links of a new node i between p and s.
BeforeLinks(i, p, s) ==
  << <<PrevOf(s), i>>, <<NextOf(i), s>>, <<PrevOf(i), p>>, <<NextOf(p), i>> >>
AfterLinks(i, p, s) ==
  << <<NextOf(p), i>>, <<PrevOf(i), p>>, <<NextOf(i), s>>, <<PrevOf(s), i>> >>

Between(g, m, ws, i, p, s) ==
  /\ Makes(g, m, ws, {Live(i), NextOf(i), PrevOf(i), PrevOf(s), NextOf(p)})
  /\ g[Live(i)] = TRUE /\ g[NextOf(i)] = s /\ g[PrevOf(i)] = p
  /\ g[PrevOf(s)] = i /\ g[NextOf(p)] = i

LEMMA BetweenWrites ==
  ASSUME NEW U \in SUBSET Nodes, NEW m, DOMAIN m = Cells,
         NEW i \in Nodes, NEW p \in Nodes, NEW s \in Nodes, i # p, i # s
  PROVE  /\ NewNode(i) \in Seq(Writes(U))
         /\ BeforeLinks(i, p, s) \in Seq(Writes(U))
         /\ AfterLinks(i, p, s) \in Seq(Writes(U))
         /\ \E g : Between(g, m, NewNode(i) \o BeforeLinks(i, p, s), i, p, s)
         /\ \E g : Between(g, m, NewNode(i) \o AfterLinks(i, p, s), i, p, s)
<1> DEFINE cs == {Live(i), NextOf(i), PrevOf(i), PrevOf(s), NextOf(p)}
           good(g) == /\ g[Live(i)] = TRUE /\ g[NextOf(i)] = s /\ g[PrevOf(i)] = p
                      /\ g[PrevOf(s)] = i /\ g[NextOf(p)] = i
           a == NewNode(i)
           b == BeforeLinks(i, p, s)
           c == AfterLinks(i, p, s)
<1>1. a \in Seq(Writes(U)) /\ \E h : /\ Makes(h, m, a, {Live(i), NextOf(i), PrevOf(i)})
                                     /\ h[Live(i)] = TRUE
  BY NewNodeWrites
<1>2. PICK h : Makes(h, m, a, {Live(i), NextOf(i), PrevOf(i)}) /\ h[Live(i)] = TRUE
  BY <1>1
<1>3. DOMAIN h = Cells
  BY <1>2 DEF Makes
<1>4. /\ <<PrevOf(s), i>> \in Writes(U) /\ <<NextOf(i), s>> \in Writes(U)
      /\ <<PrevOf(i), p>> \in Writes(U) /\ <<NextOf(p), i>> \in Writes(U)
  BY WritesAre
<1>5. /\ PrevOf(s) # NextOf(i) /\ PrevOf(s) # PrevOf(i) /\ PrevOf(s) # NextOf(p)
      /\ NextOf(i) # PrevOf(i) /\ NextOf(i) # NextOf(p) /\ PrevOf(i) # NextOf(p)
  BY CellsDiffer
<1>6. /\ Live(i) \in Cells /\ NextOf(i) \in Cells /\ PrevOf(i) \in Cells
      /\ PrevOf(s) \in Cells /\ NextOf(p) \in Cells
      /\ Live(i) \notin {PrevOf(s), NextOf(i), PrevOf(i), NextOf(p)}
  BY CellsDiffer
<1>7. /\ b \in Seq(Writes(U))
      /\ \E g : /\ Makes(g, h, b, {PrevOf(s), NextOf(i), PrevOf(i), NextOf(p)})
                /\ g[PrevOf(s)] = i /\ g[NextOf(i)] = s /\ g[PrevOf(i)] = p /\ g[NextOf(p)] = i
  <2>1. b = Four(PrevOf(s), i, NextOf(i), s, PrevOf(i), p, NextOf(p), i)
    BY DEF BeforeLinks, Four
  <2>2. /\ Four(PrevOf(s), i, NextOf(i), s, PrevOf(i), p, NextOf(p), i) \in Seq(Writes(U))
        /\ \E g : MakesFour(g, h, PrevOf(s), i, NextOf(i), s, PrevOf(i), p, NextOf(p), i)
    BY ONLY <1>3, <1>4, <1>5, FourWrites
  <2> QED BY <2>1, <2>2 DEF MakesFour
<1>8. /\ c \in Seq(Writes(U))
      /\ \E g : /\ Makes(g, h, c, {NextOf(p), PrevOf(i), NextOf(i), PrevOf(s)})
                /\ g[NextOf(p)] = i /\ g[PrevOf(i)] = p /\ g[NextOf(i)] = s /\ g[PrevOf(s)] = i
  <2>1. c = Four(NextOf(p), i, PrevOf(i), p, NextOf(i), s, PrevOf(s), i)
    BY DEF AfterLinks, Four
  <2>2. /\ Four(NextOf(p), i, PrevOf(i), p, NextOf(i), s, PrevOf(s), i) \in Seq(Writes(U))
        /\ \E g : MakesFour(g, h, NextOf(p), i, PrevOf(i), p, NextOf(i), s, PrevOf(s), i)
    BY ONLY <1>3, <1>4, <1>5, FourWrites
  <2> QED BY <2>1, <2>2 DEF MakesFour
<1> HIDE DEF a, b, c
<1>9. \E g : Makes(g, m, a \o b, cs) /\ good(g)
  <2>1. PICK g : /\ Makes(g, h, b, {PrevOf(s), NextOf(i), PrevOf(i), NextOf(p)})
                 /\ g[PrevOf(s)] = i /\ g[NextOf(i)] = s /\ g[PrevOf(i)] = p /\ g[NextOf(p)] = i
    BY <1>7
  <2>2. Settles(g, m, a \o b)
    BY <1>1, <1>2, <1>7, <2>1, SettlesInTurn DEF Makes
  <2>3. /\ DOMAIN g = Cells /\ g[Live(i)] = TRUE
        /\ \A y \in Cells : y \notin cs => g[y] = m[y]
    BY <1>2, <1>6, <2>1 DEF Makes
  <2> QED BY <2>1, <2>2, <2>3 DEF Makes
<1>10. \E g : Makes(g, m, a \o c, cs) /\ good(g)
  <2>1. PICK g : /\ Makes(g, h, c, {NextOf(p), PrevOf(i), NextOf(i), PrevOf(s)})
                 /\ g[NextOf(p)] = i /\ g[PrevOf(i)] = p /\ g[NextOf(i)] = s /\ g[PrevOf(s)] = i
    BY <1>8
  <2>2. Settles(g, m, a \o c)
    BY <1>1, <1>2, <1>8, <2>1, SettlesInTurn DEF Makes
  <2>3. /\ DOMAIN g = Cells /\ g[Live(i)] = TRUE
        /\ \A y \in Cells : y \notin cs => g[y] = m[y]
    BY <1>2, <1>6, <2>1 DEF Makes
  <2> QED BY <2>1, <2>2, <2>3 DEF Makes
<1> QED BY <1>1, <1>7, <1>8, <1>9, <1>10 DEF a, b, c, Between

\* What is known as an operation with a new node begins.
Begins(U, m, l, i) ==
  /\ U \in SUBSET Nodes /\ DOMAIN m = Cells
  /\ l \in Seq(Nodes) /\ IsInjective(l) /\ Ring(m, l)
  /\ i \in Nodes /\ i \notin ToSet(l)

LEMMA EndsOfList ==
  ASSUME NEW l \in Seq(Nodes), l # <<>>
  PROVE  /\ Len(l) \in Nat \ {0} /\ DOMAIN l = 1..Len(l)
         /\ l[1] \in Nodes /\ l[Len(l)] \in Nodes
         /\ l[1] \in ToSet(l) /\ l[Len(l)] \in ToSet(l)
         /\ \A k \in 1..Len(l) : l[k] \in Nodes /\ l[k] \in ToSet(l)
<1>1. Len(l) \in Nat \ {0} /\ DOMAIN l = 1..Len(l)
  BY LenProperties, EmptySeq
<1>2. \A k \in 1..Len(l) : l[k] \in Nodes /\ l[k] \in ToSet(l)
  BY <1>1, ElementOfSeq DEF ToSet
<1>3. 1 \in 1..Len(l) /\ Len(l) \in 1..Len(l)
  BY <1>1
<1> QED BY <1>1, <1>2, <1>3

LEMMA LastWrites ==
  ASSUME NEW U, NEW m, NEW l, NEW i, Begins(U, m, l, i), l # <<>>
  PROVE  LET ws == NewNode(i) \o BeforeLinks(i, l[Len(l)], l[1]) IN
         /\ ws \in Seq(Writes(U))
         /\ \E g : Leaves(g, m, ws, Append(l, i), i, TRUE)
<1> DEFINE n == Len(l)
           s == l[1]
           p == l[n]
           ws == NewNode(i) \o BeforeLinks(i, p, s)
<1> USE DEF Begins
<1>1. /\ n \in Nat \ {0} /\ s \in Nodes /\ p \in Nodes /\ i # s /\ i # p
      /\ \A k \in 1..n : l[k] \in Nodes /\ l[k] # i
      /\ \A j, k \in 1..n : l[j] = l[k] => j = k
  BY EndsOfList DEF IsInjective
<1> HIDE DEF n, s, p
<1>2. /\ NewNode(i) \in Seq(Writes(U)) /\ BeforeLinks(i, p, s) \in Seq(Writes(U))
      /\ \E g : Between(g, m, ws, i, p, s)
  BY <1>1, BetweenWrites
<1>3. PICK g : Between(g, m, ws, i, p, s)
  BY <1>2
<1>4. /\ g[Top] = m[Top]
      /\ \A k \in Nodes : k # i => g[Live(k)] = m[Live(k)]
      /\ \A k \in Nodes : /\ k # i /\ k # s => g[PrevOf(k)] = m[PrevOf(k)]
                          /\ k # i /\ k # p => g[NextOf(k)] = m[NextOf(k)]
  BY <1>1, <1>3, CellsDiffer DEF Makes, Between
<1>5. \A k \in 1..n : /\ k # 1 => g[PrevOf(l[k])] = m[PrevOf(l[k])]
                      /\ k # n => g[NextOf(l[k])] = m[NextOf(l[k])]
  <2>1. 1 \in 1..n /\ n \in 1..n
    BY <1>1
  <2> QED BY <1>1, <1>4, <2>1 DEF s, p
<1>6. m[Top] = l[1]
  BY DEF Ring
<1>7. Ring(g, Append(l, i))
  BY <1>3, <1>4, <1>5, <1>6, RingBefore DEF n, s, p, Between
<1>8. ws \in Seq(Writes(U))
  BY <1>2, ConcatProperties
<1>9. Leaves(g, m, ws, Append(l, i), i, TRUE)
  BY <1>3, <1>4, <1>7 DEF Leaves, Makes, Between
<1> QED BY <1>8, <1>9 DEF n, s, p

LEMMA FirstWrites ==
  ASSUME NEW U, NEW m, NEW l, NEW i, Begins(U, m, l, i), i \in U, l # <<>>
  PROVE  LET ws == NewNode(i) \o (BeforeLinks(i, l[Len(l)], l[1]) \o << <<Top, i>> >>) IN
         /\ ws \in Seq(Writes(U))
         /\ \E g : Leaves(g, m, ws, <<i>> \o l, i, TRUE)
<1> DEFINE n == Len(l)
           s == l[1]
           p == l[n]
           a == NewNode(i)
           b == BeforeLinks(i, p, s)
           c == << <<Top, i>> >>
<1> USE DEF Begins
<1>1. /\ n \in Nat \ {0} /\ s \in Nodes /\ p \in Nodes /\ i # s /\ i # p
      /\ \A k \in 1..n : l[k] \in Nodes /\ l[k] # i
      /\ \A j, k \in 1..n : l[j] = l[k] => j = k
  BY EndsOfList DEF IsInjective
<1> HIDE DEF n, s, p
<1>2. /\ a \in Seq(Writes(U)) /\ b \in Seq(Writes(U))
      /\ \E h : Between(h, m, a \o b, i, p, s)
  BY <1>1, BetweenWrites
<1>3. PICK h : Between(h, m, a \o b, i, p, s)
  BY <1>2
<1>4. /\ c \in Seq(Writes(U)) /\ \E g : MakesOne(g, h, Top, i)
  <2>1. DOMAIN h = Cells
    BY <1>3 DEF Makes, Between
  <2>2. <<Top, i>> \in Writes(U)
    BY WritesAre
  <2> QED BY <2>1, <2>2, OneWrite DEF One
<1>5. PICK g : Makes(g, h, c, {Top}) /\ g[Top] = i
  BY <1>4 DEF MakesOne, One
<1> HIDE DEF a, b, c
<1>6. a \o (b \o c) \in Seq(Writes(U)) /\ a \o (b \o c) = (a \o b) \o c
  <2>1. (a \o b) \o c = a \o (b \o c)
    BY ONLY <1>2, <1>4, ConcatAssociative
  <2>2. b \o c \in Seq(Writes(U))
    BY ONLY <1>2, <1>4, ConcatProperties
  <2>3. a \o (b \o c) \in Seq(Writes(U))
    BY ONLY <1>2, <2>2, ConcatProperties
  <2> QED BY ONLY <2>1, <2>3
<1>7. Settles(g, m, a \o (b \o c)) /\ DOMAIN g = Cells
  <2>1. a \o b \in Seq(Writes(U))
    BY <1>2, ConcatProperties
  <2> QED BY <1>3, <1>4, <1>5, <1>6, <2>1, SettlesInTurn DEF Makes, Between
<1>8. /\ g[Live(i)] = TRUE /\ g[NextOf(i)] = s /\ g[PrevOf(i)] = p
      /\ g[PrevOf(s)] = i /\ g[NextOf(p)] = i
      /\ \A k \in Nodes : k # i => g[Live(k)] = m[Live(k)]
      /\ \A k \in Nodes : /\ k # i /\ k # s => g[PrevOf(k)] = m[PrevOf(k)]
                          /\ k # i /\ k # p => g[NextOf(k)] = m[NextOf(k)]
  BY <1>1, <1>3, <1>5, CellsDiffer DEF Makes, Between
<1>9. \A k \in 1..n : /\ k # 1 => g[PrevOf(l[k])] = m[PrevOf(l[k])]
                      /\ k # n => g[NextOf(l[k])] = m[NextOf(l[k])]
  <2>1. 1 \in 1..n /\ n \in 1..n
    BY <1>1
  <2> QED BY <1>1, <1>8, <2>1 DEF s, p
<1>10. Ring(g, <<i>> \o l)
  BY <1>5, <1>8, <1>9, RingBefore DEF n, s, p
<1>11. Leaves(g, m, a \o (b \o c), <<i>> \o l, i, TRUE)
  BY <1>7, <1>8, <1>10 DEF Leaves
<1> QED BY <1>6, <1>11 DEF a, b, c, n, s, p

\* In an empty list there is no node to be put before.
LEMMA OnlyWrites ==
  ASSUME NEW U, NEW m, NEW i, Begins(U, m, <<>>, i), i \in U
  PROVE  LET ws == NewNode(i) \o << <<Top, i>> >> IN
         /\ ws \in Seq(Writes(U))
         /\ \E g : Leaves(g, m, ws, <<i>>, i, TRUE)
<1> DEFINE b == << <<NextOf(i), i>>, <<PrevOf(i), i>> >>
           a == << <<Live(i), TRUE>> >>
           c == << <<Top, i>> >>
<1> USE DEF Begins
<1>1. /\ <<Live(i), TRUE>> \in Writes(U) /\ <<Top, i>> \in Writes(U)
      /\ <<NextOf(i), i>> \in Writes(U) /\ <<PrevOf(i), i>> \in Writes(U)
      /\ NextOf(i) # PrevOf(i)
  BY WritesAre, CellsDiffer
<1>2. a \in Seq(Writes(U)) /\ \E f : MakesOne(f, m, Live(i), TRUE)
  BY <1>1, OneWrite DEF One
<1>3. PICK f : Makes(f, m, a, {Live(i)}) /\ f[Live(i)] = TRUE
  BY <1>2 DEF MakesOne, One
<1>4. /\ b \in Seq(Writes(U))
      /\ \E h : MakesTwo(h, f, NextOf(i), i, PrevOf(i), i)
  <2>1. DOMAIN f = Cells
    BY <1>3 DEF Makes
  <2> QED BY <1>1, <2>1, TwoWrites DEF Two
<1>5. PICK h : /\ Makes(h, f, b, {NextOf(i), PrevOf(i)})
               /\ h[NextOf(i)] = i /\ h[PrevOf(i)] = i
  BY <1>4 DEF MakesTwo, Two
<1>6. c \in Seq(Writes(U)) /\ \E g : MakesOne(g, h, Top, i)
  <2>1. DOMAIN h = Cells
    BY <1>5 DEF Makes
  <2> QED BY <1>1, <2>1, OneWrite DEF One
<1>7. PICK g : Makes(g, h, c, {Top}) /\ g[Top] = i
  BY <1>6 DEF MakesOne, One
<1>8. NewNode(i) = a \o b
  <2> DEFINE p == <<Live(i), TRUE>>
             q == <<NextOf(i), i>>
             r == <<PrevOf(i), i>>
  <2> HIDE DEF p, q, r
  <2>1. <<p, q, r>> = <<p>> \o <<q, r>>
    BY OneAndTwo
  <2> QED BY <2>1 DEF p, q, r, NewNode
<1> HIDE DEF a, b, c
<1>9. /\ a \o b \in Seq(Writes(U)) /\ (a \o b) \o c \in Seq(Writes(U))
      /\ Settles(g, m, (a \o b) \o c) /\ DOMAIN g = Cells
  <2>1. a \o b \in Seq(Writes(U)) /\ Settles(h, m, a \o b)
    BY <1>2, <1>3, <1>4, <1>5, ConcatProperties, SettlesInTurn DEF Makes
  <2> QED BY <1>6, <1>7, <2>1, ConcatProperties, SettlesInTurn DEF Makes
<1>10. /\ g[Live(i)] = TRUE /\ g[NextOf(i)] = i /\ g[PrevOf(i)] = i
       /\ \A k \in Nodes : k # i => g[Live(k)] = m[Live(k)]
  BY <1>3, <1>5, <1>7, CellsDiffer DEF Makes
<1>11. Ring(g, <<i>>)
  <2>1. Len(<<i>>) = 1 /\ <<i>>[1] = i /\ <<i>> # <<>>
    OBVIOUS
  <2>2. \A k \in 1..1 : k = 1 /\ Succ(k, 1) = 1
    BY DEF Succ
  <2> QED BY <1>7, <1>10, <2>1, <2>2 DEF Ring
<1> QED BY <1>8, <1>9, <1>10, <1>11 DEF Leaves, c

LEMMA NeighboursInRing ==
  ASSUME NEW n \in Nat, NEW k \in 1..n
  PROVE  /\ Succ(k, n) \in 1..n /\ Pred(k, n) \in 1..n
         /\ Succ(Pred(k, n), n) = k /\ Pred(Succ(k, n), n) = k
         /\ Succ(1, 1) = 1
         /\ \A j \in 1..n : Succ(j, n) = Succ(k, n) => j = k
  BY DEF Succ, Pred

LEMMA LinkedBetween ==
  ASSUME NEW U, NEW m, NEW l, NEW i, Begins(U, m, l, i), NEW k \in 1..Len(l),
         NEW g, \A y \in Cells : y \notin {Live(i), NextOf(i), PrevOf(i),
                     PrevOf(l[Succ(k, Len(l))]), NextOf(l[k])} => g[y] = m[y],
         g[NextOf(i)] = l[Succ(k, Len(l))], g[PrevOf(i)] = l[k],
         g[PrevOf(l[Succ(k, Len(l))])] = i, g[NextOf(l[k])] = i
  PROVE  LinkedAfter(m, g, l, k, i)
<1> USE DEF Begins
<1> DEFINE n == Len(l)
<1>1. /\ n \in Nat /\ l # <<>>
      /\ \A j \in 1..n : l[j] \in Nodes /\ l[j] # i
      /\ \A h, j \in 1..n : l[h] = l[j] => h = j
  BY LenProperties, EmptySeq, EndsOfList DEF IsInjective
<1>2. \A j \in 1..n : Succ(j, n) \in 1..n /\ (Succ(j, n) = Succ(k, n) => j = k)
  BY <1>1, NeighboursInRing
<1>3. g[Top] = m[Top]
  BY CellsDiffer
<1>4. ASSUME NEW j \in 1..n, j # k
      PROVE  /\ g[NextOf(l[j])] = m[NextOf(l[j])]
             /\ g[PrevOf(l[Succ(j, n)])] = m[PrevOf(l[Succ(j, n)])]
  <2>1. /\ l[j] # l[k] /\ l[j] # i /\ l[j] \in Nodes
        /\ l[Succ(j, n)] # l[Succ(k, n)] /\ l[Succ(j, n)] # i /\ l[Succ(j, n)] \in Nodes
    BY <1>1, <1>2, <1>4
  <2> QED BY <2>1, CellsDiffer
<1> QED BY <1>3, <1>4 DEF LinkedAfter

LEMMA InsideWrites ==
  ASSUME NEW U, NEW m, NEW l, NEW i, Begins(U, m, l, i), NEW k \in 1..Len(l)
  PROVE  LET ws == NewNode(i) \o AfterLinks(i, l[k], l[Succ(k, Len(l))]) IN
         /\ ws \in Seq(Writes(U))
         /\ \E g : Leaves(g, m, ws, InsertAt(l, k + 1, i), i, TRUE)
<1> DEFINE n == Len(l)
           p == l[k]
           s == l[Succ(k, n)]
           ws == NewNode(i) \o AfterLinks(i, p, s)
<1> USE DEF Begins
<1>1. p \in Nodes /\ s \in Nodes /\ i # p /\ i # s
  <2>1. n \in Nat /\ l # <<>>
    BY LenProperties, EmptySeq
  <2>2. Succ(k, n) \in 1..n
    BY <2>1, NeighboursInRing
  <2> QED BY <2>1, <2>2, EndsOfList
<1> HIDE DEF n, s, p
<1>2. /\ NewNode(i) \in Seq(Writes(U)) /\ AfterLinks(i, p, s) \in Seq(Writes(U))
      /\ \E g : Between(g, m, ws, i, p, s)
  BY <1>1, BetweenWrites
<1>3. PICK g : Between(g, m, ws, i, p, s)
  BY <1>2
<1>4. \A y \in Nodes : y # i => g[Live(y)] = m[Live(y)]
  BY <1>1, <1>3, CellsDiffer DEF Makes, Between
<1>5. LinkedAfter(m, g, l, k, i)
  BY <1>3, LinkedBetween DEF Between, Makes, n, s, p
<1>6. Ring(g, InsertAt(l, k + 1, i))
  BY <1>5, RingAfter
<1>7. ws \in Seq(Writes(U))
  BY <1>2, ConcatProperties
<1>8. Leaves(g, m, ws, InsertAt(l, k + 1, i), i, TRUE)
  BY <1>3, <1>4, <1>6 DEF Leaves, Makes, Between
<1> QED BY <1>7, <1>8 DEF n, s, p

\* The node of a descriptor that epoll refuses is linked, and freed.
LEMMA RefusedWrites ==
  ASSUME NEW U, NEW m, NEW l, NEW i, Begins(U, m, l, i), l # <<>>
  PROVE  LET ws == NewNode(i) \o (AfterLinks(i, l[1], l[Succ(1, Len(l))])
                                  \o << <<Live(i), FALSE>> >>) IN
         /\ ws \in Seq(Writes(U))
         /\ \E g : Leaves(g, m, ws, InsertAt(l, 2, i), i, FALSE)
<1> DEFINE n == Len(l)
           p == l[1]
           s == l[Succ(1, n)]
           a == NewNode(i)
           b == AfterLinks(i, p, s)
           c == << <<Live(i), FALSE>> >>
<1> USE DEF Begins
<1>1. 1 \in 1..n /\ p \in Nodes /\ s \in Nodes /\ i # p /\ i # s
  <2>1. n \in Nat \ {0} /\ 1 \in 1..n
    BY EndsOfList
  <2>2. Succ(1, n) \in 1..n
    BY <2>1, NeighboursInRing
  <2> QED BY <2>1, <2>2, EndsOfList
<1> HIDE DEF n, s, p
<1>2. /\ a \in Seq(Writes(U)) /\ b \in Seq(Writes(U))
      /\ \E h : Between(h, m, a \o b, i, p, s)
  BY <1>1, BetweenWrites
<1>3. PICK h : Between(h, m, a \o b, i, p, s)
  BY <1>2
<1>4. c \in Seq(Writes(U)) /\ \E g : MakesOne(g, h, Live(i), FALSE)
  <2>1. DOMAIN h = Cells
    BY <1>3 DEF Makes, Between
  <2>2. <<Live(i), FALSE>> \in Writes(U)
    BY WritesAre
  <2> QED BY <2>1, <2>2, OneWrite DEF One
<1>5. PICK g : Makes(g, h, c, {Live(i)}) /\ g[Live(i)] = FALSE
  BY <1>4 DEF MakesOne, One
<1> HIDE DEF a, b, c
<1>6. a \o (b \o c) \in Seq(Writes(U)) /\ a \o (b \o c) = (a \o b) \o c
  <2>1. (a \o b) \o c = a \o (b \o c)
    BY ONLY <1>2, <1>4, ConcatAssociative
  <2>2. b \o c \in Seq(Writes(U))
    BY ONLY <1>2, <1>4, ConcatProperties
  <2>3. a \o (b \o c) \in Seq(Writes(U))
    BY ONLY <1>2, <2>2, ConcatProperties
  <2> QED BY ONLY <2>1, <2>3
<1>7. Settles(g, m, a \o (b \o c)) /\ DOMAIN g = Cells
  <2>1. a \o b \in Seq(Writes(U))
    BY <1>2, ConcatProperties
  <2> QED BY <1>3, <1>4, <1>5, <1>6, <2>1, SettlesInTurn DEF Makes, Between
<1>8. \A y \in Nodes : y # i => g[Live(y)] = m[Live(y)]
  BY <1>1, <1>3, <1>5, CellsDiffer DEF Makes, Between
<1>9. LinkedAfter(m, g, l, 1, i)
  <2>1. /\ \A y \in Cells : y \notin {Live(i), NextOf(i), PrevOf(i), PrevOf(s), NextOf(p)}
             => g[y] = m[y]
        /\ g[NextOf(i)] = s /\ g[PrevOf(i)] = p /\ g[PrevOf(s)] = i /\ g[NextOf(p)] = i
    BY <1>1, <1>3, <1>5, CellsDiffer DEF Makes, Between
  <2> QED BY <1>1, <2>1, LinkedBetween DEF n, s, p
<1>10. Ring(g, InsertAt(l, 2, i))
  <2>1. Ring(g, InsertAt(l, 1 + 1, i))
    BY <1>1, <1>9, RingAfter DEF n
  <2> QED BY <2>1
<1>11. Leaves(g, m, a \o (b \o c), InsertAt(l, 2, i), i, FALSE)
  BY <1>5, <1>7, <1>8, <1>10 DEF Leaves
<1> QED BY <1>6, <1>11 DEF a, b, c, n, s, p

\* The writes of Unlink() for a node i between p and s.
UnlinkWrites(i, p, s, moves) ==
  (<< <<NextOf(p), s>>, <<PrevOf(s), p>> >>
   \o (IF moves THEN << <<Top, IF s = i THEN Null ELSE s>> >> ELSE <<>>))
  \o << <<Live(i), FALSE>> >>

MakesUnlink(g, m, i, p, s, moves) ==
  /\ Makes(g, m, UnlinkWrites(i, p, s, moves), {NextOf(p), PrevOf(s), Top, Live(i)})
  /\ g[NextOf(p)] = s /\ g[PrevOf(s)] = p /\ g[Live(i)] = FALSE
  /\ g[Top] = IF moves THEN (IF s = i THEN Null ELSE s) ELSE m[Top]

LEMMA UnlinkSettles ==
  ASSUME NEW U \in SUBSET Nodes, NEW m, DOMAIN m = Cells,
         NEW i \in U, NEW p \in U, NEW s \in U, NEW moves \in BOOLEAN
  PROVE  /\ UnlinkWrites(i, p, s, moves) \in Seq(Writes(U))
         /\ \E g : MakesUnlink(g, m, i, p, s, moves)
<1> DEFINE v == IF s = i THEN Null ELSE s
           a == << <<NextOf(p), s>>, <<PrevOf(s), p>> >>
           b == IF moves THEN << <<Top, v>> >> ELSE <<>>
           c == << <<Live(i), FALSE>> >>
<1>1. /\ <<NextOf(p), s>> \in Writes(U) /\ <<PrevOf(s), p>> \in Writes(U)
      /\ <<Top, v>> \in Writes(U) /\ <<Live(i), FALSE>> \in Writes(U)
      /\ NextOf(p) # PrevOf(s)
  BY WritesAre, CellsDiffer
<1>2. a \in Seq(Writes(U)) /\ \E f : MakesTwo(f, m, NextOf(p), s, PrevOf(s), p)
  BY <1>1, TwoWrites DEF Two
<1>3. PICK f : /\ Makes(f, m, a, {NextOf(p), PrevOf(s)})
               /\ f[NextOf(p)] = s /\ f[PrevOf(s)] = p
  BY <1>2 DEF MakesTwo, Two
<1>4. DOMAIN f = Cells
  BY <1>3 DEF Makes
<1>5. /\ b \in Seq(Writes(U))
      /\ \E h : /\ Makes(h, f, b, {Top}) /\ h[Top] = IF moves THEN v ELSE f[Top]
  <2>1. CASE moves
    <3>1. One(Top, v) \in Seq(Writes(U)) /\ \E h : MakesOne(h, f, Top, v)
      BY ONLY <1>1, <1>4, OneWrite
    <3> QED BY <2>1, <3>1 DEF One, MakesOne
  <2>2. CASE ~moves
    <3>1. Makes(f, f, <<>>, {Top}) /\ <<>> \in Seq(Writes(U))
      BY <1>4, SettlesNone DEF Makes
    <3> QED BY <2>2, <3>1
  <2> QED BY <2>1, <2>2
<1>6. PICK h : Makes(h, f, b, {Top}) /\ h[Top] = IF moves THEN v ELSE f[Top]
  BY <1>5
<1>7. DOMAIN h = Cells
  BY <1>6 DEF Makes
<1>8. c \in Seq(Writes(U)) /\ \E g : MakesOne(g, h, Live(i), FALSE)
  BY <1>1, <1>7, OneWrite DEF One
<1>9. PICK g : Makes(g, h, c, {Live(i)}) /\ g[Live(i)] = FALSE
  BY <1>8 DEF MakesOne, One
<1>10. UnlinkWrites(i, p, s, moves) = (a \o b) \o c
  BY DEF UnlinkWrites
<1> HIDE DEF a, b, c, v
<1>11. a \o b \in Seq(Writes(U)) /\ (a \o b) \o c \in Seq(Writes(U))
  BY ONLY <1>2, <1>5, <1>8, ConcatProperties
<1>12. Settles(g, m, (a \o b) \o c)
  <2>1. Settles(h, m, a \o b)
    BY ONLY <1>2, <1>3, <1>5, <1>6, SettlesInTurn DEF Makes
  <2> QED BY ONLY <1>8, <1>9, <1>11, <2>1, SettlesInTurn DEF Makes
<1>13. /\ DOMAIN g = Cells
       /\ \A y \in Cells : y \notin {NextOf(p), PrevOf(s), Top, Live(i)} => g[y] = m[y]
  BY <1>3, <1>6, <1>9 DEF Makes
<1>14. /\ g[NextOf(p)] = s /\ g[PrevOf(s)] = p
       /\ g[Top] = IF moves THEN v ELSE m[Top]
  <2>1. NextOf(p) \in Cells /\ PrevOf(s) \in Cells /\ Top \in Cells
    BY CellsDiffer
  <2>2. /\ Top # NextOf(p) /\ Top # PrevOf(s) /\ Top # Live(i)
        /\ Live(i) # NextOf(p) /\ Live(i) # PrevOf(s)
    BY CellsDiffer
  <2> QED BY <1>3, <1>6, <1>9, <2>1, <2>2 DEF Makes
<1>15. Makes(g, m, (a \o b) \o c, {NextOf(p), PrevOf(s), Top, Live(i)})
  BY <1>12, <1>13 DEF Makes
<1>16. MakesUnlink(g, m, i, p, s, moves)
  BY <1>9, <1>10, <1>14, <1>15 DEF v, MakesUnlink
<1> QED BY <1>10, <1>11, <1>16

LEMMA RemovalWrites ==
  ASSUME NEW U \in SUBSET Nodes, NEW m, DOMAIN m = Cells, NEW l \in Seq(U), IsInjective(l),
         Ring(m, l), NEW k \in 1..Len(l), NEW moves \in BOOLEAN, NEW r \in Seq(Nodes), NEW f,
         Len(r) = Len(l) - 1, Skips(f, k, Len(l)), \A j \in 1..Len(l)-1 : r[j] = l[f[j]],
         IF moves THEN r # <<>> => r[1] = l[Succ(k, Len(l))]
         ELSE k # 1 /\ r # <<>> /\ r[1] = l[1]
  PROVE  LET n == Len(l)
             ws == UnlinkWrites(l[k], l[Pred(k, n)], l[Succ(k, n)], moves)
         IN  /\ ws \in Seq(Writes(U))
             /\ \E g : Leaves(g, m, ws, r, l[k], FALSE)
<1> DEFINE n == Len(l)
           i == l[k]
           p == l[Pred(k, n)]
           s == l[Succ(k, n)]
           ws == UnlinkWrites(i, p, s, moves)
<1>1. /\ n \in Nat \ {0} /\ l \in Seq(Nodes)
      /\ \A j \in 1..n : l[j] \in U
      /\ \A h, j \in 1..n : l[h] = l[j] => h = j
  <2>1. n \in Nat /\ DOMAIN l = 1..n /\ \A j \in 1..n : l[j] \in U
    BY LenProperties, ElementOfSeq
  <2>2. n # 0
    BY <2>1
  <2>3. \A h, j \in 1..n : l[h] = l[j] => h = j
    BY <2>1 DEF IsInjective
  <2>4. l \in Seq(Nodes)
    BY <2>1
  <2> QED BY <2>1, <2>2, <2>3, <2>4
<1>2. /\ k \in 1..n /\ Succ(k, n) \in 1..n /\ Pred(k, n) \in 1..n
      /\ Succ(Pred(k, n), n) = k /\ Succ(1, 1) = 1
      /\ \A j \in 1..n : Succ(j, n) \in 1..n /\ (Succ(j, n) = Succ(k, n) => j = k)
  BY <1>1, NeighboursInRing
<1>3. i \in U /\ p \in U /\ s \in U
  BY <1>1, <1>2
<1>4. Len(r) = n - 1 /\ (r = <<>> <=> n = 1)
  BY <1>1, EmptySeq
<1>5. s = i <=> n = 1
  BY <1>1, <1>2 DEF Succ
<1> HIDE DEF n, i, p, s
<1>6. /\ ws \in Seq(Writes(U))
      /\ \E g : MakesUnlink(g, m, i, p, s, moves)
  BY ONLY U \in SUBSET Nodes, DOMAIN m = Cells, <1>3, moves \in BOOLEAN, UnlinkSettles
<1>7. PICK g : /\ Makes(g, m, ws, {NextOf(p), PrevOf(s), Top, Live(i)})
               /\ g[NextOf(p)] = s /\ g[PrevOf(s)] = p /\ g[Live(i)] = FALSE
               /\ g[Top] = IF moves THEN (IF s = i THEN Null ELSE s) ELSE m[Top]
  BY <1>6 DEF MakesUnlink
<1>8. g[Top] = IF r = <<>> THEN Null ELSE r[1]
  <2>1. m[Top] = l[1] \/ n = 0
    BY <1>1, EmptySeq DEF Ring, n
  <2> QED BY <1>1, <1>4, <1>5, <1>7, <2>1 DEF s, n
<1>9. Unlinked(m, g, l, k)
  <2>1. ASSUME NEW j \in 1..n, j # k, j # Pred(k, n)
        PROVE  /\ g[NextOf(l[j])] = m[NextOf(l[j])]
               /\ g[PrevOf(l[Succ(j, n)])] = m[PrevOf(l[Succ(j, n)])]
    <3>1. /\ l[j] # p /\ l[j] \in Nodes
          /\ l[Succ(j, n)] # s /\ l[Succ(j, n)] \in Nodes
      BY <1>1, <1>2, <2>1 DEF p, s
    <3>2. /\ NextOf(l[j]) \in Cells
          /\ NextOf(l[j]) \notin {NextOf(p), PrevOf(s), Top, Live(i)}
      BY ONLY <3>1, CellsDiffer
    <3>3. /\ PrevOf(l[Succ(j, n)]) \in Cells
          /\ PrevOf(l[Succ(j, n)]) \notin {NextOf(p), PrevOf(s), Top, Live(i)}
      BY ONLY <3>1, CellsDiffer
    <3> QED BY ONLY <1>7, <3>2, <3>3 DEF Makes
  <2> QED BY <1>7, <2>1 DEF Unlinked, n, p, s
<1>10. Ring(g, r)
  BY <1>1, <1>8, <1>9, RingWithout DEF n
<1>11. \A y \in Nodes : y # i => g[Live(y)] = m[Live(y)]
  BY <1>3, <1>7, CellsDiffer DEF Makes
<1>12. Leaves(g, m, ws, r, i, FALSE)
  BY <1>7, <1>10, <1>11 DEF Leaves, Makes
<1> QED BY <1>6, <1>12 DEF n, i, p, s

-----------------------------------------------------------------------------
(* The ring in the middle of an operation.                                 *)

Base ==
  /\ used \subseteq Nodes
  /\ linked \in Seq(used) /\ IsInjective(linked)
  /\ DOMAIN mem = Cells /\ mem[Top] \in used \cup {Null}
  /\ \A n \in Nodes : mem[Live(n)] \in BOOLEAN
  /\ todo \in [Threads -> Seq(Writes(used))]
  /\ Idle("owner") \/ Idle("other")
  /\ DOMAIN walk = {"first", "cur", "frees", "met", "begun"}
  /\ walk.frees \in BOOLEAN /\ (walk.frees => Quiet)
  /\ refused \in BOOLEAN /\ touched \in BOOLEAN

\* Once the writes that are left have been made, the memory holds the ring
\* linked, and, unless one was refused, the nodes of it are the allocated ones.
WillBeRing ==
  \E g : /\ Settles(g, mem, Left) /\ Ring(g, linked)
         /\ ~refused /\ ~walk.frees =>
              \A n \in used : g[Live(n)] <=> n \in ToSet(linked)

RingInv == Base /\ WillBeRing

LEMMA RingNeighbours ==
  ASSUME NEW m, NEW l \in Seq(Nodes), Ring(m, l)
  PROVE  /\ m[Top] = Null <=> l = <<>>
         /\ l # <<>> => /\ m[Top] = l[1] /\ m[PrevOf(l[1])] = l[Len(l)]
         /\ \A k \in 1..Len(l) : /\ m[NextOf(l[k])] = l[Succ(k, Len(l))]
                                 /\ m[PrevOf(l[k])] = l[Pred(k, Len(l))]
<1> DEFINE n == Len(l)
<1>1. n \in Nat /\ (l # <<>> => n # 0 /\ l[1] \in Nodes)
  BY LenProperties, EmptySeq, EndsOfList
<1>2. \A k \in 1..n : /\ m[NextOf(l[k])] = l[Succ(k, n)]
                      /\ m[PrevOf(l[Succ(k, n)])] = l[k]
  BY DEF Ring
<1>3. ASSUME NEW k \in 1..n PROVE m[PrevOf(l[k])] = l[Pred(k, n)]
  <2>1. Pred(k, n) \in 1..n /\ Succ(Pred(k, n), n) = k
    BY <1>1, NeighboursInRing
  <2> QED BY <1>2, <2>1
<1>4. l # <<>> => m[PrevOf(l[1])] = l[n]
  <2>1. n # 0 => 1 \in 1..n /\ Pred(1, n) = n
    BY <1>1 DEF Pred
  <2> QED BY <1>1, <1>3, <2>1
<1> QED BY <1>1, <1>2, <1>3, <1>4, NullAssumption DEF Ring

LEMMA QuietRing ==
  ASSUME RingInv, Quiet
  PROVE  /\ Ring(mem, linked) /\ linked \in Seq(Nodes)
         /\ ~refused /\ ~walk.frees => \A n \in used : mem[Live(n)] <=> n \in ToSet(linked)
<1>1. Left = <<>>
  BY DEF Quiet, Left, Idle, Threads
<1>2. PICK g : /\ Settles(g, mem, <<>>) /\ Ring(g, linked)
               /\ ~refused /\ ~walk.frees => \A n \in used : g[Live(n)] <=> n \in ToSet(linked)
  BY <1>1 DEF RingInv, WillBeRing
<1>3. \A c \in Cells : mem[c] = g[c]
  BY <1>2 DEF Settles
<1>4. linked \in Seq(Nodes) /\ used \subseteq Nodes /\ Len(linked) \in Nat
  BY DEF RingInv, Base
<1>5. \A k \in 1..Len(linked) : linked[k] \in Nodes /\ Succ(k, Len(linked)) \in 1..Len(linked)
  BY <1>4, ElementOfSeq, NeighboursInRing
<1>6. /\ mem[Top] = g[Top] /\ \A n \in Nodes : /\ mem[NextOf(n)] = g[NextOf(n)]
                                               /\ mem[PrevOf(n)] = g[PrevOf(n)]
                                               /\ mem[Live(n)] = g[Live(n)]
  BY <1>3, CellsDiffer
<1>7. Ring(mem, linked)
  BY <1>2, <1>5, <1>6 DEF Ring
<1> QED BY <1>2, <1>4, <1>6, <1>7

\* An operation that has begun leaves a ring.
LEMMA BeginKeepsRing ==
  \A t, ws, list, i, live :
    /\ RingInv /\ ~overlapped' /\ t \in Threads /\ Begin(t, ws, list)
    /\ used \subseteq used' /\ used' \subseteq Nodes
    /\ ws \in Seq(Writes(used')) /\ list \in Seq(used') /\ IsInjective(list)
    /\ refused' \in BOOLEAN
    /\ \E g : Leaves(g, mem, ws, list, i, live)
    /\ ~refused' => /\ ~refused /\ i \in used'
                    /\ live <=> i \in ToSet(list)
                    /\ \A n \in used' \ {i} : n \in used /\ (n \in ToSet(list) <=> n \in ToSet(linked))
    => RingInv'
<1> SUFFICES ASSUME NEW t \in Threads, NEW ws, NEW list, NEW i, NEW live,
                    RingInv, ~overlapped', Begin(t, ws, list), used \subseteq used', used' \subseteq Nodes,
                    ws \in Seq(Writes(used')), list \in Seq(used'), IsInjective(list),
                    refused' \in BOOLEAN,
                    \E g : Leaves(g, mem, ws, list, i, live),
                    ~refused' => /\ ~refused /\ i \in used'
                                 /\ live <=> i \in ToSet(list)
                                 /\ \A n \in used' \ {i} :
                                      n \in used /\ (n \in ToSet(list) <=> n \in ToSet(linked))
             PROVE  RingInv'
  OBVIOUS
<1>1. /\ linked' = list /\ mem' = mem /\ touched' = touched /\ Quiet /\ ~walk.frees
      /\ todo' = [todo EXCEPT ![t] = ws]
      /\ walk' = IF t = "owner" THEN NoWalk ELSE walk
  BY DEF Begin
<1>2. todo \in [Threads -> Seq(Writes(used))] /\ \A s \in Threads : todo[s] = <<>>
  BY <1>1 DEF RingInv, Base, Quiet, Idle
<1>3. todo'[t] = ws /\ \A s \in Threads \ {t} : todo'[s] = <<>>
  BY <1>1, <1>2
<1>4. todo' \in [Threads -> Seq(Writes(used'))]
  BY <1>1, <1>2
<1>5. (Idle("owner") \/ Idle("other"))'
  BY <1>3 DEF Idle, Threads
<1>6. Left' = ws
  BY <1>3 DEF Left, Idle, Threads
<1>7. walk'.frees = FALSE /\ DOMAIN walk' = {"first", "cur", "frees", "met", "begun"}
  BY <1>1 DEF NoWalk, RingInv, Base
<1>8. Base'
  <2>1. mem'[Top] \in used' \cup {Null} /\ DOMAIN mem' = Cells
    BY <1>1 DEF RingInv, Base
  <2>2. \A n \in Nodes : mem'[Live(n)] \in BOOLEAN
    BY <1>1 DEF RingInv, Base
  <2>3. linked' \in Seq(used') /\ IsInjective(linked')
    BY <1>1
  <2>4. walk'.frees \in BOOLEAN /\ (walk'.frees => Quiet')
    BY <1>7
  <2>5. touched' \in BOOLEAN
    BY <1>1 DEF RingInv, Base
  <2> QED BY <1>4, <1>5, <1>7, <2>1, <2>2, <2>3, <2>4, <2>5 DEF Base
<1>9. PICK g : Leaves(g, mem, ws, list, i, live)
  OBVIOUS
<1>10. ~refused' => \A n \in used' : g[Live(n)] <=> n \in ToSet(list)
  <2> SUFFICES ASSUME ~refused', NEW n \in used' PROVE g[Live(n)] <=> n \in ToSet(list)
    OBVIOUS
  <2>1. CASE n = i
    BY <1>9, <2>1 DEF Leaves
  <2>2. CASE n # i
    <3>1. g[Live(n)] = mem[Live(n)] /\ n \in used /\ (n \in ToSet(list) <=> n \in ToSet(linked))
      BY <1>9, <2>2 DEF Leaves
    <3>2. mem[Live(n)] <=> n \in ToSet(linked)
      BY <1>1, <3>1, QuietRing
    <3> QED BY <3>1, <3>2
  <2> QED BY <2>1, <2>2
<1>11. Settles(g, mem, ws) /\ Ring(g, list)
  BY <1>9 DEF Leaves
<1>12. WillBeRing'
  BY <1>1, <1>6, <1>7, <1>10, <1>11 DEF WillBeRing
<1> QED BY <1>8, <1>12 DEF RingInv

\* What an operation with a new node i has to leave.
Joins(i, ws, list) ==
  /\ ws \in Seq(Writes(used')) /\ \E g : Leaves(g, mem, ws, list, i, TRUE)
  /\ list \in Seq(used') /\ IsInjective(list)
  /\ ToSet(list) = ToSet(linked) \cup {i}

LEMMA InsertKeepsRing ==
  \A t, i, ws, list :
    RingInv /\ ~overlapped' /\ t \in Threads /\ Insert(t, i, ws, list) /\ Joins(i, NewNode(i) \o ws, list)
      /\ refused' = refused
    => RingInv'
<1> SUFFICES ASSUME NEW t \in Threads, NEW i, NEW ws, NEW list,
                    RingInv, ~overlapped', Insert(t, i, ws, list), Joins(i, NewNode(i) \o ws, list),
                    refused' = refused
             PROVE  RingInv'
  OBVIOUS
<1> DEFINE all == NewNode(i) \o ws
<1>1. /\ i \in Nodes \ used /\ used' = used \cup {i} /\ Begin(t, all, list)
  BY DEF Insert
<1>2. used \subseteq Nodes /\ refused' \in BOOLEAN
  BY DEF RingInv, Base
<1>3. /\ all \in Seq(Writes(used')) /\ \E g : Leaves(g, mem, all, list, i, TRUE)
      /\ list \in Seq(used') /\ IsInjective(list) /\ ToSet(list) = ToSet(linked) \cup {i}
  BY DEF Joins
<1> HIDE DEF all
<1>4. used \subseteq used' /\ used' \subseteq Nodes
  BY <1>1, <1>2
<1>5. ~refused' => /\ ~refused /\ i \in used'
                   /\ TRUE <=> i \in ToSet(list)
                   /\ \A n \in used' \ {i} : n \in used /\ (n \in ToSet(list) <=> n \in ToSet(linked))
  BY <1>1, <1>3
<1> QED BY <1>1, <1>2, <1>3, <1>4, <1>5, BeginKeepsRing

\* The links of the list as an operation with a new node begins.
LEMMA InsertBegins ==
  \A t, i, ws, list :
    RingInv /\ ~overlapped' /\ Insert(t, i, ws, list)
    => /\ Begins(used', mem, linked, i) /\ i \in used' /\ linked \in Seq(used')
       /\ mem[Top] = Null <=> linked = <<>>
       /\ linked # <<>> => mem[Top] = linked[1] /\ mem[PrevOf(linked[1])] = linked[Len(linked)]
       /\ \A k \in 1..Len(linked) : mem[NextOf(linked[k])] = linked[Succ(k, Len(linked))]
<1> SUFFICES ASSUME NEW t, NEW i, NEW ws, NEW list, RingInv, ~overlapped', Insert(t, i, ws, list)
             PROVE  /\ Begins(used', mem, linked, i) /\ i \in used' /\ linked \in Seq(used')
                    /\ mem[Top] = Null <=> linked = <<>>
                    /\ linked # <<>> => /\ mem[Top] = linked[1]
                                        /\ mem[PrevOf(linked[1])] = linked[Len(linked)]
                    /\ \A k \in 1..Len(linked) :
                         mem[NextOf(linked[k])] = linked[Succ(k, Len(linked))]
  OBVIOUS
<1>1. i \in Nodes \ used /\ used' = used \cup {i} /\ Quiet
  BY DEF Insert, Begin
<1>2. /\ Ring(mem, linked) /\ linked \in Seq(Nodes) /\ linked \in Seq(used)
      /\ IsInjective(linked) /\ DOMAIN mem = Cells /\ used \subseteq Nodes
  BY <1>1, QuietRing DEF RingInv, Base
<1>3. i \notin ToSet(linked)
  <2>1. \A k \in DOMAIN linked : linked[k] \in used
    BY <1>2, LenProperties
  <2> QED BY <1>1, <2>1 DEF ToSet
<1>4. used' \in SUBSET Nodes /\ linked \in Seq(used')
  BY <1>1, <1>2
<1>5. Begins(used', mem, linked, i)
  BY <1>1, <1>2, <1>3, <1>4 DEF Begins
<1>6. PICK m : m = mem
  OBVIOUS
<1>7. PICK l : l = linked
  OBVIOUS
<1>8. /\ m[Top] = Null <=> l = <<>>
      /\ l # <<>> => m[Top] = l[1] /\ m[PrevOf(l[1])] = l[Len(l)]
      /\ \A k \in 1..Len(l) : m[NextOf(l[k])] = l[Succ(k, Len(l))]
  <2>1. l \in Seq(Nodes) /\ Ring(m, l)
    BY <1>2, <1>6, <1>7
  <2> QED BY <2>1, RingNeighbours
<1> QED BY <1>1, <1>4, <1>5, <1>6, <1>7, <1>8

LEMMA LastKeepsRing == ASSUME RingInv, ~overlapped', NEW i \in Nodes, AddLast(i) PROVE RingInv'
<1>1. PICK U, m, l : U = used' /\ m = mem /\ l = linked
  OBVIOUS
<1> DEFINE b == BeforeLinks(i, l[Len(l)], l[1])
<1>2. /\ m[Top] # Null /\ refused' = refused
      /\ Insert("owner", i, AddBefore(m[Top], i), Append(l, i))
  BY <1>1 DEF AddLast
<1>3. /\ Begins(U, m, l, i) /\ i \in U /\ l \in Seq(U)
      /\ l # <<>> /\ m[Top] = l[1] /\ m[PrevOf(l[1])] = l[Len(l)]
  BY <1>1, <1>2, InsertBegins
<1>4. AddBefore(m[Top], i) = b
  BY <1>1, <1>3 DEF AddBefore, BeforeLinks
<1>5. NewNode(i) \o b \in Seq(Writes(U)) /\ \E g : Leaves(g, m, NewNode(i) \o b, Append(l, i), i, TRUE)
  BY <1>3, LastWrites
<1> HIDE DEF b
<1>6. IsInjective(l) /\ i \notin ToSet(l)
  BY <1>3 DEF Begins
<1>7. /\ Append(l, i) \in Seq(U) /\ IsInjective(Append(l, i))
      /\ ToSet(Append(l, i)) = ToSet(l) \cup {i}
  BY <1>3, <1>6, AppendElements
<1>8. Joins(i, NewNode(i) \o b, Append(l, i))
  BY <1>1, <1>5, <1>7 DEF Joins
<1> QED BY <1>2, <1>4, <1>8, InsertKeepsRing DEF Threads

LEMMA FirstKeepsRing ==
  ASSUME RingInv, ~overlapped', NEW i \in Nodes, NEW t \in Threads, AddFirst(t, i) PROVE RingInv'
<1>1. PICK U, m, l : U = used' /\ m = mem /\ l = linked
  OBVIOUS
<1> DEFINE c == << <<Top, i>> >>
           b == IF m[Top] = Null THEN <<>> ELSE AddBefore(m[Top], i)
<1>2. refused' = refused /\ Insert(t, i, b \o c, <<i>> \o l)
  BY <1>1 DEF AddFirst
<1>3. /\ Begins(U, m, l, i) /\ i \in U /\ l \in Seq(U)
      /\ m[Top] = Null <=> l = <<>>
      /\ l # <<>> => m[Top] = l[1] /\ m[PrevOf(l[1])] = l[Len(l)]
  BY <1>1, <1>2, InsertBegins
<1>4. /\ NewNode(i) \o (b \o c) \in Seq(Writes(U))
      /\ \E g : Leaves(g, m, NewNode(i) \o (b \o c), <<i>> \o l, i, TRUE)
  <2>1. CASE l = <<>>
    <3>1. b \o c = c /\ <<i>> \o l = <<i>>
      <4>1. b = <<>> /\ c \in Seq({<<Top, i>>}) /\ <<i>> \in Seq({i})
        BY <1>3, <2>1
      <4> HIDE DEF b, c
      <4> QED BY <2>1, <4>1, ConcatEmptySeq
    <3>2. NewNode(i) \o c \in Seq(Writes(U)) /\ \E g : Leaves(g, m, NewNode(i) \o c, <<i>>, i, TRUE)
      BY <1>3, <2>1, OnlyWrites
    <3> QED BY <3>1, <3>2
  <2>2. CASE l # <<>>
    <3>1. b = BeforeLinks(i, l[Len(l)], l[1])
      BY <1>1, <1>3, <2>2 DEF AddBefore, BeforeLinks
    <3> QED BY <1>3, <2>2, <3>1, FirstWrites
  <2> QED BY <2>1, <2>2
<1> HIDE DEF b, c
<1>5. IsInjective(l) /\ i \notin ToSet(l)
  BY <1>3 DEF Begins
<1>6. /\ <<i>> \o l \in Seq(U) /\ IsInjective(<<i>> \o l)
      /\ ToSet(<<i>> \o l) = ToSet(l) \cup {i}
  BY <1>3, <1>5, PushElements
<1>7. Joins(i, NewNode(i) \o (b \o c), <<i>> \o l)
  BY <1>1, <1>4, <1>6 DEF Joins
<1> QED BY <1>2, <1>7, InsertKeepsRing

LEMMA InsideKeepsRing == ASSUME RingInv, ~overlapped', NEW i \in Nodes, AddInside(i) PROVE RingInv'
<1>1. PICK U, m, l : U = used' /\ m = mem /\ l = linked
  OBVIOUS
<1>2. PICK k \in DOMAIN l :
        refused' = refused /\ Insert("owner", i, AddAfter(l[k], i), InsertAt(l, k + 1, i))
  BY <1>1 DEF AddInside
<1> DEFINE b == AfterLinks(i, l[k], l[Succ(k, Len(l))])
           list == InsertAt(l, k + 1, i)
<1>3. /\ Begins(U, m, l, i) /\ i \in U /\ l \in Seq(U)
      /\ \A j \in 1..Len(l) : m[NextOf(l[j])] = l[Succ(j, Len(l))]
  BY <1>1, <1>2, InsertBegins
<1>4. k \in 1..Len(l) /\ Len(l) \in Nat
  BY <1>3, LenProperties
<1>5. AddAfter(l[k], i) = b
  BY <1>1, <1>3, <1>4 DEF AddAfter, AfterLinks
<1>6. /\ NewNode(i) \o b \in Seq(Writes(U))
      /\ \E g : Leaves(g, m, NewNode(i) \o b, list, i, TRUE)
  BY <1>3, <1>4, InsideWrites
<1>7. IsInjective(l) /\ i \notin ToSet(l)
  BY <1>3 DEF Begins
<1>8. list \in Seq(U) /\ IsInjective(list) /\ ToSet(list) = ToSet(l) \cup {i}
  <2>1. PICK p : p = k + 1 /\ p \in 1..Len(l)+1
    BY <1>4
  <2>2. /\ InsertAt(l, p, i) \in Seq(U) /\ IsInjective(InsertAt(l, p, i))
        /\ ToSet(InsertAt(l, p, i)) = ToSet(l) \cup {i}
    BY <1>3, <1>7, <2>1, InsertAtProperties, InsertAtElements
  <2> QED BY <2>1, <2>2
<1>9. Insert("owner", i, b, list)
  BY <1>2, <1>5
<1> HIDE DEF b, list
<1>10. Joins(i, NewNode(i) \o b, list)
  BY <1>1, <1>6, <1>8 DEF Joins
<1> QED BY <1>2, <1>9, <1>10, InsertKeepsRing DEF Threads

LEMMA RefusedKeepsRing == ASSUME RingInv, ~overlapped', NEW i \in Nodes, AddRefused(i) PROVE RingInv'
<1>1. PICK U, m, l : U = used' /\ m = mem /\ l = linked
  OBVIOUS
<1> DEFINE c == << <<Live(i), FALSE>> >>
           b == AfterLinks(i, l[1], l[Succ(1, Len(l))])
           list == InsertAt(l, 2, i)
<1>2. /\ m[Top] # Null /\ refused' = TRUE
      /\ Insert("owner", i, AddAfter(m[Top], i) \o c, list)
  BY <1>1 DEF AddRefused
<1>3. /\ Begins(U, m, l, i) /\ i \in U /\ l \in Seq(U)
      /\ l # <<>> /\ m[Top] = l[1]
      /\ \A j \in 1..Len(l) : m[NextOf(l[j])] = l[Succ(j, Len(l))]
  BY <1>1, <1>2, InsertBegins
<1>4. 1 \in 1..Len(l) /\ 2 \in 1..Len(l)+1
  BY <1>2, <1>3, EmptySeq, LenProperties
<1>5. AddAfter(m[Top], i) = b
  BY <1>1, <1>3, <1>4 DEF AddAfter, AfterLinks
<1>6. /\ NewNode(i) \o (b \o c) \in Seq(Writes(U))
      /\ \E g : Leaves(g, m, NewNode(i) \o (b \o c), list, i, FALSE)
  BY <1>2, <1>3, RefusedWrites
<1>7. list \in Seq(U) /\ IsInjective(list)
  <2>1. IsInjective(l) /\ i \notin ToSet(l)
    BY <1>3 DEF Begins
  <2> QED BY <1>3, <1>4, <2>1, InsertAtProperties, InsertAtElements
<1>8. /\ Begin("owner", NewNode(i) \o (b \o c), list)
      /\ U = used \cup {i} /\ i \in Nodes
  BY <1>1, <1>2, <1>5 DEF Insert
<1> HIDE DEF b, c, list
<1>9. used \subseteq used' /\ used' \subseteq Nodes
  BY <1>1, <1>8 DEF RingInv, Base
<1> QED BY <1>1, <1>2, <1>6, <1>7, <1>8, <1>9, BeginKeepsRing DEF Threads

\* What a removal of the k-th node has to leave.
Parts(l, k, moves, r) ==
  /\ UnlinkWrites(l[k], l[Pred(k, Len(l))], l[Succ(k, Len(l))], moves) \in Seq(Writes(used))
  /\ \E g : Leaves(g, mem, UnlinkWrites(l[k], l[Pred(k, Len(l))], l[Succ(k, Len(l))], moves),
                   r, l[k], FALSE)
  /\ r \in Seq(used) /\ IsInjective(r) /\ ToSet(r) = ToSet(l) \ {l[k]}

LEMMA RemovalKeepsRing ==
  \A k, moves, r :
    /\ RingInv /\ ~overlapped' /\ k \in 1..Len(linked) /\ used' = used /\ refused' = refused
    /\ Begin("owner", Unlink(linked[k], moves), r) /\ Parts(linked, k, moves, r)
    => RingInv'
<1> SUFFICES ASSUME NEW k, NEW moves, NEW r, RingInv, ~overlapped', k \in 1..Len(linked), used' = used,
                    refused' = refused, Begin("owner", Unlink(linked[k], moves), r),
                    Parts(linked, k, moves, r)
             PROVE  RingInv'
  OBVIOUS
<1>1. PICK m, l : m = mem /\ l = linked
  OBVIOUS
<1> DEFINE ws == UnlinkWrites(l[k], l[Pred(k, Len(l))], l[Succ(k, Len(l))], moves)
<1>2. /\ m[NextOf(l[k])] = l[Succ(k, Len(l))] /\ m[PrevOf(l[k])] = l[Pred(k, Len(l))]
      /\ l[k] \in Nodes /\ l[k] \in used
  <2>1. l \in Seq(Nodes) /\ l \in Seq(used) /\ Ring(m, l)
    BY <1>1, QuietRing DEF RingInv, Base, Begin
  <2> QED BY <1>1, <2>1, RingNeighbours, ElementOfSeq
<1>3. Unlink(l[k], moves) = ws
  BY <1>1, <1>2 DEF Unlink, UnlinkWrites
<1>4. /\ ws \in Seq(Writes(used)) /\ \E g : Leaves(g, m, ws, r, l[k], FALSE)
      /\ r \in Seq(used) /\ IsInjective(r) /\ ToSet(r) = ToSet(l) \ {l[k]}
  BY <1>1 DEF Parts
<1>5. Begin("owner", ws, r)
  BY <1>1, <1>3
<1> HIDE DEF ws
<1>6. used \subseteq Nodes /\ refused \in BOOLEAN
  BY DEF RingInv, Base
<1>7. ~refused' => /\ ~refused /\ l[k] \in used'
                   /\ FALSE <=> l[k] \in ToSet(r)
                   /\ \A n \in used' \ {l[k]} : n \in used /\ (n \in ToSet(r) <=> n \in ToSet(linked))
  BY <1>1, <1>2, <1>4
<1>8. /\ used \subseteq used' /\ used' \subseteq Nodes /\ refused' \in BOOLEAN
      /\ ws \in Seq(Writes(used')) /\ r \in Seq(used')
      /\ \E g : Leaves(g, mem, ws, r, l[k], FALSE)
  BY <1>1, <1>4, <1>6
<1> QED BY <1>4, <1>5, <1>7, <1>8, BeginKeepsRing DEF Threads

LEMMA FdRemovalKeepsRing == ASSUME RingInv, ~overlapped', RemoveFd PROVE RingInv'
<1>1. PICK U, m, l : U = used /\ m = mem /\ l = linked
  OBVIOUS
<1>2. PICK k \in DOMAIN l :
        Begin("owner", Unlink(l[k], TRUE), Rotated(l, k)) /\ used' = used /\ refused' = refused
  BY <1>1 DEF RemoveFd, Rotated
<1>3. /\ U \in SUBSET Nodes /\ DOMAIN m = Cells /\ l \in Seq(U) /\ IsInjective(l)
      /\ Ring(m, l)
  BY <1>1, <1>2, QuietRing DEF RingInv, Base, Begin
<1>4. k \in 1..Len(l) /\ Len(l) \in Nat
  BY <1>3, LenProperties
<1> DEFINE n == Len(l)
           f == [j \in 1..n-1 |-> IF j <= n-k THEN k + j ELSE j - (n-k)]
           r == Rotated(l, k)
<1>5. /\ r \in Seq(U) /\ Len(r) = n - 1 /\ \A j \in 1..n-1 : r[j] = l[f[j]]
      /\ IsInjective(r) /\ ToSet(r) = ToSet(l) \ {l[k]}
  <2>1. l \in Seq(U) /\ IsInjective(l) /\ k \in 1..Len(l)
    BY ONLY <1>3, <1>4
  <2>2. IsRotated(U, l, k)
    BY ONLY <2>1, RotatedElements
  <2>3. /\ r \in Seq(U) /\ Len(r) = n - 1
        /\ \A j \in 1..n-1 : r[j] = l[IF j <= n-k THEN k + j ELSE j - (n-k)]
        /\ IsInjective(r) /\ ToSet(r) = ToSet(l) \ {l[k]}
    BY ONLY <2>1, <2>2 DEF IsRotated
  <2> QED BY <2>3
<1>6. Skips(f, k, n)
  BY <1>4, SkipsRotated
<1>7. r # <<>> => r[1] = l[Succ(k, n)]
  <2>1. r # <<>> => 1 \in 1..n-1
    BY <1>4, <1>5, EmptySeq
  <2> QED BY <1>4, <1>5, <2>1 DEF Succ
<1>8. r \in Seq(Nodes)
  BY <1>3, <1>5
<1> HIDE DEF f, r
<1>9. Parts(l, k, TRUE, r)
  <2>1. /\ UnlinkWrites(l[k], l[Pred(k, n)], l[Succ(k, n)], TRUE) \in Seq(Writes(U))
        /\ \E g : Leaves(g, m, UnlinkWrites(l[k], l[Pred(k, n)], l[Succ(k, n)], TRUE), r, l[k], FALSE)
    BY ONLY <1>3, <1>4, <1>5, <1>6, <1>7, <1>8, RemovalWrites
  <2> QED BY ONLY <1>1, <1>5, <2>1 DEF Parts
<1> QED BY <1>1, <1>2, <1>4, <1>9, RemovalKeepsRing DEF r

LEMMA TimerRemovalKeepsRing == ASSUME RingInv, ~overlapped', RemoveTimer PROVE RingInv'
<1>1. PICK U, m, l : U = used /\ m = mem /\ l = linked
  OBVIOUS
<1>2. PICK k \in DOMAIN l :
        /\ Begin("owner", Unlink(l[k], m[Top] = l[k]), RemoveAt(l, k))
        /\ used' = used /\ refused' = refused
  BY <1>1 DEF RemoveTimer
<1>3. /\ U \in SUBSET Nodes /\ DOMAIN m = Cells /\ l \in Seq(U) /\ IsInjective(l)
      /\ Ring(m, l)
  BY <1>1, <1>2, QuietRing DEF RingInv, Base, Begin
<1>4. k \in 1..Len(l) /\ Len(l) \in Nat
  BY <1>3, LenProperties
<1> DEFINE n == Len(l)
           f == [j \in 1..n-1 |-> IF j < k THEN j ELSE j + 1]
           r == RemoveAt(l, k)
<1>5. PICK moves \in BOOLEAN : moves = (m[Top] = l[k])
  OBVIOUS
<1>6. /\ r \in Seq(U) /\ Len(r) = n - 1 /\ \A j \in 1..n-1 : r[j] = l[f[j]]
      /\ IsInjective(r) /\ ToSet(r) = ToSet(l) \ {l[k]}
  BY <1>3, <1>4, RemoveAtProperties, RemoveAtElements
<1>7. Skips(f, k, n)
  BY <1>4, SkipsInPlace
<1>8. IF moves THEN r # <<>> => r[1] = l[Succ(k, n)]
      ELSE k # 1 /\ r # <<>> /\ r[1] = l[1]
  <2>1. m[Top] = l[1] /\ l # <<>>
    BY <1>3, <1>4, EmptySeq DEF Ring
  <2>2. moves <=> k = 1
    <3>1. DOMAIN l = 1..n /\ 1 \in 1..n
      BY <1>3, <1>4, LenProperties
    <3> QED BY <1>3, <1>4, <1>5, <2>1, <3>1 DEF IsInjective
  <2>3. r # <<>> <=> 1 \in 1..n-1
    BY <1>4, <1>6, EmptySeq
  <2> QED BY <1>4, <1>6, <2>2, <2>3 DEF Succ
<1>9. r \in Seq(Nodes)
  BY <1>3, <1>6
<1> HIDE DEF f, r
<1>10. Parts(l, k, moves, r)
  <2>1. moves \in BOOLEAN
    OBVIOUS
  <2>2. /\ UnlinkWrites(l[k], l[Pred(k, n)], l[Succ(k, n)], moves) \in Seq(Writes(U))
        /\ \E g : Leaves(g, m, UnlinkWrites(l[k], l[Pred(k, n)], l[Succ(k, n)], moves), r, l[k], FALSE)
    BY ONLY <1>3, <1>4, <1>6, <1>7, <1>8, <1>9, <2>1, RemovalWrites
  <2> QED BY ONLY <1>1, <1>6, <2>2 DEF Parts
<1> QED BY <1>1, <1>2, <1>4, <1>5, <1>10, RemovalKeepsRing DEF r

LEMMA WriteKeepsRing == ASSUME RingInv, NEW t \in Threads, Write(t) PROVE RingInv'
<1>1. PICK U, m, ws : U = used /\ m = mem /\ ws = todo[t]
  OBVIOUS
<1> DEFINE w == Head(ws)
<1>2. /\ ws # <<>> /\ mem' = [m EXCEPT ![w[1]] = w[2]]
      /\ todo' = [todo EXCEPT ![t] = Tail(ws)]
      /\ touched' = (touched \/ (w[1][2] # "live" /\ Freed(w[1][1])))
      /\ walk' = walk /\ linked' = linked /\ used' = used /\ refused' = refused
  BY <1>1 DEF Write, Idle
<1>3. /\ U \subseteq Nodes /\ DOMAIN m = Cells /\ m[Top] \in U \cup {Null}
      /\ \A n \in Nodes : m[Live(n)] \in BOOLEAN
      /\ todo \in [Threads -> Seq(Writes(U))] /\ (Idle("owner") \/ Idle("other"))
  BY <1>1 DEF RingInv, Base
<1>4. /\ ws \in Seq(Writes(U)) /\ w \in Writes(U) /\ Tail(ws) \in Seq(Writes(U))
  BY <1>1, <1>2, <1>3, EmptySeq, HeadTailProperties
<1>5. todo[t] # <<>> /\ \A s \in Threads \ {t} : todo[s] = <<>>
  BY <1>1, <1>2, <1>3 DEF Idle, Threads
<1>6. /\ todo' \in [Threads -> Seq(Writes(U))]
      /\ todo'[t] = Tail(ws) /\ \A s \in Threads \ {t} : todo'[s] = <<>>
  BY <1>2, <1>3, <1>4, <1>5
<1>7. Left = ws /\ Left' = Tail(ws)
  BY <1>1, <1>5, <1>6 DEF Left, Idle, Threads
<1>8. (Idle("owner") \/ Idle("other"))'
  BY <1>6 DEF Idle, Threads
<1>9. ~walk.frees
  BY <1>5 DEF RingInv, Base, Quiet, Idle
<1> HIDE DEF w
<1>10. DOMAIN mem' = Cells /\ mem'[Top] \in U \cup {Null} /\ \A n \in Nodes : mem'[Live(n)] \in BOOLEAN
  <2>1. /\ w[1] \in Cells /\ (w[1][2] = "live" => w[2] \in BOOLEAN)
        /\ (w[1] = Top => w[2] \in U \cup {Null})
    BY <1>4 DEF Writes
  <2> QED BY <1>2, <1>3, <2>1, CellsDiffer
<1>11. touched' \in BOOLEAN
  BY <1>2, <1>9 DEF RingInv, Base
<1>12. Base'
  <2>1. used' \subseteq Nodes /\ linked' \in Seq(used') /\ IsInjective(linked')
    BY <1>2 DEF RingInv, Base
  <2>2. /\ DOMAIN walk' = {"first", "cur", "frees", "met", "begun"}
        /\ walk'.frees \in BOOLEAN /\ (walk'.frees => Quiet')
        /\ refused' \in BOOLEAN
    BY <1>2, <1>9 DEF RingInv, Base
  <2>3. mem'[Top] \in used' \cup {Null} /\ todo' \in [Threads -> Seq(Writes(used'))]
    BY <1>1, <1>2, <1>6, <1>10
  <2> QED BY <1>8, <1>10, <1>11, <2>1, <2>2, <2>3 DEF Base
<1>13. PICK g : /\ Settles(g, m, ws) /\ Ring(g, linked)
                /\ ~refused => \A n \in used : g[Live(n)] <=> n \in ToSet(linked)
  BY <1>1, <1>7, <1>9 DEF RingInv, WillBeRing
<1>14. Settles(g, mem', Tail(ws))
  BY <1>2, <1>3, <1>4, <1>13, WriteSettles DEF w
<1>15. WillBeRing'
  BY <1>2, <1>7, <1>13, <1>14 DEF WillBeRing
<1> QED BY <1>12, <1>15 DEF RingInv

LEMMA BeginWalkKeepsRing == ASSUME RingInv, NEW frees \in BOOLEAN, BeginWalk(frees) PROVE RingInv'
<1>1. /\ UNCHANGED <<mem, todo, linked, used, refused, touched>>
      /\ walk' = [first |-> mem[Top], cur |-> mem[Top], frees |-> frees,
                  met |-> <<>>, begun |-> ToSet(linked) \ Arriving]
      /\ ~walk.frees /\ (frees => Quiet)
  BY DEF BeginWalk, Quiet, Threads
<1>2. DOMAIN walk' = {"first", "cur", "frees", "met", "begun"} /\ walk'.frees = frees
  BY <1>1
<1>3. Left' = Left
  BY <1>1 DEF Left, Idle
<1>4. Base'
  BY <1>1, <1>2 DEF RingInv, Base, Idle, Quiet
<1>5. WillBeRing'
  BY <1>1, <1>3 DEF RingInv, WillBeRing
<1> QED BY <1>4, <1>5 DEF RingInv

\* A walk changes no link.
LEMMA StepKeepsRing == ASSUME RingInv, Step PROVE RingInv'
<1>1. PICK m, n : m = mem /\ n = walk.cur
  OBVIOUS
<1>2. /\ UNCHANGED <<todo, linked, used, refused>>
      /\ mem' = IF walk.frees THEN [m EXCEPT ![Live(n)] = FALSE] ELSE m
      /\ touched' = (touched \/ Freed(n))
      /\ \E next : walk' = [walk EXCEPT !.met = Append(@, n),
                                        !.cur = IF next = walk.first THEN Null ELSE next]
  <2>1. UNCHANGED <<todo, linked, used, refused>>
    BY DEF Step
  <2>2. mem' = IF walk.frees THEN [m EXCEPT ![Live(n)] = FALSE] ELSE m
    BY <1>1, Zenon DEF Step
  <2>3. touched' = (touched \/ Freed(n))
    BY <1>1, Zenon DEF Step
  <2>4. \E next : walk' = [walk EXCEPT !.met = Append(@, n),
                                      !.cur = IF next = walk.first THEN Null ELSE next]
    BY <1>1, Zenon DEF Step
  <2> QED BY <2>1, <2>2, <2>3, <2>4, Zenon
<1>3. /\ DOMAIN walk' = {"first", "cur", "frees", "met", "begun"} /\ walk'.frees = walk.frees
      /\ touched' \in BOOLEAN
  BY <1>2 DEF RingInv, Base
<1>4. /\ DOMAIN m = Cells /\ \A c \in Cells : c[2] # "live" => mem'[c] = m[c]
      /\ \A p \in Nodes : mem'[Live(p)] \in BOOLEAN
      /\ DOMAIN mem' = Cells
  <2>1. DOMAIN m = Cells /\ \A p \in Nodes : m[Live(p)] \in BOOLEAN
    BY <1>1 DEF RingInv, Base
  <2>2. CASE ~walk.frees
    BY <1>2, <2>1, <2>2
  <2>3. CASE walk.frees
    <3>1. mem' = [m EXCEPT ![Live(n)] = FALSE] /\ Live(n)[2] = "live"
      BY <1>2, <2>3, CellsDiffer
    <3>2. \A p \in Nodes : Live(p) \in DOMAIN m
      BY <2>1, CellsDiffer
    <3> HIDE DEF Live
    <3> QED BY <2>1, <3>1, <3>2
  <2> QED BY <2>2, <2>3
<1>5. mem'[Top] = m[Top]
  BY <1>4, CellsDiffer
<1>6. Left' = Left
  BY <1>2 DEF Left, Idle
<1>7. Base'
  <2>1. /\ used' \subseteq Nodes /\ linked' \in Seq(used') /\ IsInjective(linked')
        /\ mem'[Top] \in used' \cup {Null} /\ refused' \in BOOLEAN
    BY <1>1, <1>2, <1>5 DEF RingInv, Base
  <2>2. /\ todo' \in [Threads -> Seq(Writes(used'))] /\ (Idle("owner") \/ Idle("other"))'
        /\ walk'.frees \in BOOLEAN /\ (walk'.frees => Quiet')
    BY <1>2, <1>3 DEF RingInv, Base, Idle, Quiet
  <2> QED BY <1>3, <1>4, <2>1, <2>2 DEF Base
<1>8. WillBeRing'
  <2>1. CASE ~walk.frees
    BY <1>1, <1>2, <1>3, <1>6, <2>1 DEF RingInv, WillBeRing
  <2>2. CASE walk.frees
    <3>1. Quiet /\ Left = <<>>
      BY <2>2 DEF RingInv, Base, Quiet, Left, Idle, Threads
    <3>2. PICK l : l = linked
      OBVIOUS
    <3>3. Ring(m, l) /\ l \in Seq(Nodes)
      BY <1>1, <3>1, <3>2, QuietRing
    <3>4. \A k \in 1..Len(l) : l[k] \in Nodes /\ l[Succ(k, Len(l))] \in Nodes
      BY <3>3, LenProperties, ElementOfSeq, NeighboursInRing
    <3>5. PICK g : g = mem'
      OBVIOUS
    <3>6. \A k \in 1..Len(l) : /\ g[NextOf(l[k])] = m[NextOf(l[k])]
                               /\ g[PrevOf(l[Succ(k, Len(l))])] = m[PrevOf(l[Succ(k, Len(l))])]
      BY <1>4, <3>4, <3>5, CellsDiffer
    <3>7. Ring(g, l)
      BY <1>5, <3>3, <3>5, <3>6 DEF Ring
    <3>8. Settles(g, g, <<>>)
      BY DEF Settles
    <3> QED BY <1>2, <1>3, <1>6, <2>2, <3>1, <3>2, <3>5, <3>7, <3>8 DEF WillBeRing
  <2> QED BY <2>1, <2>2
<1> QED BY <1>7, <1>8 DEF RingInv

LEMMA InitRing == Init => RingInv
<1> SUFFICES ASSUME Init PROVE RingInv
  OBVIOUS
<1> DEFINE all == Links \cup (Nodes \X {"live"})
<1>1. /\ mem = [c \in all |-> IF c[2] = "live" THEN FALSE ELSE IF c = Top THEN Null ELSE Garbage]
      /\ todo = [t \in Threads |-> <<>>] /\ walk = NoWalk /\ linked = <<>> /\ used = {}
      /\ refused = FALSE /\ touched = FALSE
  BY DEF Init
<1>2. /\ DOMAIN mem = Cells /\ mem[Top] = Null /\ \A n \in Nodes : mem[Live(n)] = FALSE
  BY <1>1, CellsDiffer DEF Cells
<1>3. Left = <<>> /\ Idle("owner")
  BY <1>1 DEF Left, Idle, Threads
<1>4. Settles(mem, mem, <<>>)
  BY DEF Settles
<1>5. Ring(mem, linked)
  <2>1. Len(<<>>) = 0 /\ 1..0 = {}
    OBVIOUS
  <2> QED BY <1>1, <1>2, <2>1 DEF Ring
<1>6. WillBeRing
  BY <1>1, <1>3, <1>4, <1>5 DEF WillBeRing
<1>7. Base
  <2>1. /\ DOMAIN walk = {"first", "cur", "frees", "met", "begun"} /\ walk.frees = FALSE
    BY <1>1 DEF NoWalk
  <2>2. linked \in Seq(used) /\ IsInjective(linked)
    BY <1>1 DEF IsInjective
  <2>3. todo \in [Threads -> Seq(Writes(used))]
    BY <1>1
  <2> QED BY <1>1, <1>2, <1>3, <2>1, <2>2, <2>3 DEF Base
<1> QED BY <1>6, <1>7 DEF RingInv

LEMMA RingInductive == RingInv /\ ~overlapped' /\ [Next]_vars => RingInv'
<1> SUFFICES ASSUME RingInv, ~overlapped', [Next]_vars PROVE RingInv'
  OBVIOUS
<1>1. CASE UNCHANGED vars
  BY <1>1 DEF RingInv, Base, WillBeRing, Left, Idle, Quiet, vars
<1>2. CASE Next
  <2>1. ASSUME NEW i \in Nodes, AddLast(i) \/ AddInside(i) \/ AddRefused(i) PROVE RingInv'
    BY <2>1, LastKeepsRing, InsideKeepsRing, RefusedKeepsRing
  <2>2. ASSUME NEW i \in Nodes, NEW t \in Threads, AddFirst(t, i) PROVE RingInv'
    BY <2>2, FirstKeepsRing
  <2>3. CASE RemoveTimer \/ RemoveFd
    BY <2>3, TimerRemovalKeepsRing, FdRemovalKeepsRing
  <2>4. ASSUME NEW t \in Threads, Write(t) PROVE RingInv'
    BY <2>4, WriteKeepsRing
  <2>5. ASSUME NEW frees \in BOOLEAN, BeginWalk(frees) PROVE RingInv'
    BY <2>5, BeginWalkKeepsRing
  <2>6. CASE Step
    BY <2>6, StepKeepsRing
  <2> QED BY <1>2, <2>1, <2>2, <2>3, <2>4, <2>5, <2>6 DEF Next
<1> QED BY <1>1, <1>2

-----------------------------------------------------------------------------
(* A node that is written is allocated.                                    *)

\* Writes to the head and to the links of the nodes of S.
Aimed(S) == ({Top} \cup (S \X {"next", "prev"})) \X (Nodes \cup {Null})

\* A node is allocated by the first write w or freed by the last one, the
\* n-th, and what is written in between is a node that is allocated by then:
\* x is in place as the k-th.
InOrder(x, k, n, m, w) ==
  IF x[1][2] = "live"
  THEN /\ x[2] = TRUE => k = 1
       /\ x[2] = FALSE => k = n
  ELSE \/ x[1] = Top
       \/ m[Live(x[1][1])] = TRUE
       \/ w = <<Live(x[1][1]), TRUE>>

Ordered(ws, m) == \A k \in DOMAIN ws : InOrder(ws[k], k, Len(ws), m, ws[1])

Order == ~refused => Ordered(Left, mem)

LEMMA AimedAre ==
  ASSUME NEW S
  PROVE  /\ \A w \in Aimed(S) : /\ w[1][2] # "live"
                                /\ w[1] = Top \/ w[1][1] \in S
         /\ \A v \in Nodes \cup {Null} :
              /\ <<Top, v>> \in Aimed(S)
              /\ \A n \in S : <<NextOf(n), v>> \in Aimed(S) /\ <<PrevOf(n), v>> \in Aimed(S)
<1>1. ASSUME NEW w \in Aimed(S) PROVE w[1][2] # "live" /\ (w[1] = Top \/ w[1][1] \in S)
  <2>1. CASE w[1] = Top
    BY <2>1, CellsDiffer
  <2>2. CASE w[1] \in S \X {"next", "prev"}
    BY <2>2
  <2> QED BY <2>1, <2>2 DEF Aimed
<1> QED BY <1>1 DEF Aimed, NextOf, PrevOf

LEMMA InsertOrdered ==
  ASSUME NEW S, NEW i, NEW r \in Seq(Aimed(S)), NEW m, \A n \in S : n = i \/ m[Live(n)] = TRUE
  PROVE  Ordered(<< <<Live(i), TRUE>> >> \o r, m)
<1> DEFINE w == <<Live(i), TRUE>>
           ws == <<w>> \o r
<1>1. w[1] = Live(i) /\ w[2] = TRUE /\ w[1][2] = "live"
  BY CellsDiffer
<1>2. w \in {w} \cup Aimed(S)
  OBVIOUS
<1> HIDE DEF w
<1>3. /\ r \in Seq({w} \cup Aimed(S)) /\ <<w>> \in Seq({w} \cup Aimed(S))
      /\ Len(<<w>>) = 1 /\ <<w>>[1] = w
  BY <1>2
<1>4. /\ Len(r) \in Nat /\ DOMAIN ws = 1..Len(r)+1
      /\ ws[1] = w /\ \A k \in 2..Len(r)+1 : ws[k] \in Aimed(S)
  <2>1. /\ Len(r) \in Nat /\ \A k \in 1..Len(r) : r[k] \in Aimed(S)
    BY LenProperties, ElementOfSeq
  <2>2. /\ ws \in Seq({w} \cup Aimed(S)) /\ Len(ws) = Len(r) + 1
        /\ \A k \in 1..Len(r)+1 : ws[k] = IF k = 1 THEN w ELSE r[k-1]
    BY <1>3, <2>1, ConcatProperties
  <2>3. DOMAIN ws = 1..Len(r)+1
    BY <2>2, LenProperties
  <2> QED BY <2>1, <2>2, <2>3
<1> HIDE DEF ws
<1>5. ASSUME NEW k \in 2..Len(r)+1
      PROVE  /\ ws[k][1][2] # "live"
             /\ \/ ws[k][1] = Top
                \/ m[Live(ws[k][1][1])] = TRUE
                \/ ws[1] = <<Live(ws[k][1][1]), TRUE>>
  <2>1. ws[k][1][2] # "live" /\ (ws[k][1] = Top \/ ws[k][1][1] \in S)
    BY <1>4, AimedAre
  <2> QED BY <1>4, <2>1 DEF w
<1>6. \A k \in DOMAIN ws : k = 1 \/ k \in 2..Len(r)+1
  BY <1>4
<1>7. Ordered(ws, m)
  BY <1>1, <1>4, <1>5, <1>6 DEF Ordered, InOrder
<1> QED BY <1>7 DEF ws, w

LEMMA RemovalOrdered ==
  ASSUME NEW S, NEW i, NEW r \in Seq(Aimed(S)), NEW m, \A n \in S : m[Live(n)] = TRUE
  PROVE  Ordered(r \o << <<Live(i), FALSE>> >>, m)
<1> DEFINE w == <<Live(i), FALSE>>
           ws == r \o <<w>>
<1>1. w[1] = Live(i) /\ w[2] = FALSE /\ w[1][2] = "live"
  BY CellsDiffer
<1> HIDE DEF w
<1>2. /\ r \in Seq({w} \cup Aimed(S)) /\ <<w>> \in Seq({w} \cup Aimed(S))
      /\ Len(<<w>>) = 1 /\ <<w>>[1] = w
  OBVIOUS
<1>3. /\ Len(r) \in Nat /\ DOMAIN ws = 1..Len(r)+1 /\ Len(ws) = Len(r) + 1
      /\ ws[Len(r)+1] = w /\ \A k \in 1..Len(r) : ws[k] \in Aimed(S)
  <2>1. /\ Len(r) \in Nat /\ \A k \in 1..Len(r) : r[k] \in Aimed(S)
    BY LenProperties, ElementOfSeq
  <2>2. /\ ws \in Seq({w} \cup Aimed(S)) /\ Len(ws) = Len(r) + 1
        /\ \A k \in 1..Len(r)+1 : ws[k] = IF k <= Len(r) THEN r[k] ELSE w
    BY <1>2, <2>1, ConcatProperties
  <2>3. DOMAIN ws = 1..Len(r)+1
    BY <2>2, LenProperties
  <2> QED BY <2>1, <2>2, <2>3
<1> HIDE DEF ws
<1>4. ASSUME NEW k \in 1..Len(r)
      PROVE  /\ ws[k][1][2] # "live"
             /\ ws[k][1] = Top \/ m[Live(ws[k][1][1])] = TRUE
  BY <1>3, AimedAre
<1>5. \A k \in DOMAIN ws : k \in 1..Len(r) \/ k = Len(ws)
  BY <1>3
<1>6. Ordered(ws, m)
  BY <1>1, <1>3, <1>4, <1>5 DEF Ordered, InOrder
<1> QED BY <1>6 DEF ws, w

\* A write made in order leaves the others in order.
LEMMA LaterInOrder ==
  ASSUME NEW U \in SUBSET Nodes, NEW m, DOMAIN m = Cells, NEW n \in Nat, NEW k \in 1..n-1,
         NEW w \in Writes(U), InOrder(w, 1, n, m, w), NEW v,
         NEW x \in Writes(U), InOrder(x, k + 1, n, m, w)
  PROVE  InOrder(x, k, n - 1, [m EXCEPT ![w[1]] = w[2]], v)
<1> DEFINE mm == [m EXCEPT ![w[1]] = w[2]]
           y == Live(x[1][1])
<1>1. /\ w[1][2] = "live" => w[2] = TRUE
      /\ w[1][2] # "live" => w[1] # y
  <2>1. w[1][2] = "live" => w[2] # FALSE
    <3>1. n # 1
      OBVIOUS
    <3> QED BY <3>1 DEF InOrder
  <2>2. w[1][2] = "live" => w[2] \in BOOLEAN
    BY DEF Writes
  <2>3. w[1][2] # "live" => w[1] # y
    <3>1. y[2] = "live"
      BY CellsDiffer
    <3> QED BY ONLY <3>1
  <2> QED BY ONLY <2>1, <2>2, <2>3
<1>2. CASE x[1][2] = "live"
  BY <1>2 DEF InOrder
<1>3. CASE x[1][2] # "live" /\ x[1] # Top
  <2>1. x[1] \in Cells
    BY DEF Writes
  <2>2. y \in DOMAIN m
    <3>1. x[1][1] \in Nodes
      BY <1>3, <2>1 DEF Cells, Links
    <3> QED BY <3>1, CellsDiffer
  <2>3. m[y] = TRUE \/ w[1] = y
    <3>1. m[y] = TRUE \/ w = <<y, TRUE>>
      BY <1>3 DEF InOrder
    <3>2. ASSUME w = <<y, TRUE>> PROVE w[1] = y
      BY <3>2
    <3> QED BY <3>1, <3>2
  <2>4. y[2] = "live"
    BY CellsDiffer
  <2> HIDE DEF y
  <2>5. mm[y] = TRUE
    <3>1. CASE w[1] = y
      <4>1. w[2] = TRUE
        BY <1>1, <2>4, <3>1
      <4> QED BY <2>2, <3>1, <4>1
    <3>2. CASE w[1] # y
      <4>1. m[y] = TRUE
        BY <2>3, <3>2
      <4> QED BY <2>2, <3>2, <4>1
    <3> QED BY <3>1, <3>2
  <2> QED BY <1>3, <2>5 DEF InOrder, y
<1>4. CASE x[1][2] # "live" /\ x[1] = Top
  BY <1>4 DEF InOrder
<1> QED BY <1>2, <1>3, <1>4

LEMMA WriteOrdered ==
  \A U, m : \A ws \in Seq(Writes(U)) :
    /\ Ordered(ws, m) /\ ws # <<>> /\ DOMAIN m = Cells /\ U \subseteq Nodes
    => Ordered(Tail(ws), [m EXCEPT ![Head(ws)[1]] = Head(ws)[2]])
<1> SUFFICES ASSUME NEW U, NEW m, NEW ws \in Seq(Writes(U)), Ordered(ws, m), ws # <<>>,
                    DOMAIN m = Cells, U \subseteq Nodes
             PROVE  Ordered(Tail(ws), [m EXCEPT ![Head(ws)[1]] = Head(ws)[2]])
  OBVIOUS
<1>1. PICK w, r, n : w = Head(ws) /\ r = Tail(ws) /\ n = Len(ws)
  OBVIOUS
<1>2. /\ n \in Nat \ {0} /\ DOMAIN ws = 1..n /\ w = ws[1]
      /\ Len(r) = n - 1 /\ DOMAIN r = 1..n-1
      /\ \A k \in 1..n-1 : r[k] = ws[k+1]
      /\ \A k \in 1..n : ws[k] \in Writes(U)
  BY <1>1, LenProperties, EmptySeq, HeadTailProperties, ElementOfSeq
<1>3. PICK mm : mm = [m EXCEPT ![w[1]] = w[2]]
  OBVIOUS
<1>4. ASSUME NEW k \in 1..n-1 PROVE InOrder(r[k], k, n - 1, mm, r[1])
  <2>1. k + 1 \in 1..n /\ 1 \in 1..n /\ U \in SUBSET Nodes
    BY <1>2
  <2>2. /\ w \in Writes(U) /\ InOrder(w, 1, n, m, w)
        /\ r[k] \in Writes(U) /\ InOrder(r[k], k + 1, n, m, w)
    BY <1>1, <1>2, <2>1 DEF Ordered
  <2> QED BY <1>2, <1>3, <2>1, <2>2, LaterInOrder
<1> QED BY <1>1, <1>2, <1>3, <1>4 DEF Ordered

LEMMA LinksAimed ==
  ASSUME NEW S \in SUBSET Nodes, NEW i \in S, NEW p \in S, NEW s \in S
  PROVE  /\ BeforeLinks(i, p, s) \in Seq(Aimed(S)) /\ AfterLinks(i, p, s) \in Seq(Aimed(S))
         /\ << <<NextOf(i), i>>, <<PrevOf(i), i>> >> \in Seq(Aimed(S))
         /\ << <<NextOf(p), s>>, <<PrevOf(s), p>> >> \in Seq(Aimed(S))
<1> DEFINE a == <<PrevOf(s), i>>
           b == <<NextOf(i), s>>
           c == <<PrevOf(i), p>>
           d == <<NextOf(p), i>>
           e == <<NextOf(i), i>>
           f == <<PrevOf(i), i>>
           g == <<NextOf(p), s>>
           h == <<PrevOf(s), p>>
<1>1. /\ a \in Aimed(S) /\ b \in Aimed(S) /\ c \in Aimed(S) /\ d \in Aimed(S)
      /\ e \in Aimed(S) /\ f \in Aimed(S) /\ g \in Aimed(S) /\ h \in Aimed(S)
  BY AimedAre
<1> HIDE DEF a, b, c, d, e, f, g, h
<1>2. /\ <<a, b, c, d>> \in Seq(Aimed(S)) /\ <<d, c, b, a>> \in Seq(Aimed(S))
      /\ <<e, f>> \in Seq(Aimed(S)) /\ <<g, h>> \in Seq(Aimed(S))
  BY <1>1
<1> QED BY <1>2 DEF BeforeLinks, AfterLinks, a, b, c, d, e, f, g, h

\* What is left to do as an operation begins.
LEMMA BeginMakes ==
  \A t, ws, list :
    RingInv /\ ~overlapped' /\ t \in Threads /\ Begin(t, ws, list)
    => /\ Left' = ws /\ Left = <<>> /\ Quiet /\ mem' = mem /\ linked' = list /\ ~walk.frees
       /\ todo'[t] = ws /\ \A s \in Threads \ {t} : todo'[s] = <<>>
<1> SUFFICES ASSUME NEW t \in Threads, NEW ws, NEW list, RingInv, ~overlapped', Begin(t, ws, list)
             PROVE  /\ Left' = ws /\ Left = <<>> /\ Quiet /\ mem' = mem /\ linked' = list
                    /\ ~walk.frees /\ todo'[t] = ws /\ \A s \in Threads \ {t} : todo'[s] = <<>>
  OBVIOUS
<1>1. /\ linked' = list /\ mem' = mem /\ Quiet /\ ~walk.frees
      /\ todo' = [todo EXCEPT ![t] = ws]
  BY DEF Begin
<1>2. DOMAIN todo = Threads /\ \A s \in Threads : todo[s] = <<>>
  BY <1>1 DEF RingInv, Base, Quiet, Idle
<1>3. todo'[t] = ws /\ \A s \in Threads \ {t} : todo'[s] = <<>>
  BY <1>1, <1>2
<1>4. Left' = ws /\ Left = <<>>
  BY <1>2, <1>3 DEF Left, Idle, Threads
<1> QED BY <1>1, <1>3, <1>4

LEMMA InsertKeepsOrder ==
  \A t, i, ws, list :
    RingInv /\ ~overlapped' /\ t \in Threads /\ Insert(t, i, ws, list) /\ refused' = refused
      /\ ws \in Seq(Aimed({i} \cup ToSet(linked)))
    => Order'
<1> SUFFICES ASSUME NEW t \in Threads, NEW i, NEW ws, NEW list, RingInv, ~overlapped', Insert(t, i, ws, list),
                    refused' = refused, ws \in Seq(Aimed({i} \cup ToSet(linked))), ~refused
             PROVE  Ordered(Left', mem')
  BY DEF Order
<1>1. PICK m, l, S : m = mem /\ l = linked /\ S = {i} \cup ToSet(l)
  OBVIOUS
<1>2. /\ Left' = NewNode(i) \o ws /\ mem' = m /\ Quiet /\ ~walk.frees
      /\ i \in Nodes
  BY <1>1, BeginMakes DEF Insert
<1>3. S \in SUBSET Nodes
  <2>1. l \in Seq(Nodes)
    BY <1>1, <1>2, QuietRing
  <2> QED BY <1>1, <1>2, <2>1, LenProperties, ElementOfSeq DEF ToSet
<1>4. \A n \in S : n = i \/ m[Live(n)] = TRUE
  <2>1. ASSUME NEW n \in ToSet(l) PROVE m[Live(n)] = TRUE
    <3>1. l \in Seq(used) /\ m[Live(n)] \in BOOLEAN
      BY <1>1, <1>3, <2>1 DEF RingInv, Base
    <3>2. n \in used
      BY <2>1, <3>1, LenProperties, ElementOfSeq DEF ToSet
    <3>3. m[Live(n)]
      BY <1>1, <1>2, <2>1, <3>2, QuietRing
    <3> QED BY <3>1, <3>3
  <2> QED BY <1>1, <2>1
<1> DEFINE a == << <<NextOf(i), i>>, <<PrevOf(i), i>> >>
           c == << <<Live(i), TRUE>> >>
<1>5. a \in Seq(Aimed(S)) /\ ws \in Seq(Aimed(S))
  BY <1>1, <1>3, LinksAimed
<1>6. NewNode(i) \o ws = c \o (a \o ws)
  <2> DEFINE p == <<Live(i), TRUE>>
             q == <<NextOf(i), i>>
             r == <<PrevOf(i), i>>
             T == {p} \cup Aimed(S)
  <2> HIDE DEF p, q, r
  <2>1. <<p, q, r>> = <<p>> \o <<q, r>>
    BY OneAndTwo
  <2>2. <<p>> \in Seq(T) /\ <<q, r>> \in Seq(T) /\ ws \in Seq(T)
    BY <1>5 DEF q, r
  <2> HIDE DEF T
  <2>3. (<<p>> \o <<q, r>>) \o ws = <<p>> \o (<<q, r>> \o ws)
    BY <2>2, ConcatAssociative
  <2> QED BY <2>1, <2>3 DEF p, q, r, NewNode
<1> HIDE DEF a
<1>7. a \o ws \in Seq(Aimed(S))
  BY <1>5, ConcatProperties
<1>8. Ordered(c \o (a \o ws), m)
  BY <1>4, <1>7, InsertOrdered
<1> QED BY <1>2, <1>6, <1>8

LEMMA RemovalKeepsOrder ==
  \A k, moves, r :
    /\ RingInv /\ ~overlapped' /\ k \in 1..Len(linked) /\ refused' = refused
    /\ Begin("owner", Unlink(linked[k], moves), r)
    => Order'
<1> SUFFICES ASSUME NEW k, NEW moves, NEW r, RingInv, ~overlapped', k \in 1..Len(linked), refused' = refused,
                    Begin("owner", Unlink(linked[k], moves), r), ~refused
             PROVE  Ordered(Left', mem')
  BY DEF Order
<1>1. PICK m, l, S : m = mem /\ l = linked /\ S = ToSet(l)
  OBVIOUS
<1>2. /\ Left' = Unlink(l[k], moves) /\ mem' = m /\ Quiet /\ ~walk.frees
  BY <1>1, BeginMakes DEF Threads
<1>3. l \in Seq(Nodes) /\ l \in Seq(used) /\ Ring(m, l)
  BY <1>1, <1>2, QuietRing DEF RingInv, Base
<1>4. S \in SUBSET Nodes /\ \A j \in 1..Len(l) : l[j] \in S
  <2>1. Len(l) \in Nat /\ DOMAIN l = 1..Len(l) /\ \A j \in 1..Len(l) : l[j] \in Nodes
    BY <1>3, LenProperties, ElementOfSeq
  <2> QED BY <1>1, <2>1 DEF ToSet
<1>5. \A n \in S : m[Live(n)] = TRUE
  <2> SUFFICES ASSUME NEW n \in S PROVE m[Live(n)] = TRUE
    OBVIOUS
  <2>1. n \in used /\ m[Live(n)] \in BOOLEAN
    BY <1>1, <1>3, <1>4, LenProperties, ElementOfSeq DEF RingInv, Base, ToSet
  <2>2. m[Live(n)]
    BY <1>1, <1>2, <2>1, QuietRing
  <2> QED BY <2>1, <2>2
<1> DEFINE i == l[k]
           p == l[Pred(k, Len(l))]
           s == l[Succ(k, Len(l))]
           v == IF s = i THEN Null ELSE s
           a == << <<NextOf(p), s>>, <<PrevOf(s), p>> >>
           b == IF moves THEN << <<Top, v>> >> ELSE <<>>
           c == << <<Live(i), FALSE>> >>
<1>6. i \in S /\ p \in S /\ s \in S
  BY <1>1, <1>3, <1>4, LenProperties, NeighboursInRing
<1>7. Unlink(i, moves) = (a \o b) \o c
  <2>1. mem[NextOf(i)] = s /\ mem[PrevOf(i)] = p
    BY <1>1, <1>3, RingNeighbours
  <2> HIDE DEF i, s, p
  <2> QED BY ONLY <2>1 DEF Unlink, a, b, c, v
<1>8. a \in Seq(Aimed(S)) /\ b \in Seq(Aimed(S))
  <2>1. a \in Seq(Aimed(S))
    BY <1>4, <1>6, LinksAimed
  <2>2. <<Top, v>> \in Aimed(S)
    BY <1>4, <1>6, AimedAre
  <2> HIDE DEF v
  <2>3. << <<Top, v>> >> \in Seq(Aimed(S)) /\ <<>> \in Seq(Aimed(S))
    BY <2>2
  <2> QED BY <2>1, <2>3
<1> HIDE DEF a, b
<1>9. a \o b \in Seq(Aimed(S))
  BY <1>8, ConcatProperties
<1> HIDE DEF i, s, p
<1>10. Ordered((a \o b) \o c, m)
  BY <1>5, <1>9, RemovalOrdered
<1> QED BY <1>2, <1>7, <1>10 DEF i

LEMMA InsertAims ==
  \A t, i, ws, list :
    RingInv /\ ~overlapped' /\ Insert(t, i, ws, list)
    => LET S == {i} \cup ToSet(linked)
           n == Len(linked)
       IN  /\ S \in SUBSET Nodes /\ i \in Nodes
           /\ mem[Top] = Null <=> linked = <<>>
           /\ linked # <<>> => /\ mem[Top] = linked[1]
                               /\ AddBefore(mem[Top], i) = BeforeLinks(i, linked[n], linked[1])
                               /\ AddBefore(mem[Top], i) \in Seq(Aimed(S))
           /\ \A k \in 1..n : AddAfter(linked[k], i) \in Seq(Aimed(S))
<1> SUFFICES ASSUME NEW t, NEW i, NEW ws, NEW list, RingInv, ~overlapped', Insert(t, i, ws, list)
             PROVE  LET S == {i} \cup ToSet(linked)
                        n == Len(linked)
                    IN  /\ S \in SUBSET Nodes /\ i \in Nodes
                        /\ mem[Top] = Null <=> linked = <<>>
                        /\ linked # <<>> =>
                             /\ mem[Top] = linked[1]
                             /\ AddBefore(mem[Top], i) = BeforeLinks(i, linked[n], linked[1])
                             /\ AddBefore(mem[Top], i) \in Seq(Aimed(S))
                        /\ \A k \in 1..n : AddAfter(linked[k], i) \in Seq(Aimed(S))
  OBVIOUS
<1>1. PICK m, l, S, n : m = mem /\ l = linked /\ S = {i} \cup ToSet(l) /\ n = Len(l)
  OBVIOUS
<1>2. /\ Begins(used', m, l, i)
      /\ m[Top] = Null <=> l = <<>>
      /\ l # <<>> => m[Top] = l[1] /\ m[PrevOf(l[1])] = l[n]
      /\ \A k \in 1..n : m[NextOf(l[k])] = l[Succ(k, n)]
  BY <1>1, InsertBegins
<1>3. l \in Seq(Nodes) /\ i \in Nodes
  BY <1>2 DEF Begins
<1>4. n \in Nat /\ DOMAIN l = 1..n /\ \A k \in 1..n : l[k] \in Nodes /\ l[k] \in S
  BY <1>1, <1>3, LenProperties, ElementOfSeq DEF ToSet
<1>5. S \in SUBSET Nodes /\ i \in S
  BY <1>1, <1>3, <1>4 DEF ToSet
<1>6. ASSUME l # <<>>
      PROVE  /\ m[Top] = l[1] /\ AddBefore(m[Top], i) = BeforeLinks(i, l[n], l[1])
             /\ BeforeLinks(i, l[n], l[1]) \in Seq(Aimed(S))
  <2>1. 1 \in 1..n /\ n \in 1..n
    BY <1>1, <1>3, <1>6, EndsOfList
  <2>2. l[1] \in S /\ l[n] \in S
    BY <1>4, <2>1
  <2>3. AddBefore(m[Top], i) = BeforeLinks(i, l[n], l[1])
    BY <1>1, <1>2, <1>6 DEF AddBefore, BeforeLinks
  <2> QED BY <1>2, <1>5, <1>6, <2>2, <2>3, LinksAimed
<1>7. ASSUME NEW k \in 1..n PROVE AddAfter(l[k], i) \in Seq(Aimed(S))
  <2>1. l[k] \in S /\ l[Succ(k, n)] \in S
    BY <1>4, NeighboursInRing
  <2>2. AddAfter(l[k], i) = AfterLinks(i, l[k], l[Succ(k, n)])
    BY <1>1, <1>2 DEF AddAfter, AfterLinks
  <2> QED BY <1>5, <2>1, <2>2, LinksAimed
<1> QED BY <1>1, <1>2, <1>3, <1>5, <1>6, <1>7

LEMMA AddsKeepOrder ==
  ASSUME RingInv, ~overlapped', NEW i \in Nodes,
         \/ AddLast(i) \/ AddInside(i) \/ AddRefused(i)
         \/ \E t \in Threads : AddFirst(t, i)
  PROVE  Order'
<1>1. PICK S, n : S = {i} \cup ToSet(linked) /\ n = Len(linked)
  OBVIOUS
<1>2. CASE AddLast(i)
  <2>1. /\ mem[Top] # Null /\ refused' = refused
        /\ Insert("owner", i, AddBefore(mem[Top], i), Append(linked, i))
    BY <1>2 DEF AddLast
  <2>2. AddBefore(mem[Top], i) \in Seq(Aimed(S))
    BY <1>1, <2>1, InsertAims
  <2> QED BY <1>1, <2>1, <2>2, InsertKeepsOrder DEF Threads
<1>3. CASE AddInside(i)
  <2>1. PICK k \in DOMAIN linked :
          /\ refused' = refused
          /\ Insert("owner", i, AddAfter(linked[k], i), InsertAt(linked, k + 1, i))
    BY <1>3 DEF AddInside
  <2>2. k \in 1..n
    BY <1>1, LenProperties DEF RingInv, Base
  <2>3. AddAfter(linked[k], i) \in Seq(Aimed(S))
    BY <1>1, <2>1, <2>2, InsertAims
  <2> QED BY <1>1, <2>1, <2>3, InsertKeepsOrder DEF Threads
<1>4. CASE AddRefused(i)
  BY <1>4 DEF AddRefused, Order
<1>5. ASSUME NEW t \in Threads, AddFirst(t, i) PROVE Order'
  <2> DEFINE b == IF mem[Top] = Null THEN <<>> ELSE AddBefore(mem[Top], i)
             c == << <<Top, i>> >>
  <2>1. refused' = refused /\ Insert(t, i, b \o c, <<i>> \o linked)
    BY <1>5 DEF AddFirst
  <2>2. b \in Seq(Aimed(S)) /\ c \in Seq(Aimed(S))
    <3>1. mem[Top] # Null => AddBefore(mem[Top], i) \in Seq(Aimed(S))
      BY <1>1, <2>1, InsertAims
    <3>2. <<Top, i>> \in Aimed(S)
      BY AimedAre
    <3> QED BY <3>1, <3>2
  <2> HIDE DEF b, c
  <2>3. b \o c \in Seq(Aimed(S))
    BY <2>2, ConcatProperties
  <2> QED BY <1>1, <2>1, <2>3, InsertKeepsOrder
<1> QED BY <1>2, <1>3, <1>4, <1>5

LEMMA WriteKeepsOrder == ASSUME RingInv, Order, NEW t \in Threads, Write(t) PROVE Order'
<1> SUFFICES ASSUME ~refused PROVE Ordered(Left', mem')
  BY DEF Order, Write
<1>1. PICK m, ws : m = mem /\ ws = todo[t]
  OBVIOUS
<1>2. /\ ws # <<>> /\ mem' = [m EXCEPT ![Head(ws)[1]] = Head(ws)[2]]
      /\ todo' = [todo EXCEPT ![t] = Tail(ws)]
  BY <1>1 DEF Write, Idle
<1>3. /\ todo \in [Threads -> Seq(Writes(used))] /\ used \subseteq Nodes /\ DOMAIN m = Cells
      /\ (Idle("owner") \/ Idle("other"))
  BY <1>1 DEF RingInv, Base
<1>4. todo[t] # <<>> /\ \A s \in Threads \ {t} : todo[s] = <<>>
  BY <1>1, <1>2, <1>3 DEF Idle, Threads
<1>5. todo'[t] = Tail(ws) /\ \A s \in Threads \ {t} : todo'[s] = <<>>
  BY <1>2, <1>3, <1>4
<1>6. Left = ws /\ Left' = Tail(ws)
  BY <1>1, <1>4, <1>5 DEF Left, Idle, Threads
<1>7. Ordered(ws, m) /\ ws \in Seq(Writes(used))
  BY <1>1, <1>3, <1>6 DEF Order
<1> QED BY <1>2, <1>3, <1>6, <1>7, WriteOrdered

LEMMA OrderStep == RingInv /\ ~overlapped' /\ Order /\ [Next]_vars => Order'
<1> SUFFICES ASSUME RingInv, ~overlapped', Order, [Next]_vars PROVE Order'
  OBVIOUS
<1>1. CASE UNCHANGED <<mem, todo, refused>>
  BY <1>1 DEF Order, Left, Idle
<1>2. ASSUME NEW i \in Nodes, AddLast(i) \/ AddInside(i) \/ AddRefused(i) PROVE Order'
  BY <1>2, AddsKeepOrder
<1>3. ASSUME NEW i \in Nodes, NEW t \in Threads, AddFirst(t, i) PROVE Order'
  BY <1>3, AddsKeepOrder
<1>4. CASE RemoveTimer
  <2>1. PICK k \in DOMAIN linked :
          /\ Begin("owner", Unlink(linked[k], mem[Top] = linked[k]), RemoveAt(linked, k))
          /\ refused' = refused
    BY <1>4 DEF RemoveTimer
  <2>2. k \in 1..Len(linked)
    BY LenProperties DEF RingInv, Base
  <2> QED BY <2>1, <2>2, RemovalKeepsOrder
<1>5. CASE RemoveFd
  <2>1. PICK k \in DOMAIN linked :
          /\ \E r : Begin("owner", Unlink(linked[k], TRUE), r)
          /\ refused' = refused
    BY <1>5 DEF RemoveFd
  <2>2. k \in 1..Len(linked)
    BY LenProperties DEF RingInv, Base
  <2> QED BY <2>1, <2>2, RemovalKeepsOrder
<1>6. ASSUME NEW t \in Threads, Write(t) PROVE Order'
  BY <1>6, WriteKeepsOrder
<1>7. CASE Step
  <2>1. CASE ~walk.frees
    BY <1>1, <1>7, <2>1 DEF Step
  <2>2. CASE walk.frees
    <3>1. Left' = <<>>
      BY <1>7, <2>2 DEF Step, RingInv, Base, Quiet, Left, Idle, Threads
    <3> QED BY <3>1 DEF Order, Ordered
  <2> QED BY <2>1, <2>2
<1>8. ASSUME NEW frees \in BOOLEAN, BeginWalk(frees) PROVE Order'
  BY <1>1, <1>8 DEF BeginWalk
<1>9. CASE UNCHANGED vars
  BY <1>1, <1>9 DEF vars
<1> QED BY <1>2, <1>3, <1>4, <1>5, <1>6, <1>7, <1>8, <1>9 DEF Next

-----------------------------------------------------------------------------
(* What a walk sees of a node put in front while it is under way.          *)

\* Of the writes o that put a node in front of the list, the last makes it the
\* head and the one before, if the list was not empty, makes it reachable; the
\* memory m holds what the list was, and no write is to any other node of it.
Arrives(o, m, l) ==
  LET n == Len(l) e == Len(o) IN
    /\ n >= 1 /\ o[e] = <<Top, l[1]>>
    /\ m[Top] = IF n = 1 THEN Null ELSE l[2]
    /\ n > 1 /\ e > 1 => m[NextOf(l[n])] = l[2]
    /\ \A k \in 1..e-1 :
         /\ o[k][1] # Top
         /\ \A q \in 2..n : /\ o[k][1] # Live(l[q])
                            /\ o[k][1] = NextOf(l[q]) => q = n /\ k = e - 1

AtFront == ~Idle("other") => Arrives(todo["other"], mem, linked)

LEMMA EightInTurn ==
  ASSUME NEW x1, NEW x2, NEW x3, NEW y1, NEW y2, NEW y3, NEW y4, NEW z, NEW o,
         o = <<x1, x2, x3>> \o (<<y1, y2, y3, y4>> \o <<z>>)
  PROVE  /\ Len(o) = 8 /\ o[1] = x1 /\ o[2] = x2 /\ o[3] = x3 /\ o[4] = y1 /\ o[5] = y2
         /\ o[6] = y3 /\ o[7] = y4 /\ o[8] = z
<1> DEFINE T == {x1, x2, x3, y1, y2, y3, y4, z}
           a == <<x1, x2, x3>>
           b == <<y1, y2, y3, y4>>
           c == <<z>>
           d == b \o c
<1>1. /\ a \in Seq(T) /\ b \in Seq(T) /\ c \in Seq(T)
      /\ Len(a) = 3 /\ Len(b) = 4 /\ Len(c) = 1
      /\ a[1] = x1 /\ a[2] = x2 /\ a[3] = x3 /\ b[1] = y1 /\ b[2] = y2 /\ b[3] = y3
      /\ b[4] = y4 /\ c[1] = z
  OBVIOUS
<1> HIDE DEF a, b, c, T
<1>0. a \in Seq(T) /\ b \in Seq(T) /\ c \in Seq(T)
  BY <1>1
<1>2. /\ d \in Seq(T) /\ Len(d) = 5 /\ \A k \in 1..5 : d[k] = IF k <= 4 THEN b[k] ELSE c[k - 4]
  <2>1. /\ d \in Seq(T) /\ Len(d) = Len(b) + Len(c)
        /\ \A k \in 1..Len(b)+Len(c) : d[k] = IF k <= Len(b) THEN b[k] ELSE c[k - Len(b)]
    BY ONLY <1>0, ConcatProperties
  <2>2. Len(b) = 4 /\ Len(c) = 1
    BY ONLY <1>1
  <2> QED BY ONLY <2>1, <2>2
<1> HIDE DEF d
<1>3. Len(a \o d) = 8 /\ \A k \in 1..8 : (a \o d)[k] = IF k <= 3 THEN a[k] ELSE d[k - 3]
  <2>0. d \in Seq(T)
    BY <1>2
  <2>1. /\ Len(a \o d) = Len(a) + Len(d)
        /\ \A k \in 1..Len(a)+Len(d) : (a \o d)[k] = IF k <= Len(a) THEN a[k] ELSE d[k - Len(a)]
    BY ONLY <1>0, <2>0, ConcatProperties
  <2>2. Len(a) = 3 /\ Len(d) = 5
    BY ONLY <1>1, <1>2
  <2> QED BY ONLY <2>1, <2>2
<1>4. o = a \o d
  BY DEF a, b, c, d
<1>5. /\ (a \o d)[1] = a[1] /\ (a \o d)[2] = a[2] /\ (a \o d)[3] = a[3]
      /\ (a \o d)[4] = d[1] /\ (a \o d)[5] = d[2] /\ (a \o d)[6] = d[3]
      /\ (a \o d)[7] = d[4] /\ (a \o d)[8] = d[5]
  BY ONLY <1>3
<1>6. d[1] = b[1] /\ d[2] = b[2] /\ d[3] = b[3] /\ d[4] = b[4] /\ d[5] = c[1]
  BY ONLY <1>2
<1> QED BY ONLY <1>1, <1>3, <1>4, <1>5, <1>6

LEMMA FourInTurn ==
  ASSUME NEW x1, NEW x2, NEW x3, NEW z, NEW o, o = <<x1, x2, x3>> \o <<z>>
  PROVE  Len(o) = 4 /\ o[1] = x1 /\ o[2] = x2 /\ o[3] = x3 /\ o[4] = z
  OBVIOUS

\* A node that begins to be put in front of an empty list, and of any other.
LEMMA ArrivesAlone ==
  ASSUME NEW i, NEW m, m[Top] = Null
  PROVE  Arrives(NewNode(i) \o << <<Top, i>> >>, m, <<i>>)
<1>1. PICK x1, x2, x3, z, l :
        /\ x1 = <<Live(i), TRUE>> /\ x2 = <<NextOf(i), i>> /\ x3 = <<PrevOf(i), i>>
        /\ z = <<Top, i>> /\ l = <<i>>
  OBVIOUS
<1>0. PICK o : o = <<x1, x2, x3>> \o <<z>>
  OBVIOUS
<1>2. Len(o) = 4 /\ o[1] = x1 /\ o[2] = x2 /\ o[3] = x3 /\ o[4] = z
  BY ONLY <1>0, FourInTurn
<1>3. x1[1] # Top /\ x2[1] # Top /\ x3[1] # Top
  BY <1>1, CellsDiffer
<1>4. Len(l) = 1 /\ l[1] = i
  BY <1>1
<1>5. \A k \in 1..3 : o[k][1] # Top
  BY <1>2, <1>3
<1>6. Arrives(o, m, l)
  BY <1>1, <1>2, <1>4, <1>5 DEF Arrives
<1>7. o = NewNode(i) \o << <<Top, i>> >>
  BY <1>1, <1>0 DEF NewNode
<1> QED BY <1>1, <1>6, <1>7

LEMMA ArrivesBefore ==
  ASSUME NEW U, NEW m, NEW l, NEW i, Begins(U, m, l, i), l # <<>>
  PROVE  Arrives(NewNode(i) \o (BeforeLinks(i, l[Len(l)], l[1]) \o << <<Top, i>> >>), m, <<i>> \o l)
<1>1. PICK n, s, p, r : n = Len(l) /\ s = l[1] /\ p = l[n] /\ r = <<i>> \o l
  OBVIOUS
<1>2. PICK x1, x2, x3, y1, y2, y3, y4, z :
        /\ x1 = <<Live(i), TRUE>> /\ x2 = <<NextOf(i), i>> /\ x3 = <<PrevOf(i), i>>
        /\ y1 = <<PrevOf(s), i>> /\ y2 = <<NextOf(i), s>> /\ y3 = <<PrevOf(i), p>>
        /\ y4 = <<NextOf(p), i>> /\ z = <<Top, i>>
  OBVIOUS
<1>0. PICK o : o = <<x1, x2, x3>> \o (<<y1, y2, y3, y4>> \o <<z>>)
  OBVIOUS
<1>3. /\ Len(o) = 8 /\ o[1] = x1 /\ o[2] = x2 /\ o[3] = x3 /\ o[4] = y1 /\ o[5] = y2
      /\ o[6] = y3 /\ o[7] = y4 /\ o[8] = z
  BY ONLY <1>0, EightInTurn
<1>4. /\ n \in Nat \ {0} /\ l \in Seq(Nodes) /\ i \in Nodes /\ m[Top] = s
      /\ \A k \in 1..n : l[k] \in Nodes /\ l[k] # i
      /\ \A j, k \in 1..n : l[j] = l[k] => j = k
      /\ m[NextOf(p)] = s
  <2>1. /\ n \in Nat \ {0} /\ l \in Seq(Nodes) /\ i \in Nodes /\ Ring(m, l)
        /\ \A k \in 1..n : l[k] \in Nodes /\ l[k] # i
        /\ \A j, k \in 1..n : l[j] = l[k] => j = k
    BY <1>1, EndsOfList DEF Begins, IsInjective
  <2>2. n \in 1..n /\ Succ(n, n) = 1
    BY <2>1 DEF Succ
  <2>3. m[Top] = s /\ m[NextOf(p)] = s
    BY <1>1, <2>1, <2>2 DEF Ring
  <2> QED BY <2>1, <2>3
<1>5. /\ r \in Seq(Nodes) /\ Len(r) = n + 1 /\ r[1] = i /\ r[2] = s /\ r[n+1] = p
      /\ \A q \in 2..n+1 : r[q] = l[q-1]
  <2>1. <<i>> \in Seq(Nodes) /\ Len(<<i>>) = 1 /\ <<i>>[1] = i
    BY <1>4
  <2>2. /\ r \in Seq(Nodes) /\ Len(r) = n + 1
        /\ \A k \in 1..n+1 : r[k] = IF k <= 1 THEN i ELSE l[k-1]
    BY <1>1, <1>4, <2>1, ConcatProperties
  <2> QED BY <1>1, <1>4, <2>2
<1>6. /\ x1[1] # Top /\ x2[1] # Top /\ x3[1] # Top /\ y1[1] # Top /\ y2[1] # Top /\ y3[1] # Top
      /\ y4[1] # Top
  BY <1>2, CellsDiffer
<1>7. ASSUME NEW q \in 2..n+1
      PROVE  /\ \A c \in {x1[1], x2[1], x3[1], y1[1], y2[1], y3[1]} :
                  c # Live(r[q]) /\ c # NextOf(r[q])
             /\ y4[1] # Live(r[q])
             /\ y4[1] = NextOf(r[q]) => q = n + 1
  <2>1. q - 1 \in 1..n /\ n \in 1..n /\ r[q] = l[q-1] /\ r[q] # i /\ (r[q] = p => q - 1 = n)
    BY <1>1, <1>4, <1>5
  <2> QED BY <1>2, <2>1, CellsDiffer
<1>8. \A k \in 1..7 : k = 7 \/ o[k] \in {x1, x2, x3, y1, y2, y3}
  BY <1>3
<1>9. ASSUME NEW k \in 1..7
      PROVE  /\ o[k][1] # Top
             /\ \A q \in 2..n+1 : /\ o[k][1] # Live(r[q])
                                  /\ o[k][1] = NextOf(r[q]) => q = n + 1 /\ k = 7
  BY <1>3, <1>6, <1>7, <1>8
<1>10. Arrives(o, m, r)
  BY <1>2, <1>3, <1>4, <1>5, <1>9 DEF Arrives
<1>11. o = NewNode(i) \o (BeforeLinks(i, p, s) \o << <<Top, i>> >>)
  BY <1>2, <1>0 DEF NewNode, BeforeLinks
<1> QED BY <1>1, <1>10, <1>11

\* One write later, if there is another, it is still arriving.
LEMMA StillArrives ==
  \A U, m, o, l :
    /\ o \in Seq(Writes(U)) /\ DOMAIN m = Cells /\ l \in Seq(Nodes)
    /\ Arrives(o, m, l) /\ Tail(o) # <<>> /\ o # <<>>
    => Arrives(Tail(o), [m EXCEPT ![Head(o)[1]] = Head(o)[2]], l)
<1> SUFFICES ASSUME NEW U, NEW m, NEW o \in Seq(Writes(U)), NEW l \in Seq(Nodes), DOMAIN m = Cells,
                    Arrives(o, m, l), Tail(o) # <<>>, o # <<>>
             PROVE  Arrives(Tail(o), [m EXCEPT ![Head(o)[1]] = Head(o)[2]], l)
  OBVIOUS
<1>1. PICK w, r, e, n : w = Head(o) /\ r = Tail(o) /\ e = Len(o) /\ n = Len(l)
  OBVIOUS
<1>2. /\ e \in Nat /\ e > 1 /\ w = o[1] /\ Len(r) = e - 1
      /\ \A k \in 1..e-1 : r[k] = o[k+1]
  BY <1>1, LenProperties, EmptySeq, HeadTailProperties
<1>3. PICK mm : mm = [m EXCEPT ![w[1]] = w[2]]
  OBVIOUS
<1>4. /\ n \in Nat /\ n >= 1 /\ o[e] = <<Top, l[1]>>
      /\ m[Top] = IF n = 1 THEN Null ELSE l[2]
      /\ n > 1 => m[NextOf(l[n])] = l[2]
      /\ \A k \in 1..e-1 :
           /\ o[k][1] # Top
           /\ \A q \in 2..n : /\ o[k][1] # Live(l[q])
                              /\ o[k][1] = NextOf(l[q]) => q = n /\ k = e - 1
  BY <1>1, <1>2, LenProperties DEF Arrives
<1>5. mm[Top] = m[Top]
  <2>1. w[1] # Top
    BY <1>2, <1>4
  <2> QED BY <1>3, <2>1, CellsDiffer
<1>6. n > 1 /\ e - 1 > 1 => mm[NextOf(l[n])] = m[NextOf(l[n])]
  <2> SUFFICES ASSUME n > 1, e - 1 > 1 PROVE mm[NextOf(l[n])] = m[NextOf(l[n])]
    OBVIOUS
  <2>1. w[1] # NextOf(l[n])
    <3>1. 1 \in 1..e-1 /\ 1 # e - 1 /\ n \in 2..n
      BY <1>2, <1>4
    <3> QED BY <1>2, <1>4, <3>1
  <2> QED BY <1>3, <2>1
<1>7. r[e-1] = <<Top, l[1]>>
  BY <1>2, <1>4
<1>8. ASSUME NEW k \in 1..(e-1)-1
      PROVE  /\ r[k][1] # Top
             /\ \A q \in 2..n : /\ r[k][1] # Live(l[q])
                                /\ r[k][1] = NextOf(l[q]) => q = n /\ k = (e - 1) - 1
  <2>1. k + 1 \in 1..e-1 /\ k \in 1..e-1 /\ (k + 1 = e - 1 => k = (e - 1) - 1)
    BY <1>2
  <2> QED BY <1>2, <1>4, <2>1
<1>9. Arrives(r, mm, l)
  BY <1>1, <1>2, <1>4, <1>5, <1>6, <1>7, <1>8 DEF Arrives
<1> QED BY <1>1, <1>3, <1>9

\* An operation of the owner leaves the other thread at rest.
LEMMA OwnersAlone ==
  \A ws, list : RingInv /\ ~overlapped' /\ Begin("owner", ws, list) => Idle("other")'
  BY BeginMakes DEF Idle, Threads

LEMMA FirstKeepsFront ==
  ASSUME RingInv, ~overlapped', NEW i \in Nodes, NEW t \in Threads, AddFirst(t, i) PROVE AtFront'
<1>1. PICK m, l : m = mem /\ l = linked
  OBVIOUS
<1> DEFINE c == << <<Top, i>> >>
           b == IF m[Top] = Null THEN <<>> ELSE AddBefore(m[Top], i)
<1>2. Insert(t, i, b \o c, <<i>> \o l)
  BY <1>1 DEF AddFirst
<1>3. Begin(t, NewNode(i) \o (b \o c), <<i>> \o l)
  BY <1>2 DEF Insert
<1>4. CASE t = "owner"
  BY <1>3, <1>4, OwnersAlone DEF AtFront
<1>5. CASE t = "other"
  <2>1. todo'["other"] = NewNode(i) \o (b \o c) /\ linked' = <<i>> \o l /\ mem' = m
    BY <1>1, <1>3, <1>5, BeginMakes
  <2>2. Begins(used', m, l, i) /\ (m[Top] = Null <=> l = <<>>)
    BY <1>1, <1>2, InsertBegins
  <2>3. Arrives(NewNode(i) \o (b \o c), m, <<i>> \o l)
    <3>1. CASE l = <<>>
      <4>1. b \o c = c /\ <<i>> \o l = <<i>>
        <5>1. b = <<>> /\ c \in Seq({<<Top, i>>}) /\ <<i>> \in Seq({i})
          BY <2>2, <3>1
        <5> HIDE DEF b, c
        <5> QED BY <3>1, <5>1, ConcatEmptySeq
      <4>2. Arrives(NewNode(i) \o c, m, <<i>>)
        BY <2>2, <3>1, ArrivesAlone
      <4> QED BY <4>1, <4>2
    <3>2. CASE l # <<>>
      <4>1. b = BeforeLinks(i, l[Len(l)], l[1])
        BY <1>1, <1>2, <2>2, <3>2, InsertAims
      <4> QED BY <2>2, <3>2, <4>1, ArrivesBefore
    <3> QED BY <3>1, <3>2
  <2> QED BY <2>1, <2>3 DEF AtFront
<1> QED BY <1>4, <1>5 DEF Threads

LEMMA WriteKeepsFront == ASSUME RingInv, AtFront, NEW t \in Threads, Write(t) PROVE AtFront'
<1> SUFFICES ASSUME ~Idle("other")' PROVE Arrives(todo'["other"], mem', linked')
  BY DEF AtFront
<1>1. PICK m, o, l : m = mem /\ o = todo["other"] /\ l = linked
  OBVIOUS
<1>2. /\ todo \in [Threads -> Seq(Writes(used))] /\ DOMAIN m = Cells /\ l \in Seq(Nodes)
      /\ Idle("owner") \/ Idle("other")
  BY <1>1 DEF RingInv, Base
<1>3. t = "other"
  BY <1>2 DEF Write, Idle, Threads
<1>4. /\ o # <<>> /\ mem' = [m EXCEPT ![Head(o)[1]] = Head(o)[2]] /\ linked' = l
      /\ todo' = [todo EXCEPT !["other"] = Tail(o)]
  BY <1>1, <1>3 DEF Write, Idle
<1>5. todo'["other"] = Tail(o) /\ Tail(o) # <<>> /\ o \in Seq(Writes(used))
  BY <1>1, <1>2, <1>4 DEF Idle, Threads
<1>6. Arrives(o, m, l)
  BY <1>1, <1>4 DEF AtFront, Idle
<1>7. PICK U : U = used
  OBVIOUS
<1>8. Arrives(Tail(o), [m EXCEPT ![Head(o)[1]] = Head(o)[2]], l)
  <2>1. o \in Seq(Writes(U))
    BY <1>5, <1>7
  <2> QED BY <1>2, <1>4, <1>5, <1>6, <2>1, StillArrives
<1> QED BY <1>4, <1>5, <1>8

LEMMA FrontStep == RingInv /\ ~overlapped' /\ AtFront /\ [Next]_vars => AtFront'
<1> SUFFICES ASSUME RingInv, ~overlapped', AtFront, [Next]_vars PROVE AtFront'
  OBVIOUS
<1>1. CASE UNCHANGED <<mem, todo, linked>>
  BY <1>1 DEF AtFront, Idle
<1>2. CASE \/ \E i \in Nodes : AddLast(i) \/ AddInside(i) \/ AddRefused(i)
           \/ RemoveTimer \/ RemoveFd
  <2>1. PICK ws, list : Begin("owner", ws, list)
    BY <1>2 DEF AddLast, AddInside, AddRefused, RemoveTimer, RemoveFd, Insert
  <2> QED BY <2>1, OwnersAlone DEF AtFront
<1>3. ASSUME NEW i \in Nodes, NEW t \in Threads, AddFirst(t, i) PROVE AtFront'
  BY <1>3, FirstKeepsFront
<1>4. ASSUME NEW t \in Threads, Write(t) PROVE AtFront'
  BY <1>4, WriteKeepsFront
<1>5. CASE Step
  <2>1. CASE ~walk.frees
    BY <1>1, <1>5, <2>1 DEF Step
  <2>2. CASE walk.frees
    BY <1>5, <2>2 DEF Step, RingInv, Base, Quiet, Idle, Threads, AtFront
  <2> QED BY <2>1, <2>2
<1>6. ASSUME NEW frees \in BOOLEAN, BeginWalk(frees) PROVE AtFront'
  BY <1>1, <1>6 DEF BeginWalk
<1>7. CASE UNCHANGED vars
  BY <1>1, <1>7 DEF vars
<1> QED BY <1>2, <1>3, <1>4, <1>5, <1>6, <1>7 DEF Next

\* The nodes of l from p to q.
Span(l, p, q) == {l[j] : j \in p..q}

\* A walk that began at p has met what is from there to q, all round if q is
\* in front of p.
Met(met, l, p, q) ==
  \/ q >= p /\ ToSet(met) = Span(l, p, q - 1)
  \/ /\ q < p /\ Span(l, p, Len(l)) \subseteq ToSet(met)
     /\ ToSet(met) \subseteq Span(l, p, Len(l)) \cup Span(l, 1, q - 1)

\* The walk is from p, now at q, of the list l, while another thread has the
\* writes o left: it began behind the node that is put in front, and is at
\* that node only when it is linked.
At(first, cur, frees, met, begun, l, o, p, q) ==
  /\ p \in 1..Len(l) /\ q \in 1..Len(l)
  /\ first = l[p] /\ cur = l[q] /\ begun = Span(l, p, Len(l))
  /\ IsInjective(met) /\ Met(met, l, p, q)
  /\ o # <<>> => p # 1 /\ (q = 1 => Len(o) = 1)
  /\ frees => p = 1

OnItsWay(w, l, o) == \E p, q : At(w.first, w.cur, w.frees, w.met, w.begun, l, o, p, q)

WalkInv ==
  /\ walk.met \in Seq(Nodes)
  /\ Walking => Idle("owner") /\ OnItsWay(walk, linked, todo["other"])
  /\ ~Walking => IsInjective(walk.met) /\ (walk.met # <<>> => walk.begun \subseteq ToSet(walk.met))

\* A node put in front moves the walk one place on.
LEMMA WalkOfLonger ==
  ASSUME NEW l \in Seq(Nodes), NEW i \in Nodes, NEW w, NEW o, ~w.frees, OnItsWay(w, l, <<>>)
  PROVE  OnItsWay(w, <<i>> \o l, o)
<1>1. PICK n, r : n = Len(l) /\ r = <<i>> \o l
  OBVIOUS
<1>2. /\ n \in Nat /\ Len(r) = n + 1
      /\ \A k \in 1..n : r[k+1] = l[k]
  <2>1. <<i>> \in Seq(Nodes) /\ Len(<<i>>) = 1
    OBVIOUS
  <2>2. n \in Nat /\ Len(r) = n + 1 /\ \A k \in 1..n+1 : r[k] = IF k <= 1 THEN <<i>>[1] ELSE l[k-1]
    BY <1>1, <2>1, ConcatProperties, LenProperties
  <2>3. \A k \in 1..n : k + 1 \in 1..n+1 /\ ~(k + 1 <= 1) /\ (k + 1) - 1 = k
    BY <2>2
  <2> QED BY <2>2, <2>3
<1>3. PICK p, q : At(w.first, w.cur, w.frees, w.met, w.begun, l, <<>>, p, q)
  BY DEF OnItsWay
<1>4. p \in 1..n /\ q \in 1..n
  BY <1>1, <1>3 DEF At
<1>5. ASSUME NEW a \in 1..n+1, NEW b \in 0..n PROVE Span(r, a + 1, b + 1) = Span(l, a, b)
  <2>1. ASSUME NEW x \in Span(r, a + 1, b + 1) PROVE x \in Span(l, a, b)
    <3>1. PICK j \in (a+1)..(b+1) : x = r[j]
      BY <2>1 DEF Span
    <3>2. j - 1 \in a..b /\ j - 1 \in 1..n /\ (j - 1) + 1 = j
      BY <1>2, <1>5, <3>1
    <3>3. x = l[j-1]
      BY <1>2, <3>1, <3>2
    <3> QED BY <3>2, <3>3 DEF Span
  <2>2. ASSUME NEW x \in Span(l, a, b) PROVE x \in Span(r, a + 1, b + 1)
    <3>1. PICK j \in a..b : x = l[j]
      BY <2>2 DEF Span
    <3>2. j + 1 \in (a+1)..(b+1) /\ j \in 1..n
      BY <1>2, <1>5, <3>1
    <3>3. x = r[j+1]
      BY <1>2, <3>1, <3>2
    <3> QED BY <3>2, <3>3 DEF Span
  <2> QED BY <2>1, <2>2
<1>6. PICK pp, qq : pp = p + 1 /\ qq = q + 1
  OBVIOUS
<1>7. /\ Span(r, pp, n + 1) = Span(l, p, n) /\ Span(r, pp, qq - 1) = Span(l, p, q - 1)
      /\ Span(l, 1, q - 1) \subseteq Span(r, 1, qq - 1)
  <2>1. n \in 0..n /\ q - 1 \in 0..n /\ (q - 1) + 1 = qq - 1 /\ 1 \in 1..n+1 /\ p \in 1..n+1
    BY <1>2, <1>4, <1>6
  <2>2. Span(r, pp, n + 1) = Span(l, p, n) /\ Span(r, pp, qq - 1) = Span(l, p, q - 1)
    BY <1>5, <1>6, <2>1
  <2>3. Span(l, 1, q - 1) = Span(r, 2, qq - 1)
    BY <1>5, <2>1
  <2>4. Span(r, 2, qq - 1) \subseteq Span(r, 1, qq - 1)
    BY <1>4, <1>6 DEF Span
  <2> QED BY <2>2, <2>3, <2>4
<1>8. Met(w.met, r, pp, qq)
  <2>1. (qq >= pp <=> q >= p) /\ (qq < pp <=> q < p)
    BY <1>2, <1>4, <1>6
  <2>2. Met(w.met, l, p, q)
    BY <1>3 DEF At
  <2>3. CASE q >= p /\ ToSet(w.met) = Span(l, p, q - 1)
    BY <1>7, <2>1, <2>3 DEF Met
  <2>4. CASE /\ q < p /\ Span(l, p, n) \subseteq ToSet(w.met)
             /\ ToSet(w.met) \subseteq Span(l, p, n) \cup Span(l, 1, q - 1)
    BY <1>2, <1>7, <2>1, <2>4 DEF Met
  <2> QED BY <1>1, <2>2, <2>3, <2>4 DEF Met
<1>9. /\ pp \in 1..n+1 /\ qq \in 1..n+1 /\ pp # 1 /\ qq # 1 /\ r[pp] = l[p] /\ r[qq] = l[q]
  BY <1>2, <1>4, <1>6
<1>10. At(w.first, w.cur, w.frees, w.met, w.begun, r, o, pp, qq)
  BY <1>1, <1>2, <1>3, <1>7, <1>8, <1>9 DEF At
<1> QED BY <1>1, <1>10 DEF OnItsWay

\* The owner goes on from q: to the next node, or past the one that arrives.
Goes(l, o, q, next) ==
  \/ /\ next = l[Succ(q, Len(l))]
     /\ q = Len(l) /\ o # <<>> => Len(o) = 1
  \/ /\ o # <<>> /\ q = Len(l) /\ Len(l) > 1 /\ next = l[2]

\* The walk has met one node more, and is on its way or back at its start.
GoneOn(first, cur, frees, met, begun, l, o, p, next) ==
  LET r == Append(met, cur) IN
    /\ r \in Seq(Nodes) /\ IsInjective(r)
    /\ ToSet(r) = ToSet(met) \cup {cur} /\ cur \notin ToSet(met)
    /\ next = first => begun \subseteq ToSet(r)
    /\ next # first => \E s : At(first, next, frees, r, begun, l, o, p, s)

LEMMA WalkGoesOn ==
  ASSUME NEW first, NEW cur, NEW frees, NEW met \in Seq(Nodes), NEW begun, NEW o, NEW p, NEW q,
         NEW next, NEW l \in Seq(Nodes), IsInjective(l),
         At(first, cur, frees, met, begun, l, o, p, q), Goes(l, o, q, next)
  PROVE  GoneOn(first, cur, frees, met, begun, l, o, p, next)
<1>1. PICK n, r : n = Len(l) /\ r = Append(met, cur)
  OBVIOUS
<1>2. /\ n \in Nat /\ p \in 1..n /\ q \in 1..n
      /\ \A j \in 1..n : l[j] \in Nodes
      /\ \A j, k \in 1..n : l[j] = l[k] => j = k
      /\ first = l[p] /\ cur = l[q] /\ begun = Span(l, p, n) /\ IsInjective(met)
      /\ o # <<>> => p # 1 /\ (q = 1 => Len(o) = 1)
      /\ frees => p = 1
  <2>1. n \in Nat /\ DOMAIN l = 1..n /\ \A j \in 1..n : l[j] \in Nodes
    BY <1>1, LenProperties, ElementOfSeq
  <2> QED BY <1>1, <2>1 DEF At, IsInjective
<1>3. \A a, b \in 0..n : q \notin a..b /\ a >= 1 => cur \notin Span(l, a, b)
  <2> SUFFICES ASSUME NEW a \in 0..n, NEW b \in 0..n, q \notin a..b, a >= 1, cur \in Span(l, a, b)
               PROVE  FALSE
    OBVIOUS
  <2>1. PICK j \in a..b : cur = l[j]
    BY DEF Span
  <2>2. j \in 1..n /\ j # q
    BY <1>2, <2>1
  <2> QED BY <1>2, <2>1, <2>2
<1>4. CASE q >= p /\ ToSet(met) = Span(l, p, q - 1)
  <2>1. cur \notin ToSet(met)
    BY <1>2, <1>3, <1>4
  <2>2. r \in Seq(Nodes) /\ IsInjective(r) /\ ToSet(r) = ToSet(met) \cup {cur}
    BY <1>1, <1>2, <2>1, AppendElements
  <2>3. ToSet(r) = Span(l, p, q)
    BY <1>2, <1>4, <2>2 DEF Span
  <2>4. CASE q < n
    <3>1. next = l[q+1] /\ q + 1 \in 1..n
      BY <1>1, <1>2, <2>4 DEF Goes, Succ
    <3>2. next # first
      BY <1>2, <1>4, <3>1
    <3>3. PICK s : s = q + 1
      OBVIOUS
    <3>4. Met(r, l, p, s)
      BY <1>2, <1>4, <2>3, <3>3 DEF Met
    <3>5. At(first, next, frees, r, begun, l, o, p, s)
      BY <1>1, <1>2, <2>2, <3>1, <3>3, <3>4 DEF At
    <3> QED BY <1>1, <2>1, <2>2, <3>2, <3>5 DEF GoneOn
  <2>5. CASE q = n
    <3>1. begun = ToSet(r)
      BY <1>2, <2>3, <2>5
    <3>2. PICK s \in 1..n : /\ next = l[s] /\ (s = 1 \/ (s = 2 /\ o # <<>>))
                            /\ s = 1 /\ o # <<>> => Len(o) = 1
      <4>1. CASE next = l[1] /\ (o # <<>> => Len(o) = 1)
        <5>1. 1 \in 1..n
          BY <1>2
        <5> QED BY <4>1, <5>1
      <4>2. CASE o # <<>> /\ n > 1 /\ next = l[2]
        <5>1. 2 \in 1..n
          BY <1>2, <4>2
        <5> QED BY <4>2, <5>1
      <4> QED BY <1>1, <2>5, <4>1, <4>2 DEF Goes, Succ
    <3>3. ASSUME next # first PROVE At(first, next, frees, r, begun, l, o, p, s)
      <4>1. s < p
        BY <1>2, <3>2, <3>3
      <4>2. Met(r, l, p, s)
        BY <1>1, <1>2, <3>1, <4>1 DEF Met
      <4> QED BY <1>1, <1>2, <2>2, <3>2, <4>2 DEF At
    <3> QED BY <1>1, <2>1, <2>2, <3>1, <3>3 DEF GoneOn
  <2> QED BY <1>2, <2>4, <2>5
<1>5. CASE /\ q < p /\ Span(l, p, n) \subseteq ToSet(met)
           /\ ToSet(met) \subseteq Span(l, p, n) \cup Span(l, 1, q - 1)
  <2>1. cur \notin ToSet(met)
    <3>1. cur \notin Span(l, p, n) /\ cur \notin Span(l, 1, q - 1)
      BY <1>2, <1>3, <1>5
    <3> QED BY <1>5, <3>1
  <2>2. r \in Seq(Nodes) /\ IsInjective(r) /\ ToSet(r) = ToSet(met) \cup {cur}
    BY <1>1, <1>2, <2>1, AppendElements
  <2>3. ToSet(r) \subseteq Span(l, p, n) \cup Span(l, 1, q) /\ begun \subseteq ToSet(r)
    <3>1. Span(l, 1, q - 1) \cup {cur} \subseteq Span(l, 1, q)
      BY <1>2 DEF Span
    <3> QED BY <1>2, <1>5, <2>2, <3>1
  <2>4. next = l[q+1] /\ q + 1 \in 1..n
    BY <1>1, <1>2, <1>5 DEF Goes, Succ
  <2>5. ASSUME next # first PROVE At(first, next, frees, r, begun, l, o, p, q + 1)
    <3>1. PICK s : s = q + 1
      OBVIOUS
    <3>2. s < p /\ s - 1 = q /\ s # 1
      BY <1>2, <1>5, <2>4, <2>5, <3>1
    <3>3. Met(r, l, p, s)
      BY <1>1, <1>2, <2>3, <3>2 DEF Met
    <3>4. At(first, next, frees, r, begun, l, o, p, s)
      BY <1>1, <1>2, <2>2, <2>4, <3>1, <3>2, <3>3 DEF At
    <3> QED BY <3>1, <3>4
  <2> QED BY <1>1, <2>1, <2>2, <2>3, <2>5 DEF GoneOn
<1> QED BY <1>1, <1>4, <1>5 DEF At, Met

\* Where the owner's walk is, the links and the node it reads are those of
\* the ring, but for the last node before the one that arrives is linked.
LEMMA WhereItGoes ==
  \A p, q :
    RingInv /\ AtFront /\ Idle("owner")
      /\ At(walk.first, walk.cur, walk.frees, walk.met, walk.begun, linked, todo["other"], p, q)
    => /\ Goes(linked, todo["other"], q, mem[NextOf(walk.cur)])
       /\ walk.cur \in Nodes /\ walk.cur \in used /\ walk.cur \in ToSet(linked)
       /\ ~refused /\ ~walk.frees => mem[Live(walk.cur)]
<1> SUFFICES ASSUME NEW p, NEW q, RingInv, AtFront, Idle("owner"),
                    At(walk.first, walk.cur, walk.frees, walk.met, walk.begun, linked,
                       todo["other"], p, q)
             PROVE  /\ Goes(linked, todo["other"], q, mem[NextOf(walk.cur)])
                    /\ walk.cur \in Nodes /\ walk.cur \in used /\ walk.cur \in ToSet(linked)
                    /\ ~refused /\ ~walk.frees => mem[Live(walk.cur)]
  OBVIOUS
<1>1. PICK m, l, o, n, e, x :
        m = mem /\ l = linked /\ o = todo["other"] /\ n = Len(l) /\ e = Len(o) /\ x = walk.cur
  OBVIOUS
<1>2. /\ q \in 1..n /\ x = l[q] /\ (o # <<>> /\ q = 1 => e = 1)
  BY <1>1 DEF At
<1>3. /\ l \in Seq(used) /\ used \subseteq Nodes /\ o \in Seq(Writes(used))
  BY <1>1 DEF RingInv, Base, Threads
<1>4. n \in Nat /\ DOMAIN l = 1..n /\ e \in Nat /\ DOMAIN o = 1..e /\ (o = <<>> <=> e = 0)
  BY <1>1, <1>3, LenProperties, EmptySeq
<1>5. x \in used /\ x \in Nodes /\ x \in ToSet(l)
  BY <1>1, <1>2, <1>3, <1>4, ElementOfSeq DEF ToSet
<1>6. Left = o
  BY <1>1 DEF Left
<1>7. PICK g : /\ Settles(g, m, o) /\ Ring(g, l)
               /\ ~refused /\ ~walk.frees => \A k \in used : g[Live(k)] <=> k \in ToSet(l)
  BY <1>1, <1>6 DEF RingInv, WillBeRing
<1>8. /\ g[NextOf(x)] = l[Succ(q, n)]
      /\ ~refused /\ ~walk.frees => g[Live(x)]
  BY <1>1, <1>2, <1>5, <1>7 DEF Ring
<1>9. o # <<>> => Arrives(o, m, l)
  BY <1>1 DEF AtFront, Idle
<1>10. ASSUME NEW c \in Cells, NEW k \in 1..e, o[k][1] = c, c = NextOf(x) \/ c = Live(x)
       PROVE  c = NextOf(x) /\ q = n /\ e > 1
  <2>1. /\ o[e] = <<Top, l[1]>>
        /\ \A j \in 1..e-1 : \A h \in 2..n : /\ o[j][1] # Live(l[h])
                                             /\ o[j][1] = NextOf(l[h]) => h = n
    BY <1>1, <1>4, <1>9, <1>10 DEF Arrives
  <2>2. c # Top
    BY <1>10, CellsDiffer
  <2>3. k # e
    BY <1>10, <2>1, <2>2
  <2>4. k \in 1..e-1 /\ e > 1 /\ q \in 2..n
    BY <1>2, <1>4, <1>10, <2>3
  <2>5. c # Live(x)
    BY <1>2, <1>10, <2>1, <2>4
  <2>6. c = NextOf(x)
    BY <1>10, <2>5
  <2> QED BY <1>2, <1>10, <2>1, <2>4, <2>6
<1>11. \A c \in Cells : m[c] = g[c] \/ \E k \in 1..e : o[k][1] = c
  <2> SUFFICES ASSUME NEW c \in Cells, m[c] # g[c] PROVE \E k \in 1..e : o[k][1] = c
    OBVIOUS
  <2>1. PICK k \in DOMAIN o : o[k] = <<c, g[c]>>
    BY <1>7 DEF Settles
  <2> QED BY <1>4, <2>1
<1>12. ~refused /\ ~walk.frees => m[Live(x)]
  <2>1. Live(x) \in Cells /\ Live(x) # NextOf(x)
    BY <1>5, CellsDiffer
  <2> QED BY <1>8, <1>10, <1>11, <2>1
<1>13. Goes(l, o, q, m[NextOf(x)])
  <2>1. NextOf(x) \in Cells
    BY <1>5, CellsDiffer
  <2>2. CASE o # <<>> /\ e > 1 /\ q = n
    <3>1. n > 1 /\ m[NextOf(x)] = l[2]
      BY <1>1, <1>2, <1>4, <1>9, <2>2 DEF Arrives
    <3> QED BY <1>1, <2>2, <3>1 DEF Goes
  <2>3. CASE ~(o # <<>> /\ e > 1 /\ q = n)
    <3>1. m[NextOf(x)] = l[Succ(q, n)]
      BY <1>4, <1>8, <1>10, <1>11, <2>1, <2>3
    <3>2. q = n /\ o # <<>> => e = 1
      BY <1>4, <2>3
    <3> QED BY <1>1, <3>1, <3>2 DEF Goes
  <2> QED BY <2>2, <2>3
<1> QED BY <1>1, <1>5, <1>12, <1>13

LEMMA BeginWalkIsOnItsWay ==
  ASSUME RingInv, AtFront, NEW frees \in BOOLEAN, BeginWalk(frees) PROVE WalkInv'
<1>1. PICK m, l, o, n : m = mem /\ l = linked /\ o = todo["other"] /\ n = Len(l)
  OBVIOUS
<1>2. /\ m[Top] # Null /\ Idle("owner") /\ (frees => o = <<>>) /\ ~walk.frees
      /\ mem' = m /\ todo' = todo /\ linked' = l
      /\ walk' = [first |-> m[Top], cur |-> m[Top], frees |-> frees,
                  met |-> <<>>, begun |-> ToSet(l) \ Arriving]
  BY <1>1 DEF BeginWalk, Idle
<1>3. /\ l \in Seq(Nodes) /\ n \in Nat /\ DOMAIN l = 1..n /\ (l = <<>> <=> n = 0)
      /\ IsInjective(l) /\ o \in Seq(Writes(used))
  BY <1>1, LenProperties, EmptySeq DEF RingInv, Base, Threads
<1>4. \A j, k \in 1..n : l[j] = l[k] => j = k
  BY <1>3 DEF IsInjective
<1>5. ASSUME NEW p \in 1..n, m[Top] = l[p], ToSet(l) \ Arriving = Span(l, p, n),
             o # <<>> => p # 1, frees => p = 1
      PROVE  At(m[Top], m[Top], frees, <<>>, ToSet(l) \ Arriving, l, o, p, p)
  <2>1. IsInjective(<<>>) /\ ToSet(<<>>) = {}
    BY DEF IsInjective, ToSet
  <2>2. Span(l, p, p - 1) = {}
    BY <1>3 DEF Span
  <2>3. Met(<<>>, l, p, p)
    <3>1. p >= p
      BY <1>3
    <3>2. ToSet(<<>>) = Span(l, p, p - 1)
      BY ONLY <2>1, <2>2
    <3> QED BY <3>1, <3>2 DEF Met
  <2> QED BY <1>1, <1>5, <2>1, <2>3 DEF At
<1>6. ToSet(l) = Span(l, 1, n)
  BY <1>3 DEF ToSet, Span
<1>7. \E p : At(m[Top], m[Top], frees, <<>>, ToSet(l) \ Arriving, l, o, p, p)
  <2>1. CASE o = <<>>
    <3>1. Quiet /\ Arriving = {}
      BY <1>1, <1>2, <2>1 DEF Quiet, Idle, Threads, Arriving
    <3>2. Ring(m, l)
      BY <1>1, <3>1, QuietRing
    <3>3. m[Top] = l[1] /\ 1 \in 1..n
      BY <1>2, <1>3, <3>2 DEF Ring
    <3> QED BY <1>5, <1>6, <2>1, <3>1, <3>3
  <2>2. CASE o # <<>>
    <3>1. Arrives(o, m, l)
      BY <1>1, <2>2 DEF AtFront, Idle
    <3>2. n > 1 /\ m[Top] = l[2] /\ 2 \in 1..n /\ 1 \in 1..n
      BY <1>1, <1>2, <1>3, <3>1 DEF Arrives
    <3>3. Arriving = {l[1]}
      <4>1. o[Len(o)] = <<Top, l[1]>>
        BY <3>1 DEF Arrives
      <4>2. Arriving = {o[Len(o)][2]}
        BY <1>1, <2>2 DEF Arriving, Idle, Last
      <4> QED BY <4>1, <4>2
    <3>4. Span(l, 1, n) \ {l[1]} = Span(l, 2, n)
      BY <1>3, <1>4, <3>2 DEF Span
    <3>5. ToSet(l) \ Arriving = Span(l, 2, n) /\ ~frees
      BY <1>2, <1>6, <2>2, <3>3, <3>4
    <3> QED BY <1>5, <3>2, <3>5
  <2> QED BY <2>1, <2>2
<1>8. OnItsWay(walk', l, o)
  BY <1>2, <1>7 DEF OnItsWay
<1>9. walk'.met \in Seq(Nodes) /\ walk'.cur # Null
  BY <1>2
<1> QED BY <1>1, <1>2, <1>8, <1>9 DEF WalkInv, Walking, Idle

LEMMA StepIsOnItsWay == ASSUME RingInv, AtFront, WalkInv, Step PROVE WalkInv'
<1>1. PICK l, o, x, next : l = linked /\ o = todo["other"] /\ x = walk.cur /\ next = mem[NextOf(x)]
  OBVIOUS
<1>2. /\ Walking /\ UNCHANGED <<todo, linked>>
      /\ walk' = [walk EXCEPT !.met = Append(@, x),
                              !.cur = IF next = walk.first THEN Null ELSE next]
  BY <1>1 DEF Step
<1>3. Idle("owner") /\ walk.met \in Seq(Nodes)
  BY <1>2 DEF WalkInv
<1>4. PICK p, q : At(walk.first, walk.cur, walk.frees, walk.met, walk.begun, l, o, p, q)
  BY <1>1, <1>2 DEF WalkInv, OnItsWay
<1>5. /\ l \in Seq(Nodes) /\ IsInjective(l) /\ Goes(l, o, q, next)
  BY <1>1, <1>3, <1>4, WhereItGoes DEF RingInv, Base
<1>6. PICK met, first, frees, begun :
        met = walk.met /\ first = walk.first /\ frees = walk.frees /\ begun = walk.begun
  OBVIOUS
<1>7. /\ Append(met, x) \in Seq(Nodes) /\ IsInjective(Append(met, x))
      /\ next = first => begun \subseteq ToSet(Append(met, x))
      /\ next # first => \E s : At(first, next, frees, Append(met, x), begun, l, o, p, s)
  <2>1. At(first, x, frees, met, begun, l, o, p, q) /\ met \in Seq(Nodes)
    BY <1>1, <1>3, <1>4, <1>6
  <2>2. GoneOn(first, x, frees, met, begun, l, o, p, next)
    BY <1>5, <2>1, WalkGoesOn
  <2> QED BY <2>2 DEF GoneOn
<1>8. /\ walk'.met = Append(met, x) /\ walk'.first = first /\ walk'.frees = frees
      /\ walk'.begun = begun /\ walk'.cur = IF next = first THEN Null ELSE next
  BY <1>2, <1>6 DEF RingInv, Base
<1>9. Walking' => OnItsWay(walk', l, o)
  BY <1>7, <1>8 DEF Walking, OnItsWay
<1>10. ~Walking' => begun \subseteq ToSet(Append(met, x))
  <2>1. next # first => next # Null
    <3> SUFFICES ASSUME next # first PROVE next # Null
      OBVIOUS
    <3>1. PICK s : At(first, next, frees, Append(met, x), begun, l, o, p, s)
      BY <1>7
    <3>2. next \in Nodes
      BY <1>5, <3>1, LenProperties, ElementOfSeq DEF At
    <3> QED BY <3>2, NullAssumption
  <2> QED BY <1>7, <1>8, <2>1 DEF Walking
<1>11. Idle("owner")'
  BY <1>2, <1>3 DEF Idle
<1> QED BY <1>1, <1>2, <1>7, <1>8, <1>9, <1>10, <1>11 DEF WalkInv

\* An operation that begins takes the walk with it.
LEMMA BeginIsOnItsWay ==
  ASSUME RingInv, ~overlapped', WalkInv,
         \/ \E ws, list : Begin("owner", ws, list)
         \/ \E t \in Threads, i \in Nodes : AddFirst(t, i)
  PROVE  WalkInv'
<1>1. CASE \E ws, list : Begin("owner", ws, list)
  <2>1. walk' = NoWalk
    BY <1>1 DEF Begin
  <2>2. walk'.met = <<>> /\ walk'.cur = Null /\ IsInjective(<<>>)
    BY <2>1 DEF NoWalk, IsInjective
  <2> QED BY <2>2 DEF WalkInv, Walking
<1>2. ASSUME NEW i \in Nodes, AddFirst("other", i) PROVE WalkInv'
  <2>1. PICK l, w, ws : /\ l = linked /\ w = walk
                        /\ Begin("other", ws, <<i>> \o l)
    BY <1>2 DEF AddFirst, Insert
  <2>2. /\ walk' = w /\ linked' = <<i>> \o l /\ ~w.frees
        /\ Quiet /\ Idle("owner")'
    BY <2>1, BeginMakes DEF Begin, Threads, Idle
  <2>3. l \in Seq(Nodes)
    BY <2>1 DEF RingInv, Base
  <2>4. Walking => OnItsWay(w, l, <<>>)
    BY <2>1, <2>2 DEF WalkInv, Quiet, Idle, Threads
  <2>5. PICK o : o = todo'["other"]
    OBVIOUS
  <2>6. Walking => OnItsWay(w, <<i>> \o l, o)
    BY <2>2, <2>3, <2>4, WalkOfLonger
  <2> QED BY <2>1, <2>2, <2>5, <2>6 DEF WalkInv, Walking
<1>3. ASSUME NEW i \in Nodes, AddFirst("owner", i) PROVE \E ws, list : Begin("owner", ws, list)
  BY <1>3 DEF AddFirst, Insert
<1> QED BY <1>1, <1>2, <1>3 DEF Threads

LEMMA WriteIsOnItsWay ==
  ASSUME RingInv, AtFront, WalkInv, NEW t \in Threads, Write(t) PROVE WalkInv'
<1>1. PICK l, w, o : l = linked /\ w = walk /\ o = todo["other"]
  OBVIOUS
<1>2. /\ walk' = w /\ linked' = l /\ todo' = [todo EXCEPT ![t] = Tail(todo[t])] /\ ~Idle(t)
  BY <1>1 DEF Write
<1>3. /\ todo \in [Threads -> Seq(Writes(used))] /\ o \in Seq(Writes(used))
  BY <1>1 DEF RingInv, Base, Threads
<1>4. ASSUME Walking PROVE Idle("owner")' /\ OnItsWay(w, l, todo'["other"])
  <2>1. Idle("owner") /\ t = "other" /\ o # <<>>
    BY <1>1, <1>2, <1>4 DEF WalkInv, Threads, Idle
  <2>2. todo'["other"] = Tail(o) /\ Idle("owner")'
    BY <1>1, <1>2, <1>3, <2>1 DEF Threads, Idle
  <2>3. PICK p, q : At(w.first, w.cur, w.frees, w.met, w.begun, l, o, p, q)
    BY <1>1, <1>4 DEF WalkInv, OnItsWay
  <2>4. Len(o) = 1 => Tail(o) = <<>>
    <3>1. Tail(o) \in Seq(Writes(used)) /\ Len(Tail(o)) = Len(o) - 1
      BY <1>3, <2>1, HeadTailProperties
    <3>2. PICK U, r : U = Writes(used) /\ r = Tail(o)
      OBVIOUS
    <3>3. Len(r) = 0 => r = <<>>
      BY <3>1, <3>2, EmptySeq
    <3> QED BY <3>1, <3>2, <3>3
  <2>5. At(w.first, w.cur, w.frees, w.met, w.begun, l, Tail(o), p, q)
    BY <2>1, <2>3, <2>4 DEF At
  <2> QED BY <2>2, <2>5 DEF OnItsWay
<1> QED BY <1>1, <1>2, <1>4 DEF WalkInv, Walking

LEMMA WalkStep == RingInv /\ ~overlapped' /\ AtFront /\ WalkInv /\ [Next]_vars => WalkInv'
<1> SUFFICES ASSUME RingInv, ~overlapped', AtFront, WalkInv, [Next]_vars PROVE WalkInv'
  OBVIOUS
<1>1. CASE \/ \E i \in Nodes : AddLast(i) \/ AddInside(i) \/ AddRefused(i)
           \/ RemoveTimer \/ RemoveFd
  <2>1. \E ws, list : Begin("owner", ws, list)
    BY <1>1 DEF AddLast, AddInside, AddRefused, RemoveTimer, RemoveFd, Insert
  <2> QED BY <2>1, BeginIsOnItsWay
<1>2. ASSUME NEW i \in Nodes, NEW t \in Threads, AddFirst(t, i) PROVE WalkInv'
  BY <1>2, BeginIsOnItsWay
<1>3. ASSUME NEW t \in Threads, Write(t) PROVE WalkInv'
  BY <1>3, WriteIsOnItsWay
<1>4. CASE Step
  BY <1>4, StepIsOnItsWay
<1>5. ASSUME NEW frees \in BOOLEAN, BeginWalk(frees) PROVE WalkInv'
  BY <1>5, BeginWalkIsOnItsWay
<1>6. CASE UNCHANGED vars
  BY <1>6 DEF vars, WalkInv, Walking, Idle
<1> QED BY <1>1, <1>2, <1>3, <1>4, <1>5, <1>6 DEF Next

-----------------------------------------------------------------------------
(* What is freed, and what is used.                                        *)

\* The walk that frees leaves allocated the nodes that it has not met; no
\* node that was freed has been used.
MemoryInv ==
  /\ ~refused => ~touched
  /\ walk.frees =>
       /\ walk.begun = ToSet(linked)
       /\ ~refused => \A n \in used : mem[Live(n)] <=> n \in ToSet(linked) \ ToSet(walk.met)
       /\ ~Walking => walk.met # <<>>

LEMMA WriteIsSafe ==
  ASSUME RingInv, Order, MemoryInv, NEW t \in Threads, Write(t) PROVE MemoryInv'
<1>1. PICK m, ws, w : m = mem /\ ws = todo[t] /\ w = Head(ws)
  OBVIOUS
<1>2. /\ ws # <<>> /\ touched' = (touched \/ (w[1][2] # "live" /\ Freed(w[1][1])))
      /\ walk' = walk /\ refused' = refused
  BY <1>1 DEF Write, Idle
<1>3. /\ todo \in [Threads -> Seq(Writes(used))] /\ used \subseteq Nodes
      /\ (Idle("owner") \/ Idle("other")) /\ (walk.frees => Quiet)
  BY DEF RingInv, Base
<1>4. Left = ws /\ ~walk.frees
  BY <1>1, <1>2, <1>3 DEF Left, Idle, Threads, Quiet
<1>5. /\ Len(ws) \in Nat \ {0} /\ 1 \in DOMAIN ws /\ w = ws[1]
  BY <1>1, <1>2, <1>3, LenProperties, EmptySeq, HeadTailProperties
<1>6. ASSUME ~refused, w[1][2] # "live" PROVE ~Freed(w[1][1])
  <2>1. InOrder(w, 1, Len(ws), m, w)
    BY <1>1, <1>4, <1>5, <1>6 DEF Order, Ordered
  <2>2. w[1] = Top \/ m[Live(w[1][1])] = TRUE \/ w = <<Live(w[1][1]), TRUE>>
    BY <1>6, <2>1 DEF InOrder
  <2>3. CASE w[1] = Top
    <3>1. w[1][1] = Null
      BY <2>3, CellsDiffer
    <3> QED BY <1>3, <3>1, NullAssumption DEF Freed
  <2>4. CASE m[Live(w[1][1])] = TRUE
    BY <1>1, <2>4 DEF Freed
  <2>5. w # <<Live(w[1][1]), TRUE>>
    <3>1. Live(w[1][1])[2] = "live"
      BY CellsDiffer
    <3>2. PICK c : c = Live(w[1][1])
      OBVIOUS
    <3>3. ASSUME w = <<c, TRUE>> PROVE w[1] = c
      BY <3>3
    <3> QED BY <1>6, <3>1, <3>2, <3>3
  <2> QED BY <2>2, <2>3, <2>4, <2>5
<1> QED BY <1>2, <1>4, <1>6 DEF MemoryInv

LEMMA StepIsSafe ==
  ASSUME RingInv, AtFront, WalkInv, MemoryInv, Step PROVE MemoryInv'
<1>1. PICK m, l, x, met, frees, begun :
        /\ m = mem /\ l = linked /\ x = walk.cur /\ met = walk.met /\ frees = walk.frees
        /\ begun = walk.begun
  OBVIOUS
<1>2. /\ Walking /\ UNCHANGED <<todo, linked, used, refused>>
      /\ \E next : walk' = [walk EXCEPT !.met = Append(@, x),
                                        !.cur = IF next = walk.first THEN Null ELSE next]
      /\ mem' = IF frees THEN [m EXCEPT ![Live(x)] = FALSE] ELSE m
      /\ touched' = (touched \/ Freed(x))
  <2>1. Walking /\ UNCHANGED <<todo, linked, used, refused>>
    BY DEF Step
  <2>2. \E next : walk' = [walk EXCEPT !.met = Append(@, x),
                                      !.cur = IF next = walk.first THEN Null ELSE next]
    BY <1>1, Zenon DEF Step
  <2>3. mem' = IF frees THEN [m EXCEPT ![Live(x)] = FALSE] ELSE m
    BY <1>1, Zenon DEF Step
  <2>4. touched' = (touched \/ Freed(x))
    BY <1>1, Zenon DEF Step
  <2> QED BY <2>1, <2>2, <2>3, <2>4, Zenon
<1>3. walk'.met = Append(met, x) /\ walk'.frees = frees /\ walk'.begun = begun
  BY <1>1, <1>2 DEF RingInv, Base
<1>4. Idle("owner") /\ met \in Seq(Nodes)
  BY <1>1, <1>2 DEF WalkInv
<1>5. PICK p, q :
        At(walk.first, walk.cur, walk.frees, walk.met, walk.begun, linked, todo["other"], p, q)
  BY <1>2 DEF WalkInv, OnItsWay
<1>6. /\ Goes(l, todo["other"], q, m[NextOf(x)])
      /\ x \in Nodes /\ x \in used /\ x \in ToSet(l)
      /\ ~refused /\ ~frees => m[Live(x)]
  BY <1>1, <1>4, <1>5, WhereItGoes
<1>7. ToSet(Append(met, x)) = ToSet(met) \cup {x} /\ x \notin ToSet(met)
  <2>1. PICK first, o, next :
          first = walk.first /\ o = todo["other"] /\ next = m[NextOf(x)]
    OBVIOUS
  <2>2. /\ At(first, x, frees, met, begun, l, o, p, q) /\ Goes(l, o, q, next)
        /\ l \in Seq(Nodes) /\ IsInjective(l)
    BY <1>1, <1>5, <1>6, <2>1 DEF RingInv, Base
  <2>3. GoneOn(first, x, frees, met, begun, l, o, p, next)
    BY <1>4, <2>2, WalkGoesOn
  <2> QED BY <2>3 DEF GoneOn
<1>8. ~refused => ~Freed(x)
  <2>1. ~refused /\ frees => m[Live(x)]
    BY <1>1, <1>6, <1>7 DEF MemoryInv
  <2> QED BY <1>1, <1>6, <2>1 DEF Freed
<1>9. ASSUME ~refused, frees, NEW n \in used
      PROVE  mem'[Live(n)] <=> n \in ToSet(l) \ ToSet(Append(met, x))
  <2>1. m[Live(n)] <=> n \in ToSet(l) \ ToSet(met)
    BY <1>1, <1>9 DEF MemoryInv
  <2>2. n \in Nodes /\ DOMAIN m = Cells
    BY <1>1 DEF RingInv, Base
  <2>3. CASE n = x
    BY <1>2, <1>7, <1>9, <2>2, <2>3, CellsDiffer
  <2>4. CASE n # x
    <3>1. mem'[Live(n)] = m[Live(n)]
      BY <1>2, <1>9, <2>2, <2>4, CellsDiffer
    <3> QED BY <1>7, <2>1, <2>4, <3>1
  <2> QED BY <2>3, <2>4
<1>10. Append(met, x) # <<>>
  BY <1>4, <1>6, AppendProperties, EmptySeq
<1>11. ~refused' => ~touched'
  BY <1>2, <1>8 DEF MemoryInv
<1>12. frees => begun = ToSet(l)
  BY <1>1 DEF MemoryInv
<1> QED BY <1>1, <1>2, <1>3, <1>9, <1>10, <1>11, <1>12 DEF MemoryInv

LEMMA BeginWalkIsSafe ==
  ASSUME RingInv, MemoryInv, NEW frees \in BOOLEAN, BeginWalk(frees) PROVE MemoryInv'
<1>1. /\ UNCHANGED <<mem, todo, linked, used, refused, touched>> /\ ~walk.frees
      /\ mem[Top] # Null /\ (frees => Idle("owner") /\ Idle("other"))
      /\ walk' = [first |-> mem[Top], cur |-> mem[Top], frees |-> frees,
                  met |-> <<>>, begun |-> ToSet(linked) \ Arriving]
  BY DEF BeginWalk
<1>2. ToSet(<<>>) = {} /\ walk'.met = <<>> /\ Walking'
  BY <1>1 DEF ToSet, Walking
<1>3. ASSUME frees
      PROVE  /\ Arriving = {}
             /\ ~refused => \A n \in used : mem[Live(n)] <=> n \in ToSet(linked)
  <2>1. Quiet /\ Arriving = {}
    BY <1>1, <1>3 DEF Quiet, Threads, Arriving
  <2> QED BY <1>1, <2>1, QuietRing
<1> QED BY <1>1, <1>2, <1>3 DEF MemoryInv

LEMMA MemoryStep ==
  RingInv /\ Order /\ AtFront /\ WalkInv /\ MemoryInv /\ [Next]_vars => MemoryInv'
<1> SUFFICES ASSUME RingInv, Order, AtFront, WalkInv, MemoryInv, [Next]_vars PROVE MemoryInv'
  OBVIOUS
<1>1. ASSUME NEW t \in Threads, NEW ws, NEW list, Begin(t, ws, list), ~refused' => ~refused
      PROVE  MemoryInv'
  <2>1. touched' = touched /\ ~walk.frees /\ (walk' = NoWalk \/ walk' = walk)
    BY <1>1 DEF Begin
  <2>2. ~walk'.frees
    BY <2>1 DEF NoWalk
  <2> QED BY <1>1, <2>1, <2>2 DEF MemoryInv
<1>2. CASE \/ \E i \in Nodes : AddLast(i) \/ AddInside(i) \/ AddRefused(i)
           \/ RemoveTimer \/ RemoveFd
           \/ \E i \in Nodes, t \in Threads : AddFirst(t, i)
  <2>1. \E t \in Threads : \E ws, list : Begin(t, ws, list)
    <3>1. CASE \E i \in Nodes, t \in Threads : AddFirst(t, i)
      BY <3>1 DEF AddFirst, Insert
    <3>2. CASE ~(\E i \in Nodes, t \in Threads : AddFirst(t, i))
      <4>1. \E ws, list : Begin("owner", ws, list)
        BY <1>2, <3>2 DEF AddLast, AddInside, AddRefused, RemoveTimer, RemoveFd, Insert
      <4> QED BY <4>1 DEF Threads
    <3> QED BY <3>1, <3>2
  <2>2. ~refused' => ~refused
    BY <1>2 DEF AddLast, AddInside, AddRefused, RemoveTimer, RemoveFd, AddFirst
  <2> QED BY <1>1, <2>1, <2>2
<1>3. ASSUME NEW t \in Threads, Write(t) PROVE MemoryInv'
  BY <1>3, WriteIsSafe
<1>4. CASE Step
  BY <1>4, StepIsSafe
<1>5. ASSUME NEW frees \in BOOLEAN, BeginWalk(frees) PROVE MemoryInv'
  BY <1>5, BeginWalkIsSafe
<1>6. CASE UNCHANGED vars
  BY <1>6 DEF vars, MemoryInv, Walking
<1> QED BY <1>2, <1>3, <1>4, <1>5, <1>6 DEF Next

-----------------------------------------------------------------------------
(* The theorems.                                                           *)

\* What holds as long as no two operations overlap.
Alone == RingInv /\ Order /\ AtFront /\ WalkInv /\ MemoryInv

\* The owner keeps no walk while it operates on the list, so that there is
\* none when two operations overlap.
NoneKept ==
  /\ ~Idle("owner") => walk = NoWalk
  /\ overlapped => walk = NoWalk

Types ==
  /\ used \subseteq Nodes /\ linked \in Seq(used) /\ DOMAIN todo = Threads
  /\ refused \in BOOLEAN /\ overlapped \in BOOLEAN /\ touched \in BOOLEAN

IInv == Types /\ NoneKept /\ (~overlapped => Alone)

LEMMA Initial == Init => IInv
<1> SUFFICES ASSUME Init PROVE IInv
  OBVIOUS
<1>1. RingInv
  BY InitRing
<1>2. /\ todo = [t \in Threads |-> <<>>] /\ walk = NoWalk /\ linked = <<>> /\ used = {}
      /\ refused = FALSE /\ overlapped = FALSE /\ touched = FALSE
  BY DEF Init
<1>3. Idle("owner") /\ Idle("other") /\ Left = <<>>
  BY <1>2 DEF Idle, Threads, Left
<1>4. Order /\ AtFront
  BY <1>3 DEF Order, Ordered, AtFront
<1>5. walk.met = <<>> /\ walk.cur = Null /\ walk.frees = FALSE /\ IsInjective(<<>>)
  BY <1>2 DEF NoWalk, IsInjective
<1>6. WalkInv
  BY <1>5 DEF WalkInv, Walking
<1>7. MemoryInv
  BY <1>2, <1>5 DEF MemoryInv
<1>8. NoneKept
  BY <1>2, Zenon DEF NoneKept
<1>9. Types
  <2>1. used \subseteq Nodes /\ DOMAIN todo = Threads
    BY <1>2
  <2>2. linked \in Seq(used)
    BY <1>2
  <2>3. refused \in BOOLEAN /\ overlapped \in BOOLEAN /\ touched \in BOOLEAN
    BY <1>2
  <2> QED BY <2>1, <2>2, <2>3 DEF Types
<1> QED BY <1>1, <1>4, <1>6, <1>7, <1>8, <1>9 DEF IInv, Alone

Operation ==
  \/ \E i \in Nodes : AddLast(i) \/ AddInside(i) \/ AddRefused(i)
  \/ \E i \in Nodes, t \in Threads : AddFirst(t, i)
  \/ RemoveTimer \/ RemoveFd

LEMMA OperationBegins == Operation => \E t \in Threads : \E ws, list : Begin(t, ws, list)
<1> SUFFICES ASSUME Operation PROVE \E t \in Threads : \E ws, list : Begin(t, ws, list)
  OBVIOUS
<1>1. "owner" \in Threads
  BY DEF Threads
<1>2. ASSUME NEW i \in Nodes, AddLast(i) \/ AddInside(i) \/ AddRefused(i)
      PROVE  \E ws, list : Begin("owner", ws, list)
  BY <1>2 DEF AddLast, AddInside, AddRefused, Insert
<1>3. ASSUME NEW i \in Nodes, NEW t \in Threads, AddFirst(t, i)
      PROVE  \E ws, list : Begin(t, ws, list)
  BY <1>3 DEF AddFirst, Insert
<1>4. CASE RemoveTimer \/ RemoveFd
  <2>1. \E ws, list : Begin("owner", ws, list)
    BY <1>4 DEF RemoveTimer, RemoveFd
  <2> QED BY <1>1, <2>1
<1> QED BY <1>1, <1>2, <1>3, <1>4 DEF Operation

\* Operations that have overlapped stay so.
LEMMA AloneBefore == [Next]_vars /\ ~overlapped' => ~overlapped
<1>1. Operation => ~overlapped
  BY OperationBegins DEF Begin
<1>2. ASSUME \/ \E t \in Threads : Write(t)
             \/ \E frees \in BOOLEAN : BeginWalk(frees)
             \/ Step \/ UNCHANGED vars
      PROVE  overlapped' = overlapped
  BY <1>2 DEF Write, BeginWalk, Step, vars
<1> QED BY <1>1, <1>2 DEF Next, Operation

LEMMA AloneStep == Alone /\ ~overlapped' /\ [Next]_vars => Alone'
  BY RingInductive, OrderStep, FrontStep, WalkStep, MemoryStep DEF Alone

LEMMA BeginKeepsTypes ==
  ASSUME Types, NEW t \in Threads, NEW ws, NEW list, Begin(t, ws, list),
         used \subseteq used', used' \subseteq Nodes, list \in Seq(used'), refused' \in BOOLEAN
  PROVE  Types'
<1>1. /\ overlapped' = ~Quiet /\ linked' = list /\ touched' = touched
      /\ todo' = [todo EXCEPT ![t] = ws]
  BY DEF Begin
<1>2. overlapped' \in BOOLEAN
  BY ONLY <1>1
<1>3. DOMAIN todo' = Threads
  BY <1>1 DEF Types
<1> QED BY <1>1, <1>2, <1>3 DEF Types

LEMMA InsertKeepsTypes ==
  ASSUME Types, NEW t \in Threads, NEW i, NEW ws, NEW list, Insert(t, i, ws, list),
         list \in Seq(used \cup {i}), refused' \in BOOLEAN
  PROVE  Types'
<1>1. /\ i \in Nodes /\ used' = used \cup {i} /\ Begin(t, NewNode(i) \o ws, list)
  BY DEF Insert
<1>2. used \subseteq used' /\ used' \subseteq Nodes /\ list \in Seq(used')
  BY <1>1 DEF Types
<1> QED BY <1>1, <1>2, BeginKeepsTypes

\* The list an operation makes of the one there was.
LEMMA ListsAreLists ==
  ASSUME NEW S, NEW l \in Seq(S), NEW i \in S
  PROVE  /\ Append(l, i) \in Seq(S) /\ <<i>> \o l \in Seq(S)
         /\ \A k \in DOMAIN l : /\ InsertAt(l, k + 1, i) \in Seq(S)
                                /\ RemoveAt(l, k) \in Seq(S) /\ Rotated(l, k) \in Seq(S)
<1>1. Append(l, i) \in Seq(S) /\ <<i>> \o l \in Seq(S)
  BY AppendProperties, PushElements
<1>2. ASSUME NEW k \in DOMAIN l
      PROVE  /\ InsertAt(l, k + 1, i) \in Seq(S)
             /\ RemoveAt(l, k) \in Seq(S) /\ Rotated(l, k) \in Seq(S)
  <2>1. k \in 1..Len(l) /\ Len(l) \in Nat
    BY LenProperties
  <2>2. PICK p \in 1..Len(l)+1 : p = k + 1
    BY <2>1
  <2>3. InsertAt(l, p, i) \in Seq(S)
    BY InsertAtProperties
  <2>4. RemoveAt(l, k) \in Seq(S)
    BY <2>1, RemoveAtProperties
  <2>5. IsRotated(S, l, k)
    BY <2>1, RotatedElements
  <2>6. Rotated(l, k) \in Seq(S)
    BY <2>5 DEF IsRotated
  <2> QED BY <2>2, <2>3, <2>4, <2>6
<1> QED BY <1>1, <1>2

LEMMA OperationKeepsTypes == ASSUME IInv, Operation PROVE Types'
<1>1. Types /\ linked \in Seq(used) /\ refused \in BOOLEAN /\ used \subseteq Nodes
  BY DEF IInv, Types
<1>2. PICK l, U : l = linked /\ U = used
  OBVIOUS
<1>3. \A i : l \in Seq(U \cup {i})
  BY <1>1, <1>2
<1>4. "owner" \in Threads
  BY DEF Threads
<1>5. ASSUME NEW i \in Nodes, AddLast(i) PROVE Types'
  <2>1. Append(l, i) \in Seq(U \cup {i})
    BY <1>3, ListsAreLists
  <2>2. \E ws : Insert("owner", i, ws, Append(l, i)) /\ refused' = refused
    BY <1>2, <1>5 DEF AddLast
  <2> QED BY <1>1, <1>2, <1>4, <2>1, <2>2, InsertKeepsTypes
<1>6. ASSUME NEW i \in Nodes, AddInside(i) PROVE Types'
  <2>1. PICK k \in DOMAIN l :
          \E ws : Insert("owner", i, ws, InsertAt(l, k + 1, i)) /\ refused' = refused
    BY <1>2, <1>6 DEF AddInside
  <2>2. InsertAt(l, k + 1, i) \in Seq(U \cup {i})
    BY <1>3, ListsAreLists
  <2> QED BY <1>1, <1>2, <1>4, <2>1, <2>2, InsertKeepsTypes
<1>7. ASSUME NEW i \in Nodes, AddRefused(i) PROVE Types'
  <2>1. /\ l # <<>> /\ refused' = TRUE
        /\ \E ws : Insert("owner", i, ws, InsertAt(l, 2, i))
    BY <1>2, <1>7 DEF AddRefused
  <2>2. 1 \in DOMAIN l
    BY <1>1, <1>2, <2>1, LenProperties, EmptySeq
  <2>3. InsertAt(l, 1 + 1, i) \in Seq(U \cup {i})
    BY <1>3, <2>2, ListsAreLists
  <2> QED BY <1>1, <1>2, <1>4, <2>1, <2>3, InsertKeepsTypes
<1>8. ASSUME NEW i \in Nodes, NEW t \in Threads, AddFirst(t, i) PROVE Types'
  <2>1. <<i>> \o l \in Seq(U \cup {i})
    BY <1>3, ListsAreLists
  <2>2. \E ws : Insert(t, i, ws, <<i>> \o l) /\ refused' = refused
    BY <1>2, <1>8 DEF AddFirst
  <2> QED BY <1>1, <1>2, <2>1, <2>2, InsertKeepsTypes
<1>9. CASE RemoveTimer \/ RemoveFd
  <2>1. PICK k \in DOMAIN l :
          /\ \E ws : Begin("owner", ws, RemoveAt(l, k)) \/ Begin("owner", ws, Rotated(l, k))
          /\ used' = used /\ refused' = refused
    BY <1>2, <1>9 DEF RemoveTimer, RemoveFd, Rotated
  <2>2. l[k] \in U
    BY <1>1, <1>2, LenProperties, ElementOfSeq
  <2>3. RemoveAt(l, k) \in Seq(U) /\ Rotated(l, k) \in Seq(U)
    BY <1>1, <1>2, <2>2, ListsAreLists
  <2>4. used \subseteq used' /\ used' \subseteq Nodes /\ refused' \in BOOLEAN
    BY <1>1, <2>1
  <2>5. PICK ws, list : Begin("owner", ws, list) /\ list \in Seq(used')
    BY <1>2, <2>1, <2>3
  <2> QED BY <1>1, <1>4, <2>4, <2>5, BeginKeepsTypes
<1> QED BY <1>5, <1>6, <1>7, <1>8, <1>9 DEF Operation

LEMMA TypesStep == IInv /\ [Next]_vars => Types'
<1> SUFFICES ASSUME IInv, [Next]_vars PROVE Types'
  OBVIOUS
<1>1. Types
  BY DEF IInv
<1>2. ASSUME NEW t \in Threads, Write(t) PROVE Types'
  <2>1. /\ UNCHANGED <<linked, used, refused, overlapped>> /\ DOMAIN todo' = DOMAIN todo
        /\ \E w : touched' = (touched \/ (w[1][2] # "live" /\ Freed(w[1][1])))
    BY <1>2 DEF Write
  <2>2. touched' \in BOOLEAN
    BY <2>1
  <2> QED BY <1>1, <2>1, <2>2 DEF Types
<1>3. ASSUME NEW frees \in BOOLEAN, BeginWalk(frees) PROVE Types'
  BY <1>1, <1>3 DEF BeginWalk, Types
<1>4. CASE Step
  <2>1. /\ UNCHANGED <<todo, linked, used, refused, overlapped>>
        /\ touched' = (touched \/ Freed(walk.cur))
    BY <1>4 DEF Step
  <2>2. touched' \in BOOLEAN
    BY <2>1
  <2> QED BY <1>1, <2>1, <2>2 DEF Types
<1>5. CASE UNCHANGED vars
  BY <1>1, <1>5 DEF vars, Types
<1> QED BY <1>2, <1>3, <1>4, <1>5, OperationKeepsTypes DEF Next, Operation

LEMMA NoneKeptStep == IInv /\ [Next]_vars => NoneKept'
<1> SUFFICES ASSUME IInv, [Next]_vars PROVE NoneKept'
  OBVIOUS
<1>1. NoneKept /\ DOMAIN todo = Threads
  BY DEF IInv, Types
<1>2. ASSUME NEW t \in Threads, NEW ws, NEW list, Begin(t, ws, list) PROVE NoneKept'
  <2>1. /\ Idle(t) /\ todo' = [todo EXCEPT ![t] = ws] /\ overlapped' = ~Quiet
        /\ walk' = IF t = "owner" THEN NoWalk ELSE walk
    BY <1>2 DEF Begin
  <2>2. CASE t = "owner"
    BY <2>1, <2>2 DEF NoneKept
  <2>3. CASE t = "other"
    <3>1. walk' = walk /\ todo'["owner"] = todo["owner"]
      BY <1>1, <2>1, <2>3 DEF Threads
    <3>2. overlapped' => ~Idle("owner")
      BY <2>1, <2>3 DEF Quiet, Threads
    <3> QED BY <1>1, <3>1, <3>2 DEF NoneKept, Idle
  <2> QED BY <2>2, <2>3 DEF Threads
<1>3. CASE Operation
  BY <1>2, <1>3, OperationBegins
<1>4. ASSUME NEW t \in Threads, Write(t) PROVE NoneKept'
  <2>1. /\ walk' = walk /\ overlapped' = overlapped /\ ~Idle(t)
        /\ todo' = [todo EXCEPT ![t] = Tail(todo[t])]
    BY <1>4 DEF Write
  <2>2. ~Idle("owner")' => ~Idle("owner")
    BY <1>1, <2>1 DEF Idle, Threads
  <2> QED BY <1>1, <2>1, <2>2 DEF NoneKept
<1>5. ASSUME NEW frees \in BOOLEAN, BeginWalk(frees) PROVE NoneKept'
  BY <1>5 DEF BeginWalk, NoneKept, Idle
<1>6. CASE Step
  <2>1. Walking /\ UNCHANGED <<todo, overlapped>>
    BY <1>6 DEF Step
  <2>2. walk # NoWalk
    BY <2>1 DEF Walking, NoWalk
  <2> QED BY <1>1, <2>1, <2>2 DEF NoneKept, Idle
<1>7. CASE UNCHANGED vars
  BY <1>1, <1>7 DEF vars, NoneKept, Idle
<1> QED BY <1>3, <1>4, <1>5, <1>6, <1>7 DEF Next, Operation

LEMMA Inductive == IInv /\ [Next]_vars => IInv'
<1> SUFFICES ASSUME IInv, [Next]_vars PROVE IInv'
  OBVIOUS
<1>1. ASSUME ~overlapped' PROVE Alone'
  BY <1>1, AloneBefore, AloneStep DEF IInv
<1> QED BY <1>1, TypesStep, NoneKeptStep DEF IInv

LEMMA Invariant == Spec => []IInv
  BY Initial, Inductive, PTL DEF Spec

\* Between operations, of which no two have overlapped, the links of both
\* directions and the head are those of the list the operations describe,
\* whatever the operations were and whatever walks came in between.
THEOREM RingIsTheList == Spec => []RingMatches
<1>1. IInv => RingMatches
  <2> SUFFICES ASSUME RingInv, Quiet PROVE RingMatches
    BY DEF RingMatches, IInv, Alone
  <2>1. PICK m, l : m = mem /\ l = linked
    OBVIOUS
  <2>2. Ring(m, l) /\ l \in Seq(Nodes) /\ Len(l) \in Nat /\ (l = <<>> <=> Len(l) = 0)
    BY <2>1, QuietRing, LenProperties, EmptySeq
  <2>3. \A k \in 1..Len(l) : (k % Len(l)) + 1 = Succ(k, Len(l))
    BY <2>2, SuccIsModulo
  <2>4. /\ m[Top] = IF Len(l) = 0 THEN Null ELSE l[1]
        /\ \A k \in 1..Len(l) : /\ m[NextOf(l[k])] = l[(k % Len(l)) + 1]
                                /\ m[PrevOf(l[(k % Len(l)) + 1])] = l[k]
    BY <2>2, <2>3 DEF Ring
  <2> QED BY <2>1, <2>4 DEF RingMatches
<1> QED BY <1>1, Invariant, PTL

\* The types of the list: as long as no two operations overlap, the head and
\* the walk are at nodes that were allocated, and between operations every
\* link of a node of it is to a node.
THEOREM ListTypeCorrect == Spec => []TypeOK
<1>1. IInv => TypeOK
  <2> SUFFICES ASSUME IInv PROVE TypeOK
    OBVIOUS
  <2>1. Types
    BY DEF IInv
  <2>2. ASSUME ~overlapped
        PROVE  /\ \A n \in used : mem[Live(n)] \in BOOLEAN
               /\ mem[Top] \in used \cup {Null} /\ walk.cur \in used \cup {Null}
               /\ Quiet => \A n \in ToSet(linked) :
                             mem[NextOf(n)] \in Nodes /\ mem[PrevOf(n)] \in Nodes
    <3>1. RingInv /\ AtFront /\ WalkInv
      BY <2>2 DEF IInv, Alone
    <3>2. (\A n \in used : mem[Live(n)] \in BOOLEAN) /\ mem[Top] \in used \cup {Null}
      BY <3>1 DEF RingInv, Base
    <3>3. ASSUME Quiet, NEW n \in ToSet(linked)
          PROVE  mem[NextOf(n)] \in Nodes /\ mem[PrevOf(n)] \in Nodes
      <4>1. PICK m, l : m = mem /\ l = linked
        OBVIOUS
      <4>2. Ring(m, l) /\ l \in Seq(Nodes)
        BY <3>1, <3>3, <4>1, QuietRing
      <4>3. PICK k \in 1..Len(l) : n = l[k]
        BY <3>3, <4>1, <4>2, LenProperties DEF ToSet
      <4>4. l[Succ(k, Len(l))] \in Nodes /\ l[Pred(k, Len(l))] \in Nodes
        BY <4>2, LenProperties, ElementOfSeq, NeighboursInRing
      <4> QED BY <4>1, <4>2, <4>3, <4>4, RingNeighbours
    <3>4. walk.cur \in used \cup {Null}
      <4>1. CASE Walking
        <5>1. PICK p, q : At(walk.first, walk.cur, walk.frees, walk.met, walk.begun,
                             linked, todo["other"], p, q)
          BY <3>1, <4>1 DEF WalkInv, OnItsWay
        <5> QED BY <3>1, <4>1, <5>1, WhereItGoes DEF WalkInv
      <4>2. CASE ~Walking
        BY <4>2 DEF Walking
      <4> QED BY <4>1, <4>2
    <3> QED BY <3>2, <3>3, <3>4
  <2> QED BY <2>1, <2>2 DEF TypeOK, Types
<1> QED BY <1>1, Invariant, PTL

\* Whenever the other thread puts its timer in front, and however many writes
\* of that a walk of the owner sees, the walk meets no timer twice, ends where
\* it began, and has then met every timer that was linked as it began.
THEOREM WalksMeetAll == Spec => []WalkMeetsAll
<1>1. IInv => WalkMeetsAll
  <2> SUFFICES ASSUME IInv
               PROVE  /\ IsInjective(walk.met)
                      /\ walk.met # <<>> /\ ~Walking => walk.begun \subseteq ToSet(walk.met)
    BY DEF WalkMeetsAll
  <2>1. CASE overlapped
    <3>1. walk.met = <<>> /\ IsInjective(<<>>)
      BY <2>1 DEF IInv, NoneKept, NoWalk, IsInjective
    <3> QED BY <3>1
  <2>2. CASE ~overlapped
    <3>1. WalkInv
      BY <2>2 DEF IInv, Alone
    <3>2. IsInjective(walk.met)
      BY <3>1 DEF WalkInv, OnItsWay, At
    <3> QED BY <3>1, <3>2 DEF WalkInv
  <2> QED BY <2>1, <2>2
<1> QED BY <1>1, Invariant, PTL

\* As long as epoll has refused no descriptor and operations of the two
\* threads have not overlapped, no operation and no walk, also a walk that
\* sees an insertion half done, uses a node that was freed, and the walk that
\* frees leaves none allocated.
THEOREM ListMemorySafe == Spec => []MemoryIsSafe
<1>1. IInv => MemoryIsSafe
  <2> SUFFICES ASSUME IInv, ~refused, ~overlapped
               PROVE  /\ ~touched
                      /\ walk.frees /\ ~Walking => \A n \in used : Freed(n)
    BY DEF MemoryIsSafe
  <2>1. MemoryInv /\ WalkInv
    BY DEF IInv, Alone
  <2>2. ~touched
    BY <2>1 DEF MemoryInv
  <2>3. ASSUME walk.frees, ~Walking, NEW n \in used PROVE Freed(n)
    <3>1. ToSet(linked) \subseteq ToSet(walk.met)
      BY <2>1, <2>3 DEF MemoryInv, WalkInv
    <3>2. ~mem[Live(n)]
      BY <2>1, <2>3, <3>1 DEF MemoryInv
    <3> QED BY <3>2 DEF Freed
  <2> QED BY <2>2, <2>3
<1> QED BY <1>1, Invariant, PTL
=============================================================================
