--------------------------- MODULE SequenceLemmas ---------------------------
(***************************************************************************)
(* Facts about sequences and sets of numbers that the proofs about the     *)
(* engine's lists rest on, and that the library does not state.            *)
(***************************************************************************)
EXTENDS Integers, Sequences, FiniteSets, SequencesExt, SequenceTheorems,
        FiniteSetTheorems, WellFoundedInduction, TLAPS

-----------------------------------------------------------------------------
(* Sequences: what inserting and removing an element does.                 *)

LEMMA InsertAtProperties ==
  ASSUME NEW S, NEW s \in Seq(S), NEW i \in 1..Len(s)+1, NEW e \in S
  PROVE  /\ InsertAt(s, i, e) \in Seq(S)
         /\ Len(InsertAt(s, i, e)) = Len(s) + 1
         /\ \A j \in 1..Len(s)+1 :
              InsertAt(s, i, e)[j] = IF j < i THEN s[j]
                                     ELSE IF j = i THEN e ELSE s[j-1]
<1> DEFINE a == SubSeq(s, 1, i-1)
           b == SubSeq(s, i, Len(s))
<1>1. Len(s) \in Nat /\ \A j \in 1..Len(s) : s[j] \in S
  BY LenProperties
<1>2. /\ a \in Seq(S) /\ Len(a) = i-1
      /\ \A j \in 1..i-1 : a[j] = s[j]
  BY <1>1, SubSeqProperties
<1>3. /\ b \in Seq(S) /\ Len(b) = Len(s)-i+1
      /\ \A j \in 1..Len(s)-i+1 : b[j] = s[i+j-1]
  BY <1>1, SubSeqProperties
<1>4. /\ a \o <<e>> \in Seq(S) /\ Len(a \o <<e>>) = i
      /\ \A j \in 1..i : (a \o <<e>>)[j] = IF j < i THEN s[j] ELSE e
  <2> HIDE DEF a
  <2>1. <<e>> \in Seq(S) /\ Len(<<e>>) = 1 /\ <<e>>[1] = e
    OBVIOUS
  <2> QED BY <1>2, <2>1, ConcatProperties
<1> DEFINE c == a \o <<e>>
<1>5. InsertAt(s, i, e) = c \o b
  BY DEF InsertAt
<1> HIDE DEF a, b
<1>6. /\ c \o b \in Seq(S)
      /\ Len(c \o b) = i + Len(b)
      /\ \A j \in 1..i + Len(b) : (c \o b)[j] = IF j <= i THEN c[j] ELSE b[j-i]
  <2>1. c \in Seq(S) /\ Len(c) = i
    BY <1>4
  <2> HIDE DEF c
  <2> QED BY <1>3, <2>1, ConcatProperties
<1>7. ASSUME NEW j \in 1..Len(s)+1
      PROVE  InsertAt(s, i, e)[j] = IF j < i THEN s[j]
                                    ELSE IF j = i THEN e ELSE s[j-1]
  <2>1. CASE j <= i
    <3>1. c[j] = IF j < i THEN s[j] ELSE e
      BY <1>4, <2>1
    <3> HIDE DEF c
    <3>2. (c \o b)[j] = c[j]
      BY <1>1, <1>3, <1>6, <2>1
    <3> QED BY <1>5, <2>1, <3>1, <3>2
  <2>2. CASE j > i
    <3> HIDE DEF c
    <3>1. (c \o b)[j] = b[j-i] /\ j-i \in 1..Len(s)-i+1
      BY <1>1, <1>3, <1>6, <2>2
    <3> QED BY <1>1, <1>3, <1>5, <2>2, <3>1
  <2> QED BY <1>1, <2>1, <2>2
<1> QED BY <1>1, <1>3, <1>5, <1>6, <1>7

LEMMA RemoveAtProperties ==
  ASSUME NEW S, NEW s \in Seq(S), NEW i \in 1..Len(s)
  PROVE  /\ RemoveAt(s, i) \in Seq(S)
         /\ Len(RemoveAt(s, i)) = Len(s) - 1
         /\ \A j \in 1..Len(s)-1 :
              RemoveAt(s, i)[j] = IF j < i THEN s[j] ELSE s[j+1]
<1> DEFINE a == SubSeq(s, 1, i-1)
           b == SubSeq(s, i+1, Len(s))
<1>1. Len(s) \in Nat /\ \A j \in 1..Len(s) : s[j] \in S
  BY LenProperties
<1>2. /\ a \in Seq(S) /\ Len(a) = i-1
      /\ \A j \in 1..i-1 : a[j] = s[j]
  BY <1>1, SubSeqProperties
<1>3. /\ b \in Seq(S) /\ Len(b) = Len(s)-i
      /\ \A j \in 1..Len(s)-i : b[j] = s[i+j]
  BY <1>1, SubSeqProperties
<1>4. RemoveAt(s, i) = a \o b
  BY DEF RemoveAt
<1> HIDE DEF a, b
<1>5. /\ a \o b \in Seq(S)
      /\ Len(a \o b) = Len(s)-1
      /\ \A j \in 1..Len(s)-1 : (a \o b)[j] = IF j <= i-1 THEN a[j] ELSE b[j-(i-1)]
  <2>1. /\ a \o b \in Seq(S) /\ Len(a \o b) = Len(a) + Len(b)
        /\ \A j \in 1..Len(a)+Len(b) :
             (a \o b)[j] = IF j <= Len(a) THEN a[j] ELSE b[j-Len(a)]
    BY <1>2, <1>3, ConcatProperties
  <2>2. Len(a) = i-1 /\ Len(a) + Len(b) = Len(s)-1
    BY <1>1, <1>2, <1>3
  <2> QED BY <2>1, <2>2
<1>6. ASSUME NEW j \in 1..Len(s)-1
      PROVE  RemoveAt(s, i)[j] = IF j < i THEN s[j] ELSE s[j+1]
  <2>1. CASE j < i
    BY <1>1, <1>2, <1>4, <1>5, <2>1
  <2>2. CASE j >= i
    <3>1. (a \o b)[j] = b[j-(i-1)] /\ j-(i-1) \in 1..Len(s)-i
      BY <1>1, <1>5, <2>2
    <3> QED BY <1>1, <1>3, <1>4, <2>2, <3>1
  <2> QED BY <2>1, <2>2
<1> QED BY <1>4, <1>5, <1>6

\* Inserting a new element keeps a list without repetitions, and adds it.
LEMMA InsertAtElements ==
  ASSUME NEW S, NEW s \in Seq(S), NEW i \in 1..Len(s)+1, NEW e \in S,
         IsInjective(s), e \notin ToSet(s)
  PROVE  /\ IsInjective(InsertAt(s, i, e))
         /\ ToSet(InsertAt(s, i, e)) = ToSet(s) \cup {e}
<1> DEFINE r == InsertAt(s, i, e)
<1>1. /\ r \in Seq(S) /\ Len(r) = Len(s) + 1
      /\ \A j \in 1..Len(s)+1 : r[j] = IF j < i THEN s[j]
                                       ELSE IF j = i THEN e ELSE s[j-1]
  BY InsertAtProperties
<1>2. /\ Len(s) \in Nat /\ DOMAIN s = 1..Len(s) /\ DOMAIN r = 1..Len(s)+1
  BY <1>1, LenProperties
<1> HIDE DEF r
<1>3. \A j \in 1..Len(s) : s[j] # e
  BY <1>2 DEF ToSet
<1>4. \A j, k \in 1..Len(s) : s[j] = s[k] => j = k
  BY <1>2 DEF IsInjective
<1>5. ASSUME NEW j \in 1..Len(s)+1, NEW k \in 1..Len(s)+1, r[j] = r[k]
      PROVE  j = k
  <2>1. CASE j = i \/ k = i
    BY <1>1, <1>2, <1>3, <1>5, <2>1
  <2>2. CASE j # i /\ k # i
    <3> DEFINE jj == IF j < i THEN j ELSE j-1
               kk == IF k < i THEN k ELSE k-1
    <3>1. jj \in 1..Len(s) /\ kk \in 1..Len(s)
      BY <1>2, <2>2
    <3>2. r[j] = s[jj] /\ r[k] = s[kk]
      BY <1>1, <2>2
    <3>3. jj = kk
      BY <1>4, <1>5, <3>1, <3>2
    <3> QED BY <1>2, <2>2, <3>3
  <2> QED BY <2>1, <2>2
<1>6. IsInjective(r)
  BY <1>2, <1>5 DEF IsInjective
<1>7. ToSet(r) \subseteq ToSet(s) \cup {e}
  BY <1>1, <1>2 DEF ToSet
<1>8. ASSUME NEW j \in 1..Len(s) PROVE s[j] \in ToSet(r)
  <2>1. CASE j < i
    BY <1>1, <1>2, <2>1 DEF ToSet
  <2>2. CASE j >= i
    <3>1. j+1 \in 1..Len(s)+1 /\ r[j+1] = s[j]
      BY <1>1, <1>2, <2>2
    <3> QED BY <1>2, <3>1 DEF ToSet
  <2> QED BY <1>2, <2>1, <2>2
<1>9. e \in ToSet(r)
  BY <1>1, <1>2 DEF ToSet
<1>10. ToSet(s) \subseteq ToSet(r)
  BY <1>2, <1>8 DEF ToSet
<1> QED BY <1>6, <1>7, <1>9, <1>10 DEF r

\* Removing an element of a list without repetitions removes just that one.
LEMMA RemoveAtElements ==
  ASSUME NEW S, NEW s \in Seq(S), NEW i \in 1..Len(s), IsInjective(s)
  PROVE  /\ IsInjective(RemoveAt(s, i))
         /\ ToSet(RemoveAt(s, i)) = ToSet(s) \ {s[i]}
<1> DEFINE r == RemoveAt(s, i)
<1>1. /\ r \in Seq(S) /\ Len(r) = Len(s) - 1
      /\ \A j \in 1..Len(s)-1 : r[j] = IF j < i THEN s[j] ELSE s[j+1]
  BY RemoveAtProperties
<1>2. /\ Len(s) \in Nat /\ DOMAIN s = 1..Len(s) /\ DOMAIN r = 1..Len(s)-1
  BY <1>1, LenProperties
<1> HIDE DEF r
<1>4. \A j, k \in 1..Len(s) : s[j] = s[k] => j = k
  BY <1>2 DEF IsInjective
<1> DEFINE old(j) == IF j < i THEN j ELSE j+1
<1>5. \A j \in 1..Len(s)-1 : old(j) \in 1..Len(s) /\ old(j) # i /\ r[j] = s[old(j)]
  BY <1>1, <1>2
<1>6. \A j, k \in 1..Len(s)-1 : old(j) = old(k) => j = k
  BY <1>2
<1> HIDE DEF old
<1>7. IsInjective(r)
  BY <1>2, <1>4, <1>5, <1>6 DEF IsInjective
<1>8. ToSet(r) \subseteq ToSet(s) \ {s[i]}
  BY <1>2, <1>4, <1>5 DEF ToSet
<1>9. ASSUME NEW j \in 1..Len(s), j # i PROVE s[j] \in ToSet(r)
  <2>1. CASE j < i
    BY <1>1, <1>2, <2>1 DEF ToSet
  <2>2. CASE j > i
    <3>1. j-1 \in 1..Len(s)-1 /\ r[j-1] = s[j]
      BY <1>1, <1>2, <2>2
    <3> QED BY <1>2, <3>1 DEF ToSet
  <2> QED BY <1>2, <1>9, <2>1, <2>2
<1>10. ToSet(s) \ {s[i]} \subseteq ToSet(r)
  BY <1>2, <1>9 DEF ToSet
<1> QED BY <1>7, <1>8, <1>10 DEF r

-----------------------------------------------------------------------------
(* A set of numbers within bounds has a least element, and Min is it.      *)

LEMMA MinOfBounded ==
  ASSUME NEW n \in Nat, NEW S \in SUBSET (0..n), S # {}
  PROVE  Min(S) \in S /\ \A y \in S : Min(S) <= y
<1> DEFINE T == {0..x : x \in S}
<1>1. IsWellFoundedOn(StrictSubsetOrdering(0..n), FiniteSubsetsOf(0..n))
  BY FS_StrictSubsetOrderingWellFounded
<1>2. T \subseteq FiniteSubsetsOf(0..n) /\ T # {}
  <2>1. \A x \in S : IsFiniteSet(0..x) /\ 0..x \subseteq 0..n
    BY FS_Interval
  <2> QED BY <2>1 DEF FiniteSubsetsOf
<1>3. PICK X \in T : \A Y \in T : <<Y, X>> \notin StrictSubsetOrdering(0..n)
  BY <1>1, <1>2, WFMin
<1>4. PICK x \in S : X = 0..x
  OBVIOUS
<1>5. \A y \in S : x <= y
  <2> SUFFICES ASSUME NEW y \in S, y < x PROVE FALSE
    OBVIOUS
  <2>1. 0..y \subseteq 0..x /\ x \notin 0..y /\ x \in 0..x
    OBVIOUS
  <2>2. <<0..y, 0..x>> \in StrictSubsetOrdering(0..n)
    BY <2>1 DEF StrictSubsetOrdering
  <2> QED BY <1>3, <1>4, <2>2
<1> QED BY <1>5 DEF Min

-----------------------------------------------------------------------------
(* A list used as a stack.                                                 *)

\* What is put in front is in the list, with what was there.
LEMMA PushElements ==
  ASSUME NEW S, NEW s \in Seq(S), NEW e \in S
  PROVE  /\ <<e>> \o s \in Seq(S) /\ <<e>> \o s # <<>>
         /\ ToSet(<<e>> \o s) = ToSet(s) \cup {e}
         /\ IsInjective(s) /\ e \notin ToSet(s) => IsInjective(<<e>> \o s)
<1> DEFINE r == <<e>> \o s
<1>1. /\ <<e>> \in Seq(S) /\ Len(<<e>>) = 1 /\ <<e>>[1] = e
      /\ Len(s) \in Nat /\ DOMAIN s = 1..Len(s)
  BY LenProperties
<1>2. /\ r \in Seq(S) /\ Len(r) = Len(s) + 1 /\ DOMAIN r = 1..Len(s)+1
      /\ \A j \in 1..Len(s)+1 : r[j] = IF j = 1 THEN e ELSE s[j-1]
  BY <1>1, ConcatProperties, LenProperties
<1> HIDE DEF r
<1>3. ToSet(s) = {s[i] : i \in 1..Len(s)} /\ ToSet(r) = {r[i] : i \in 1..Len(s)+1}
  BY <1>1, <1>2 DEF ToSet
<1>4. ToSet(r) \subseteq ToSet(s) \cup {e}
  <2> SUFFICES ASSUME NEW j \in 1..Len(s)+1 PROVE r[j] \in ToSet(s) \cup {e}
    BY <1>3
  <2>1. CASE j = 1
    BY <1>1, <1>2, <2>1
  <2>2. CASE j # 1
    <3>1. j-1 \in 1..Len(s) /\ r[j] = s[j-1]
      BY <1>1, <1>2, <2>2
    <3> QED BY <1>3, <3>1
  <2> QED BY <2>1, <2>2
<1>5. e \in ToSet(r)
  <2>1. 1 \in 1..Len(s)+1 /\ r[1] = e
    BY <1>1, <1>2
  <2> QED BY <1>3, <2>1
<1>6. ASSUME NEW i \in 1..Len(s) PROVE s[i] \in ToSet(r)
  <2>1. i+1 \in 1..Len(s)+1 /\ r[i+1] = s[i]
    BY <1>1, <1>2
  <2> QED BY <1>3, <2>1
<1>7. ASSUME IsInjective(s), e \notin ToSet(s) PROVE IsInjective(r)
  <2>1. \A i, j \in 1..Len(s) : s[i] = s[j] => i = j
    BY <1>1, <1>7 DEF IsInjective
  <2>2. \A i \in 1..Len(s) : s[i] # e
    BY <1>3, <1>7
  <2>3. \A i, j \in 1..Len(s)+1 : r[i] = r[j] => i = j
    BY <1>1, <1>2, <2>1, <2>2
  <2> QED BY <1>2, <2>3 DEF IsInjective
<1>8. r # <<>>
  BY <1>1, <1>2
<1>9. ToSet(r) = ToSet(s) \cup {e}
  BY <1>3, <1>4, <1>5, <1>6
<1> QED BY <1>2, <1>7, <1>8, <1>9 DEF r

\* What is taken off the front leaves the rest, which no longer has it.
LEMMA PopElements ==
  ASSUME NEW S, NEW s \in Seq(S), s # <<>>
  PROVE  /\ Tail(s) \in Seq(S) /\ Head(s) \in ToSet(s) /\ Head(s) \in S
         /\ ToSet(Tail(s)) \subseteq ToSet(s)
         /\ IsInjective(s) => /\ IsInjective(Tail(s))
                              /\ Head(s) \notin ToSet(Tail(s))
<1> DEFINE r == Tail(s)
<1>1. /\ Len(s) \in Nat /\ Len(s) > 0 /\ DOMAIN s = 1..Len(s)
      /\ Head(s) = s[1] /\ Head(s) \in S
  BY LenProperties, EmptySeq, HeadTailProperties
<1>2. /\ r \in Seq(S) /\ Len(r) = Len(s) - 1 /\ DOMAIN r = 1..Len(s)-1
      /\ \A j \in 1..Len(s)-1 : r[j] = s[j+1]
  BY <1>1, HeadTailProperties, LenProperties
<1> HIDE DEF r
<1>3. ToSet(s) = {s[i] : i \in 1..Len(s)} /\ ToSet(r) = {r[i] : i \in 1..Len(s)-1}
  BY <1>1, <1>2 DEF ToSet
<1>4. Head(s) \in ToSet(s)
  <2>1. 1 \in 1..Len(s)
    BY <1>1
  <2> QED BY <1>1, <1>3, <2>1
<1>5. ASSUME NEW j \in 1..Len(s)-1 PROVE r[j] \in ToSet(s)
  <2>1. j+1 \in 1..Len(s) /\ r[j] = s[j+1]
    BY <1>1, <1>2
  <2> QED BY <1>3, <2>1
<1>6. ASSUME IsInjective(s) PROVE IsInjective(r) /\ Head(s) \notin ToSet(r)
  <2>1. \A i, j \in 1..Len(s) : s[i] = s[j] => i = j
    BY <1>1, <1>6 DEF IsInjective
  <2>2. \A i, j \in 1..Len(s)-1 : r[i] = r[j] => i = j
    BY <1>1, <1>2, <2>1
  <2>3. \A i \in 1..Len(s)-1 : r[i] # s[1]
    BY <1>1, <1>2, <2>1
  <2> QED BY <1>1, <1>2, <1>3, <2>2, <2>3 DEF IsInjective
<1>7. ToSet(r) \subseteq ToSet(s)
  BY <1>3, <1>5
<1> QED BY <1>1, <1>2, <1>4, <1>6, <1>7 DEF r

-----------------------------------------------------------------------------
(* Short sequences as concatenations.                                      *)

LEMMA OneAndOne == ASSUME NEW x, NEW y PROVE <<x, y>> = <<x>> \o <<y>>
<1>1. <<x, y>> = Append(<<x>>, y)
  OBVIOUS
<1>2. <<x>> \in Seq({x, y}) /\ y \in {x, y}
  OBVIOUS
<1> QED BY <1>1, <1>2, AppendIsConcat

LEMMA OneAndTwo ==
  ASSUME NEW x, NEW y, NEW z PROVE <<x, y, z>> = <<x>> \o <<y, z>>
  OBVIOUS

LEMMA TwoAndTwo ==
  ASSUME NEW x, NEW y, NEW z, NEW w PROVE <<x, y, z, w>> = <<x, y>> \o <<z, w>>
<1> DEFINE A == <<x, y, z, w>>
           B == <<x, y, z>> \o <<w>>
           C == (<<x, y>> \o <<z>>) \o <<w>>
           D == <<x, y>> \o (<<z>> \o <<w>>)
           E == <<x, y>> \o <<z, w>>
<1>1. A = B
  OBVIOUS
<1>2. B = C
  <2>1. <<x, y, z>> = <<x, y>> \o <<z>>
    OBVIOUS
  <2> QED BY ONLY <2>1
<1>3. C = D
  <2> DEFINE S == {x, y, z, w}
  <2>1. <<x, y>> \in Seq(S) /\ <<z>> \in Seq(S) /\ <<w>> \in Seq(S)
    OBVIOUS
  <2> QED BY <2>1, ConcatAssociative
<1>4. D = E
  BY ONLY OneAndOne
<1> HIDE DEF A, B, C, D, E
<1>5. A = E
  BY <1>1, <1>2, <1>3, <1>4
<1> QED BY <1>5 DEF A, E

LEMMA AppendElements ==
  ASSUME NEW S, NEW s \in Seq(S), NEW e \in S, IsInjective(s), e \notin ToSet(s)
  PROVE  /\ Append(s, e) \in Seq(S) /\ IsInjective(Append(s, e))
         /\ ToSet(Append(s, e)) = ToSet(s) \cup {e}
<1> DEFINE r == Append(s, e)
<1>1. /\ r \in Seq(S) /\ DOMAIN r = 1..Len(s)+1 /\ r[Len(s)+1] = e
      /\ Len(s) \in Nat /\ DOMAIN s = 1..Len(s)
      /\ \A j \in 1..Len(s) : r[j] = s[j]
  BY AppendProperties, LenProperties
<1> HIDE DEF r
<1>2. /\ \A j, k \in 1..Len(s) : s[j] = s[k] => j = k
      /\ \A j \in 1..Len(s) : s[j] # e
  BY <1>1 DEF IsInjective, ToSet
<1>3. \A j \in 1..Len(s)+1 : j \in 1..Len(s) \/ j = Len(s)+1
  BY <1>1
<1>4. IsInjective(r)
  <2>1. \A j, k \in 1..Len(s)+1 : r[j] = r[k] => j = k
    BY <1>1, <1>2, <1>3
  <2> QED BY <1>1, <2>1 DEF IsInjective
<1>5. ToSet(r) = ToSet(s) \cup {e}
  BY <1>1, <1>3 DEF ToSet
<1> QED BY <1>1, <1>4, <1>5 DEF r
=============================================================================
