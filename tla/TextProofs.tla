----------------------------- MODULE TextProofs ------------------------------
(***************************************************************************)
(* Theorems about Text, for any alphabet, any pairs, patterns and size of  *)
(* the buffer.  A recursive function is the CHOOSE of a solution of its    *)
(* equation; each is compared with a solution given outright, or with one  *)
(* that is built up to the least place where it could fail.                *)
(***************************************************************************)
EXTENDS Text, SequenceLemmas, TLAPS

-----------------------------------------------------------------------------
(* Where the next separator is, and where a run of separators ends.        *)

LEMMA AfterSepsIs ==
  ASSUME NEW S, NEW t \in Seq(S), NEW i \in 1..(Len(t) + 1), NEW sep
  PROVE  /\ AfterSeps(t, i, sep) \in i..(Len(t) + 1)
         /\ \A j \in i..(AfterSeps(t, i, sep) - 1) : t[j] = sep
         /\ AfterSeps(t, i, sep) <= Len(t) => t[AfterSeps(t, i, sep)] # sep
<1> DEFINE A == {j \in i..(Len(t) + 1) : j = Len(t) + 1 \/ t[j] # sep} \cup {Len(t) + 1}
<1>1. Len(t) \in Nat
  BY LenProperties
<1>2. A \in SUBSET (0..(Len(t) + 1)) /\ A # {}
  BY <1>1
<1>3. Len(t) + 1 \in Nat
  BY <1>1
<1>4. Min(A) \in A /\ \A y \in A : Min(A) <= y
  <2> HIDE DEF A
  <2> QED BY ONLY <1>2, <1>3, MinOfBounded
<1>5. AfterSeps(t, i, sep) = Min(A)
  BY DEF AfterSeps
<1> HIDE DEF A
<1>6. \A j \in i..(Min(A) - 1) : t[j] = sep
  <2> SUFFICES ASSUME NEW j \in i..(Min(A) - 1), t[j] # sep PROVE FALSE
    OBVIOUS
  <2>1. Min(A) \in 1..(Len(t) + 1)
    BY <1>1, <1>4 DEF A
  <2>2. j \in i..(Len(t) + 1)
    BY <1>1, <2>1
  <2>3. j \in A /\ j < Min(A)
    BY <2>1, <2>2 DEF A
  <2> QED BY <1>1, <1>4, <2>1, <2>3
<1>7. Min(A) \in i..(Len(t) + 1) /\ (Min(A) <= Len(t) => t[Min(A)] # sep)
  BY <1>1, <1>4 DEF A
<1> QED BY <1>5, <1>6, <1>7

LEMMA AfterSepsPastEnd ==
  ASSUME NEW S, NEW t \in Seq(S), NEW i \in Nat, i > Len(t) + 1, NEW sep
  PROVE  AfterSeps(t, i, sep) = Len(t) + 1
<1> DEFINE A == {j \in i..(Len(t) + 1) : j = Len(t) + 1 \/ t[j] # sep} \cup {Len(t) + 1}
<1>1. Len(t) \in Nat
  BY LenProperties
<1>2. A = {Len(t) + 1}
  BY <1>1
<1>3. AfterSeps(t, i, sep) = Min(A)
  BY DEF AfterSeps
<1> QED BY <1>1, <1>2, <1>3 DEF Min

LEMMA NextSepIs ==
  ASSUME NEW S, NEW t \in Seq(S), NEW i \in 1..(Len(t) + 1), NEW sep
  PROVE  /\ NextSep(t, i, sep) \in i..(Len(t) + 1)
         /\ \A j \in i..(NextSep(t, i, sep) - 1) : t[j] # sep
         /\ NextSep(t, i, sep) <= Len(t) => t[NextSep(t, i, sep)] = sep
<1> DEFINE A == {j \in i..Len(t) : t[j] = sep} \cup {Len(t) + 1}
<1>1. Len(t) \in Nat
  BY LenProperties
<1>2. A \in SUBSET (0..(Len(t) + 1)) /\ A # {}
  BY <1>1
<1>3. Len(t) + 1 \in Nat
  BY <1>1
<1>4. Min(A) \in A /\ \A y \in A : Min(A) <= y
  <2> HIDE DEF A
  <2> QED BY ONLY <1>2, <1>3, MinOfBounded
<1>5. NextSep(t, i, sep) = Min(A)
  BY DEF NextSep
<1> HIDE DEF A
<1>6. \A j \in i..(Min(A) - 1) : t[j] # sep
  <2> SUFFICES ASSUME NEW j \in i..(Min(A) - 1), t[j] = sep PROVE FALSE
    OBVIOUS
  <2>1. Min(A) \in 1..(Len(t) + 1)
    BY <1>1, <1>4 DEF A
  <2>2. j \in i..Len(t)
    BY <1>1, <2>1
  <2>3. j \in A /\ j < Min(A)
    BY <2>1, <2>2 DEF A
  <2> QED BY <1>1, <1>4, <2>1, <2>3
<1>7. Min(A) \in i..(Len(t) + 1) /\ (Min(A) <= Len(t) => t[Min(A)] = sep)
  BY <1>1, <1>4 DEF A
<1> QED BY <1>5, <1>6, <1>7

-----------------------------------------------------------------------------
(* count_lines() counts the places where a run begins.                     *)

Begins(t, sep) == {i \in 1..Len(t) : t[i] # sep /\ (i > 1 => t[i - 1] = sep)}
Later(t, sep, i) == {j \in Begins(t, sep) : j > i}
Earlier(t, sep, i) == {j \in Begins(t, sep) : j < i}

\* A text that does not begin with a separator.
Stripped(t, sep) == t # <<>> => t[1] # sep

LEMMA BeginsFinite ==
  ASSUME NEW S, NEW t \in Seq(S), NEW sep
  PROVE  /\ IsFiniteSet(Begins(t, sep)) /\ Cardinality(Begins(t, sep)) \in 0..Len(t)
         /\ \A i \in Int : /\ IsFiniteSet(Later(t, sep, i)) /\ Cardinality(Later(t, sep, i)) \in Nat
                           /\ IsFiniteSet(Earlier(t, sep, i)) /\ Cardinality(Earlier(t, sep, i)) \in Nat
<1>1. Len(t) \in Nat
  BY LenProperties
<1>2. IsFiniteSet(1..Len(t)) /\ Cardinality(1..Len(t)) = Len(t)
  <2>1. 1 \in Int /\ Len(t) \in Int
    BY <1>1
  <2>2. /\ IsFiniteSet(1..Len(t))
        /\ Cardinality(1..Len(t)) = IF 1 > Len(t) THEN 0 ELSE Len(t) - 1 + 1
    BY ONLY <2>1, FS_Interval
  <2> QED BY ONLY <1>1, <2>2
<1>3. Begins(t, sep) \in SUBSET (1..Len(t))
  BY DEF Begins
<1>4. IsFiniteSet(Begins(t, sep)) /\ Cardinality(Begins(t, sep)) <= Len(t)
  BY <1>2, <1>3, FS_Subset
<1>5. Cardinality(Begins(t, sep)) \in Nat
  BY <1>4, FS_CardinalityType
<1>6. ASSUME NEW T \in SUBSET Begins(t, sep) PROVE IsFiniteSet(T) /\ Cardinality(T) \in Nat
  BY <1>4, FS_Subset, FS_CardinalityType
<1>7. \A i \in Int : /\ Later(t, sep, i) \in SUBSET Begins(t, sep)
                     /\ Earlier(t, sep, i) \in SUBSET Begins(t, sep)
  BY DEF Later, Earlier
<1> QED BY <1>1, <1>4, <1>5, <1>6, <1>7

\* One step of the loop of count_lines(), from the end on.
LEMMA LaterInSteps ==
  ASSUME NEW S, NEW t \in Seq(S), NEW sep, NEW i \in 1..Len(t)
  PROVE  /\ t[i] # sep => Later(t, sep, i) = Later(t, sep, i + 1)
         /\ t[i] = sep =>
              LET j == AfterSeps(t, i, sep) IN
                /\ j \in (i + 1)..(Len(t) + 1)
                /\ j > Len(t) => Later(t, sep, i) = {} /\ Later(t, sep, j) = {}
                /\ j <= Len(t) => /\ Later(t, sep, i) = Later(t, sep, j) \cup {j}
                                  /\ j \notin Later(t, sep, j)
<1>1. Len(t) \in Nat
  BY LenProperties
<1>2. t[i] # sep => Later(t, sep, i) = Later(t, sep, i + 1)
  BY <1>1 DEF Later, Begins
<1>3. ASSUME t[i] = sep, NEW j, j = AfterSeps(t, i, sep)
      PROVE  /\ j \in (i + 1)..(Len(t) + 1)
             /\ j > Len(t) => Later(t, sep, i) = {} /\ Later(t, sep, j) = {}
             /\ j <= Len(t) => /\ Later(t, sep, i) = Later(t, sep, j) \cup {j}
                               /\ j \notin Later(t, sep, j)
  <2>1. /\ j \in i..(Len(t) + 1) /\ \A k \in i..(j - 1) : t[k] = sep
        /\ j <= Len(t) => t[j] # sep
    BY <1>1, <1>3, AfterSepsIs
  <2>2. j \in (i + 1)..(Len(t) + 1)
    BY <1>1, <1>3, <2>1
  <2>3. \A k \in Begins(t, sep) : k > i => k >= j
    BY <1>1, <2>1 DEF Begins
  <2>4. j <= Len(t) => j \in Begins(t, sep)
    BY <1>1, <2>1, <2>2 DEF Begins
  <2>5. \A k \in Begins(t, sep) : k \in 1..Len(t)
    BY DEF Begins
  <2> QED BY <1>1, <2>2, <2>3, <2>4, <2>5 DEF Later
<1> QED BY <1>2, <1>3

LEMMA CountIsBegins ==
  ASSUME NEW S, NEW t \in Seq(S), NEW sep, Stripped(t, sep)
  PROVE  count_lines(t, sep) = Cardinality(Begins(t, sep))
<1> DEFINE N == Len(t) + 1
           Rec(f) == [i \in 1..N |->
                        IF i > Len(t) THEN 0
                        ELSE IF t[i] # sep THEN f[i + 1]
                        ELSE LET j == AfterSeps(t, i, sep)
                             IN  (IF j <= Len(t) THEN 1 ELSE 0) + f[j]]
           g == [i \in 1..N |-> Cardinality(Later(t, sep, i))]
           more == CHOOSE f : f = Rec(f)
<1>0. Len(t) \in Nat
  BY LenProperties
<1>1. Len(t) \in Nat /\ \A i \in 1..N : Cardinality(Later(t, sep, i)) \in Nat
  <2>1. \A i \in 1..N : i \in Int
    BY <1>0
  <2> QED BY ONLY <1>0, <2>1, BeginsFinite, t \in Seq(S)
<1>2. \A i \in 1..N :
        /\ i > Len(t) => g[i] = 0
        /\ i <= Len(t) /\ t[i] # sep => g[i] = g[i + 1]
        /\ i <= Len(t) /\ t[i] = sep =>
             LET j == AfterSeps(t, i, sep)
             IN  j \in (i + 1)..N /\ g[i] = (IF j <= Len(t) THEN 1 ELSE 0) + g[j]
  <2> SUFFICES ASSUME NEW i \in 1..N
               PROVE  /\ i > Len(t) => g[i] = 0
                      /\ i <= Len(t) /\ t[i] # sep => g[i] = g[i + 1]
                      /\ i <= Len(t) /\ t[i] = sep =>
                           LET j == AfterSeps(t, i, sep)
                           IN  j \in (i + 1)..N /\ g[i] = (IF j <= Len(t) THEN 1 ELSE 0) + g[j]
    OBVIOUS
  <2>1. CASE i > Len(t)
    <3>1. Later(t, sep, i) = {}
      BY <1>1, <2>1 DEF Later, Begins
    <3>2. g[i] = 0
      BY <3>1, FS_EmptySet
    <3> QED BY <2>1, <3>2
  <2>2. CASE i <= Len(t) /\ t[i] # sep
    <3>1. i \in 1..Len(t) /\ i + 1 \in 1..N
      BY <1>1, <2>2
    <3>2. Later(t, sep, i) = Later(t, sep, i + 1)
      BY <2>2, <3>1, LaterInSteps
    <3> QED BY <2>2, <3>1, <3>2, <1>1
  <2>3. CASE i <= Len(t) /\ t[i] = sep
    <3>0. i \in 1..Len(t)
      BY <1>1, <2>3
    <3> DEFINE j == AfterSeps(t, i, sep)
    <3>1. /\ j \in (i + 1)..N
          /\ j > Len(t) => Later(t, sep, i) = {} /\ Later(t, sep, j) = {}
          /\ j <= Len(t) => /\ Later(t, sep, i) = Later(t, sep, j) \cup {j}
                            /\ j \notin Later(t, sep, j)
      BY <2>3, <3>0, LaterInSteps
    <3> HIDE DEF j
    <3>2. j \in 1..N /\ j \in Int
      BY <1>1, <3>0, <3>1
    <3>3. g[i] = Cardinality(Later(t, sep, i)) /\ g[j] = Cardinality(Later(t, sep, j))
      BY <3>2
    <3> HIDE DEF g
    <3>4. CASE j > Len(t)
      <4>1. g[i] = 0 /\ g[j] = 0
        BY <3>1, <3>3, <3>4, FS_EmptySet
      <4> QED BY <1>1, <2>3, <3>1, <3>2, <3>4, <4>1 DEF j
    <3>5. CASE j <= Len(t)
      <4>1. IsFiniteSet(Later(t, sep, j))
        BY <3>2, BeginsFinite
      <4>2. Cardinality(Later(t, sep, j) \cup {j}) = Cardinality(Later(t, sep, j)) + 1
        BY <3>1, <3>5, <4>1, FS_AddElement
      <4>3. g[i] = 1 + g[j]
        <5>1. Cardinality(Later(t, sep, j)) \in Nat
          BY <1>1, <3>2
        <5>2. Cardinality(Later(t, sep, i)) = Cardinality(Later(t, sep, j)) + 1
          BY <3>1, <3>5, <4>2
        <5> QED BY ONLY <3>3, <5>1, <5>2
      <4> QED BY <2>3, <3>1, <3>5, <4>3, <1>1 DEF j
    <3> QED BY <1>1, <3>2, <3>4, <3>5
  <2> QED BY <1>1, <2>1, <2>2, <2>3
<1>3. g = Rec(g)
  <2> SUFFICES ASSUME NEW i \in 1..N PROVE g[i] = Rec(g)[i]
    OBVIOUS
  <2> HIDE DEF g
  <2> QED BY <1>1, <1>2
<1>4. more = Rec(more)
  BY <1>3
<1> HIDE DEF g, more
<1>5. \A i \in 1..N : more[i] = g[i]
  <2> DEFINE Bad == {d \in 0..Len(t) : more[N - d] # g[N - d]}
  <2>1. SUFFICES Bad = {}
    <3>1. \A i \in 1..N : N - i \in 0..Len(t) /\ N - (N - i) = i
      BY <1>1
    <3> QED BY <2>1, <3>1
  <2>2. SUFFICES ASSUME Bad # {} PROVE FALSE
    OBVIOUS
  <2>3. PICK d \in Bad : \A e \in Bad : d <= e
    <3>1. Bad \in SUBSET (0..Len(t))
      OBVIOUS
    <3> HIDE DEF Bad
    <3> QED BY <1>1, <2>2, <3>1, MinOfBounded
  <2>4. PICK i \in 1..N : i = N - d /\ more[i] # g[i]
    BY <1>1
  <2>5. \A k \in 1..N : k > i => more[k] = g[k]
    <3> SUFFICES ASSUME NEW k \in 1..N, k > i PROVE more[k] = g[k]
      OBVIOUS
    <3>1. N - k \in 0..Len(t) /\ N - (N - k) = k /\ N - k < d
      BY <1>1, <2>4
    <3> QED BY <2>3, <3>1
  <2>6. more[i] = Rec(more)[i]
    BY <1>4
  <2> HIDE DEF Bad
  <2>7. CASE i > Len(t)
    BY <1>2, <2>4, <2>6, <2>7
  <2>8. CASE i <= Len(t) /\ t[i] # sep
    <3>1. i + 1 \in 1..N
      BY <1>1, <2>8
    <3> QED BY <1>1, <1>2, <2>4, <2>5, <2>6, <2>8, <3>1
  <2>9. CASE i <= Len(t) /\ t[i] = sep
    <3> DEFINE j == AfterSeps(t, i, sep)
    <3>1. j \in (i + 1)..N /\ g[i] = (IF j <= Len(t) THEN 1 ELSE 0) + g[j]
      BY <1>2, <2>9
    <3>2. more[i] = (IF j <= Len(t) THEN 1 ELSE 0) + more[j]
      BY <1>1, <2>6, <2>9
    <3> HIDE DEF j
    <3>3. j \in 1..N /\ j > i
      BY <1>1, <3>1
    <3> QED BY <2>4, <2>5, <3>1, <3>2, <3>3
  <2> QED BY <1>1, <2>7, <2>8, <2>9
<1>6. count_lines(t, sep) = IF t = <<>> THEN 0 ELSE 1 + more[1]
  BY DEF count_lines, more
<1>7. CASE t = <<>>
  <2>1. Len(t) = 0
    BY <1>7, EmptySeq
  <2>2. Begins(t, sep) = {}
    BY <2>1 DEF Begins
  <2> QED BY <1>6, <1>7, <2>2, FS_EmptySet
<1>8. CASE t # <<>>
  <2>1. Len(t) \in Nat \ {0} /\ t[1] # sep
    BY <1>8, EmptySeq DEF Stripped
  <2>2. Begins(t, sep) = Later(t, sep, 1) \cup {1} /\ 1 \notin Later(t, sep, 1)
    BY <2>1 DEF Begins, Later
  <2>3. IsFiniteSet(Later(t, sep, 1))
    BY BeginsFinite
  <2>4. Cardinality(Later(t, sep, 1) \cup {1}) = Cardinality(Later(t, sep, 1)) + 1
    BY <2>2, <2>3, FS_AddElement
  <2>5. 1 \in 1..N /\ g[1] = Cardinality(Later(t, sep, 1))
    BY <1>1 DEF g
  <2> QED BY <1>1, <1>5, <1>6, <1>8, <2>2, <2>4, <2>5
<1> QED BY <1>7, <1>8

-----------------------------------------------------------------------------
(* split() cuts, one after the other, the runs that were counted.          *)

\* The first place of f has x, each other what h makes of the one before.
Iterates(f, h, x, n) == \A k \in 1..n : f[k] = IF k = 1 THEN x ELSE h[f[k - 1]]

\* Applying h again and again is a function on any number of places.
LEMMA Iterated ==
  ASSUME NEW S, NEW h \in [S -> S], NEW x \in S, NEW N \in Nat
  PROVE  \E f \in [1..N -> S] : Iterates(f, h, x, N)
<1> DEFINE Upto(n) == \E f \in [1..n -> S] :
                        \A k \in 1..n : f[k] = IF k = 1 THEN x ELSE h[f[k - 1]]
           Bad == {n \in 0..N : ~Upto(n)}
<1>0. SUFFICES Upto(N)
  BY DEF Iterates
<1>1. SUFFICES ASSUME Bad # {} PROVE FALSE
  <2>1. N \in 0..N
    OBVIOUS
  <2> QED BY <1>1, <2>1
<1>2. PICK n \in Bad : \A m \in Bad : n <= m
  <2>1. Bad \in SUBSET (0..N)
    OBVIOUS
  <2> HIDE DEF Bad
  <2> QED BY <1>1, <2>1, MinOfBounded
<1>3. n # 0
  <2>1. Upto(0)
    <3> DEFINE f == [k \in 1..0 |-> x]
    <3>1. f \in [1..0 -> S] /\ \A k \in 1..0 : f[k] = IF k = 1 THEN x ELSE h[f[k - 1]]
      OBVIOUS
    <3> QED BY <3>1
  <2> QED BY <2>1
<1>4. n - 1 \in 0..N /\ Upto(n - 1) /\ n \in 1..N
  <2>1. n \in 1..N /\ n - 1 \in 0..N /\ ~(n <= n - 1)
    BY <1>3
  <2>2. n - 1 \notin Bad
    BY <1>2, <2>1
  <2> QED BY <2>1, <2>2
<1>5. PICK f \in [1..(n - 1) -> S] :
        \A k \in 1..(n - 1) : f[k] = IF k = 1 THEN x ELSE h[f[k - 1]]
  BY <1>4
<1> DEFINE e == IF n = 1 THEN x ELSE h[f[n - 1]]
           g == [k \in 1..n |-> IF k = n THEN e ELSE f[k]]
<1>6. e \in S
  <2>1. n # 1 => n - 1 \in 1..(n - 1)
    BY <1>4
  <2> QED BY <2>1
<1>7. \A k \in 1..n : k # n => k \in 1..(n - 1)
  BY <1>4
<1>8. g \in [1..n -> S]
  BY <1>6, <1>7
<1>9. \A k \in 1..n : g[k] = IF k = 1 THEN x ELSE h[g[k - 1]]
  <2> SUFFICES ASSUME NEW k \in 1..n PROVE g[k] = IF k = 1 THEN x ELSE h[g[k - 1]]
    OBVIOUS
  <2>1. k # 1 => k - 1 \in 1..n /\ k - 1 # n
    BY <1>4
  <2>2. k # 1 => g[k - 1] = f[k - 1]
    BY <2>1
  <2>3. CASE k = n
    BY <2>2, <2>3
  <2>4. CASE k # n
    <3>1. k \in 1..(n - 1) /\ g[k] = f[k]
      BY <1>7, <2>4
    <3> QED BY <1>5, <2>2, <3>1
  <2> QED BY <2>3, <2>4
<1> QED BY <1>2, <1>8, <1>9

\* Where the loop of split() is after the run in which position p lies.
Following(t, sep, p) == AfterSeps(t, NextSep(t, p, sep) + 1, sep)

LEMMA FollowingWithin ==
  ASSUME NEW S, NEW t \in Seq(S), NEW sep, NEW p \in 1..(Len(t) + 1)
  PROVE  Following(t, sep, p) \in 1..(Len(t) + 1)
<1> DEFINE e == NextSep(t, p, sep)
<1>1. Len(t) \in Nat
  BY LenProperties
<1>2. e \in 1..(Len(t) + 1)
  BY <1>1, NextSepIs
<1> HIDE DEF e
<1>3. CASE e <= Len(t)
  <2>1. e + 1 \in 1..(Len(t) + 1)
    BY <1>1, <1>2, <1>3
  <2>2. AfterSeps(t, e + 1, sep) \in (e + 1)..(Len(t) + 1)
    BY <2>1, AfterSepsIs
  <2> QED BY <1>1, <1>2, <2>2 DEF Following, e
<1>4. CASE e = Len(t) + 1
  <2>1. AfterSeps(t, e + 1, sep) = Len(t) + 1
    BY <1>1, <1>4, AfterSepsPastEnd
  <2> QED BY <1>1, <2>1 DEF Following, e
<1> QED BY <1>1, <1>2, <1>3, <1>4

\* From the beginning of a run the loop gets to that of the next one.
LEMMA FollowingRun ==
  ASSUME NEW S, NEW t \in Seq(S), NEW sep, NEW b \in Begins(t, sep),
         NEW i \in Begins(t, sep), i > b
  PROVE  /\ Following(t, sep, b) \in Begins(t, sep)
         /\ Earlier(t, sep, Following(t, sep, b)) = Earlier(t, sep, b) \cup {b}
<1> DEFINE e == NextSep(t, b, sep)
           a == AfterSeps(t, e + 1, sep)
<1>1. Len(t) \in Nat /\ b \in 1..Len(t) /\ t[b] # sep /\ i \in 1..Len(t)
  BY LenProperties DEF Begins
<1>2. /\ e \in b..(Len(t) + 1) /\ \A j \in b..(e - 1) : t[j] # sep
      /\ e <= Len(t) => t[e] = sep
  BY <1>1, NextSepIs
<1> HIDE DEF e
<1>3. \A j \in Begins(t, sep) : j > b => j > e
  <2> SUFFICES ASSUME NEW j \in Begins(t, sep), j > b, j <= e PROVE FALSE
    BY <1>1, <1>2 DEF Begins
  <2>1. j \in 1..Len(t) /\ t[j] # sep /\ t[j - 1] = sep
    BY <1>1 DEF Begins
  <2>2. j - 1 \in b..(e - 1)
    BY <1>1, <1>2, <2>1
  <2> QED BY <1>2, <2>1, <2>2
<1>4. e \in 1..Len(t) /\ e # b /\ e + 1 \in 1..(Len(t) + 1) /\ i >= e + 1
  BY <1>1, <1>2, <1>3
<1>5. /\ a \in (e + 1)..(Len(t) + 1) /\ \A j \in (e + 1)..(a - 1) : t[j] = sep
      /\ a <= Len(t) => t[a] # sep
  BY <1>4, AfterSepsIs
<1> HIDE DEF a
<1>6. \A j \in Begins(t, sep) : j > b => j >= a
  <2> SUFFICES ASSUME NEW j \in Begins(t, sep), j > b, j < a PROVE FALSE
    BY <1>1, <1>5 DEF Begins
  <2>1. j \in 1..Len(t) /\ t[j] # sep /\ j > e
    BY <1>3 DEF Begins
  <2>2. j \in (e + 1)..(a - 1)
    BY <1>4, <1>5, <2>1
  <2> QED BY <1>5, <2>1, <2>2
<1>7. a \in 1..Len(t) /\ a > b /\ t[a - 1] = sep
  <2>1. a <= Len(t)
    BY <1>1, <1>5, <1>6
  <2>2. a = e + 1 \/ a - 1 \in (e + 1)..(a - 1)
    BY <1>4, <1>5
  <2> QED BY <1>1, <1>2, <1>4, <1>5, <2>1, <2>2
<1>8. a \in Begins(t, sep)
  BY <1>5, <1>7 DEF Begins
<1>9. Earlier(t, sep, a) = Earlier(t, sep, b) \cup {b}
  <2>1. \A j \in Begins(t, sep) : j \in Int
    BY <1>1 DEF Begins
  <2>2. \A j \in Begins(t, sep) : j < a <=> j < b \/ j = b
    BY <1>1, <1>6, <1>7, <2>1
  <2> QED BY <2>2 DEF Earlier
<1>10. Following(t, sep, b) = a
  BY DEF Following, a, e
<1> QED BY <1>8, <1>9, <1>10

StartRec(f, t, sep) ==
  [k \in 1..(Len(t) + 1) |->
     IF k = 1 THEN 1 ELSE AfterSeps(t, NextSep(t, f[k - 1], sep) + 1, sep)]

\* What split() starts from: the k-th place is where the k-th run begins.
LEMMA StartsAre ==
  ASSUME NEW S, NEW t \in Seq(S), NEW sep, Stripped(t, sep),
         NEW start, start = CHOOSE f : f = StartRec(f, t, sep),
         NEW k \in 1..Cardinality(Begins(t, sep))
  PROVE  start[k] \in Begins(t, sep) /\ Cardinality(Earlier(t, sep, start[k])) = k - 1
<1> DEFINE N == Len(t) + 1
           C == Cardinality(Begins(t, sep))
           h == [p \in 1..N |-> Following(t, sep, p)]
           Good(n) == /\ start[n] \in Begins(t, sep)
                      /\ Cardinality(Earlier(t, sep, start[n])) = n - 1
           Bad == {n \in 1..C : ~Good(n)}
<1>1. Len(t) \in Nat /\ C \in 0..Len(t) /\ IsFiniteSet(Begins(t, sep))
      /\ Begins(t, sep) \in SUBSET (1..Len(t))
  BY LenProperties, BeginsFinite DEF Begins
<1>2. PICK f \in [1..N -> 1..N] : \A n \in 1..N : f[n] = IF n = 1 THEN 1 ELSE h[f[n - 1]]
  <2>1. h \in [1..N -> 1..N] /\ 1 \in 1..N /\ N \in Nat
    BY <1>1, FollowingWithin
  <2> HIDE DEF h, N
  <2>2. PICK P : P = 1..N
    OBVIOUS
  <2>3. h \in [P -> P] /\ 1 \in P /\ N \in Nat
    BY <2>1, <2>2
  <2>4. \E f \in [1..N -> P] : Iterates(f, h, 1, N)
    BY ONLY <2>3, Iterated
  <2> QED BY <2>2, <2>4 DEF Iterates
<1>3. f = StartRec(f, t, sep)
  <2>1. \A n \in 1..N : n # 1 => n - 1 \in 1..N /\ f[n - 1] \in 1..N
    BY <1>1, <1>2
  <2>2. \A n \in 1..N : f[n] = StartRec(f, t, sep)[n]
    BY <1>2, <2>1 DEF StartRec, Following
  <2>3. DOMAIN f = 1..N
    BY <1>2
  <2>4. f = [n \in 1..N |-> f[n]]
    BY <1>2
  <2> QED BY <2>2, <2>4 DEF StartRec
<1>4. start = StartRec(start, t, sep)
  BY <1>3
<1>5. \A n \in 1..N : start[n] = IF n = 1 THEN 1 ELSE Following(t, sep, start[n - 1])
  BY <1>4 DEF StartRec, Following
<1>6. SUFFICES ASSUME Bad # {} PROVE FALSE
  <2>1. k \in 1..C
    OBVIOUS
  <2> QED BY <1>6, <2>1
<1>7. PICK n \in Bad : \A m \in Bad : n <= m
  <2>1. Bad \in SUBSET (0..Len(t))
    BY <1>1
  <2> HIDE DEF Bad
  <2> QED BY <1>1, <1>6, <2>1, MinOfBounded
<1>8. n \in 1..C /\ ~Good(n) /\ n \in 1..N /\ C >= 1
  BY <1>1, <1>7
<1>9. CASE n = 1
  <2>1. t # <<>> /\ Len(t) >= 1
    BY <1>1, <1>8, EmptySeq
  <2>2. 1 \in Begins(t, sep)
    BY <1>1, <2>1 DEF Begins, Stripped
  <2>3. Earlier(t, sep, 1) = {}
    BY <1>1 DEF Earlier
  <2>4. start[1] = 1
    BY <1>5, <1>8, <1>9
  <2>5. Cardinality(Earlier(t, sep, 1)) = 0
    BY <2>3, FS_EmptySet
  <2> QED BY <1>8, <1>9, <2>2, <2>4, <2>5
<1>10. CASE n # 1
  <2>1. n - 1 \in 1..C /\ n - 1 < n
    BY <1>1, <1>8, <1>10
  <2>2. Good(n - 1)
    <3>1. n - 1 \notin Bad
      BY <1>1, <1>7, <1>8, <2>1
    <3> QED BY <2>1, <3>1
  <2>3. PICK b \in Begins(t, sep) : b = start[n - 1] /\ Cardinality(Earlier(t, sep, b)) = n - 2
    <3>1. (n - 1) - 1 = n - 2
      BY <1>1, <1>8
    <3> QED BY <2>2, <3>1
  <2>4. start[n] = Following(t, sep, b)
    BY <1>5, <1>8, <1>10, <2>3
  <2>5. b \in Int /\ IsFiniteSet(Earlier(t, sep, b)) /\ b \notin Earlier(t, sep, b)
    <3>1. b \in Int
      BY <1>1
    <3> QED BY <3>1, BeginsFinite DEF Earlier
  <2>6. Cardinality(Earlier(t, sep, b) \cup {b}) = n - 1
    <3>1. Cardinality(Earlier(t, sep, b) \cup {b}) = Cardinality(Earlier(t, sep, b)) + 1
      BY ONLY <2>5, FS_AddElement
    <3>2. n \in Nat
      BY <1>1, <1>8
    <3> QED BY ONLY <2>3, <3>1, <3>2
  <2>7. \E i \in Begins(t, sep) : i > b
    <3> SUFFICES ASSUME \A i \in Begins(t, sep) : ~(i > b) PROVE FALSE
      OBVIOUS
    <3>1. Begins(t, sep) = Earlier(t, sep, b) \cup {b}
      BY <1>1, <2>5 DEF Earlier
    <3> QED BY <1>1, <1>8, <2>6, <3>1
  <2>8. /\ Following(t, sep, b) \in Begins(t, sep)
        /\ Earlier(t, sep, Following(t, sep, b)) = Earlier(t, sep, b) \cup {b}
    BY <2>7, FollowingRun
  <2> QED BY <1>8, <2>4, <2>6, <2>8
<1> QED BY <1>9, <1>10

\* The part that comes after as many as begin earlier is the run at b.
CutsAt(parts, t, sep) ==
  \A b \in Begins(t, sep) :
    /\ Cardinality(Earlier(t, sep, b)) + 1 \in 1..Cardinality(Begins(t, sep))
    /\ parts[Cardinality(Earlier(t, sep, b)) + 1] = SubSeq(t, b, NextSep(t, b, sep) - 1)

LEMMA SplitCuts ==
  ASSUME NEW S, NEW inp \in Seq(S), NEW sep,
         NEW t \in Seq(S), t = SubSeq(inp, AfterSeps(inp, 1, sep), Len(inp)), Stripped(t, sep)
  PROVE  /\ DOMAIN split(inp, sep) = 1..Cardinality(Begins(t, sep))
         /\ Len(split(inp, sep)) = Cardinality(Begins(t, sep))
         /\ CutsAt(split(inp, sep), t, sep)
<1> DEFINE C == Cardinality(Begins(t, sep))
           start == CHOOSE f : f = StartRec(f, t, sep)
           cut(k) == SubSeq(t, start[k], NextSep(t, start[k], sep) - 1)
<1>1. split(inp, sep) = [k \in 1..count_lines(t, sep) |-> cut(k)]
  BY DEF split, StartRec
<1>2. count_lines(t, sep) = C
  BY CountIsBegins
<1>3. C \in Nat /\ IsFiniteSet(Begins(t, sep))
  <2>1. C \in 0..Len(t) /\ IsFiniteSet(Begins(t, sep))
    BY BeginsFinite
  <2>2. Len(t) \in Nat
    BY LenProperties
  <2> QED BY <2>1, <2>2
<1>4. DOMAIN split(inp, sep) = 1..C /\ Len(split(inp, sep)) = C
  BY <1>1, <1>2, <1>3
<1>5. ASSUME NEW b \in Begins(t, sep)
      PROVE  /\ Cardinality(Earlier(t, sep, b)) + 1 \in 1..C
             /\ split(inp, sep)[Cardinality(Earlier(t, sep, b)) + 1]
                  = SubSeq(t, b, NextSep(t, b, sep) - 1)
  <2> DEFINE r == Cardinality(Earlier(t, sep, b)) + 1
  <2>1. Begins(t, sep) \in SUBSET Int /\ b \in Int
    BY LenProperties DEF Begins
  <2>2. /\ IsFiniteSet(Earlier(t, sep, b)) /\ Cardinality(Earlier(t, sep, b)) \in Nat
        /\ b \notin Earlier(t, sep, b)
    <3>1. b \notin Earlier(t, sep, b)
      BY <2>1 DEF Earlier
    <3> QED BY <2>1, <3>1, BeginsFinite
  <2>3. r = Cardinality(Earlier(t, sep, b) \cup {b})
    BY <2>2, FS_AddElement
  <2>10. r \in Nat \ {0} /\ Cardinality(Earlier(t, sep, b)) = r - 1
    BY ONLY <2>2
  <2>4. Earlier(t, sep, b) \cup {b} \in SUBSET Begins(t, sep)
    BY DEF Earlier
  <2> HIDE DEF r, C, start
  <2>5. r <= C
    BY ONLY <1>3, <2>3, <2>4, FS_Subset DEF C
  <2>6. r \in 1..C
    BY <1>3, <2>5, <2>10
  <2>7. start[r] \in Begins(t, sep) /\ Cardinality(Earlier(t, sep, start[r])) = r - 1
    <3>1. r \in 1..Cardinality(Begins(t, sep))
      BY <2>6 DEF C
    <3>2. PICK k, st : k = r /\ st = CHOOSE f : f = StartRec(f, t, sep)
      OBVIOUS
    <3>3. st[k] \in Begins(t, sep) /\ Cardinality(Earlier(t, sep, st[k])) = k - 1
      <4>1. k \in 1..Cardinality(Begins(t, sep))
        BY <3>1, <3>2
      <4> QED BY ONLY t \in Seq(S), Stripped(t, sep), <3>2, <4>1, StartsAre
    <3> QED BY ONLY <3>2, <3>3 DEF start
  <2>8. start[r] = b
    <3>1. ASSUME NEW x \in Begins(t, sep), NEW y \in Begins(t, sep), x < y,
                 Cardinality(Earlier(t, sep, x)) = Cardinality(Earlier(t, sep, y))
          PROVE  FALSE
      <4>1. x \in Int /\ y \in Int
        BY <2>1
      <4>2. Earlier(t, sep, x) \in SUBSET Earlier(t, sep, y)
        BY <2>1, <3>1, <4>1 DEF Earlier
      <4>3. IsFiniteSet(Earlier(t, sep, y))
        BY <4>1, BeginsFinite
      <4>4. Earlier(t, sep, x) = Earlier(t, sep, y)
        BY <3>1, <4>2, <4>3, FS_Subset
      <4> QED BY <3>1, <4>1, <4>4 DEF Earlier
    <3>2. Cardinality(Earlier(t, sep, b)) = Cardinality(Earlier(t, sep, start[r]))
      BY <2>7, <2>10
    <3>3. start[r] \in Int
      BY <2>1, <2>7
    <3> QED BY <2>1, <2>7, <3>1, <3>2, <3>3
  <2>9. split(inp, sep)[r] = cut(r)
    BY <1>1, <1>2, <2>6
  <2> QED BY <2>6, <2>8, <2>9 DEF r
<1> QED BY <1>4, <1>5 DEF CutsAt

-----------------------------------------------------------------------------
(* The runs of the whole text are those of what follows the separators in   *)
(* front.                                                                   *)

RunsOf(inp, sep) ==
  {r \in (1..Len(inp)) \X (1..Len(inp)) :
     /\ r[1] <= r[2]
     /\ \A i \in r[1]..r[2] : inp[i] # sep
     /\ r[1] > 1 => inp[r[1] - 1] = sep
     /\ r[2] < Len(inp) => inp[r[2] + 1] = sep}
UpTo(inp, sep, r) == {q \in RunsOf(inp, sep) : q[1] <= r[1]}

LEMMA EquallyMany ==
  ASSUME NEW A, NEW B, IsFiniteSet(A), NEW F \in [A -> B],
         \A x \in A, y \in A : F[x] = F[y] => x = y,
         \A z \in B : \E x \in A : F[x] = z
  PROVE  IsFiniteSet(B) /\ Cardinality(B) = Cardinality(A)
<1>1. F \in Bijection(A, B)
  BY DEF Bijection, Injection, Surjection, IsInjective
<1>2. ExistsBijection(A, B)
  BY <1>1 DEF ExistsBijection
<1> QED BY <1>2, FS_Bijection

\* The text t is what is left of inp without its first c characters.
Behind(t, inp, c, sep) ==
  /\ c \in 0..Len(inp) /\ Len(t) = Len(inp) - c
  /\ \A i \in 1..Len(t) : t[i] = inp[c + i]
  /\ \A i \in 1..c : inp[i] = sep
  /\ Len(t) > 0 => t[1] # sep

LEMMA StripLeaves ==
  ASSUME NEW S, NEW inp \in Seq(S), NEW sep, NEW c, c = AfterSeps(inp, 1, sep) - 1,
         NEW t, t = SubSeq(inp, AfterSeps(inp, 1, sep), Len(inp))
  PROVE  t \in Seq(S) /\ Behind(t, inp, c, sep) /\ Stripped(t, sep)
<1> DEFINE n == Len(inp)
           a == AfterSeps(inp, 1, sep)
<1>1. n \in Nat /\ 1 \in 1..(n + 1) /\ \A i \in 1..n : inp[i] \in S
  BY LenProperties, ElementOfSeq
<1>2. a \in 1..(n + 1) /\ (\A i \in 1..(a - 1) : inp[i] = sep) /\ (a <= n => inp[a] # sep)
  BY <1>1, AfterSepsIs
<1> HIDE DEF a, n
<1>3. \A i \in a..n : inp[i] \in S
  BY <1>1, <1>2
<1>4. /\ t \in Seq(S) /\ Len(t) = IF a <= n THEN n - a + 1 ELSE 0
      /\ \A i \in 1..(n - a + 1) : t[i] = inp[a + i - 1]
  <2>1. t = SubSeq(inp, a, n) /\ a \in Int /\ n \in Int
    BY <1>1, <1>2 DEF a, n
  <2> QED BY ONLY <1>3, <2>1, SubSeqProperties
<1>10. n \in Nat /\ a \in 1..(n + 1) /\ c = a - 1
  BY <1>1, <1>2 DEF a
<1>5. c = a - 1 /\ c \in 0..n /\ Len(t) = n - c
  <2>1. Len(t) = IF a <= n THEN n - a + 1 ELSE 0
    BY <1>4
  <2> QED BY ONLY <1>10, <2>1
<1>6. \A i \in 1..Len(t) : t[i] = inp[c + i]
  <2> SUFFICES ASSUME NEW i \in 1..Len(t) PROVE t[i] = inp[c + i]
    OBVIOUS
  <2>1. i \in 1..(n - a + 1) /\ a + i - 1 = c + i
    BY ONLY <1>10, <1>5, i \in 1..Len(t)
  <2> QED BY <1>4, <2>1
<1>7. Len(t) > 0 => t[1] # sep
  <2> SUFFICES ASSUME Len(t) > 0 PROVE t[1] # sep
    OBVIOUS
  <2>1. a <= n /\ 1 \in 1..Len(t) /\ c + 1 = a
    BY ONLY <1>10, <1>5, Len(t) > 0
  <2> QED BY <1>2, <1>6, <2>1
<1>8. Behind(t, inp, c, sep)
  BY <1>2, <1>5, <1>6, <1>7 DEF Behind, n
<1>9. t # <<>> => Len(t) > 0
  BY <1>4, EmptySeq
<1> QED BY <1>4, <1>7, <1>8, <1>9 DEF Stripped

\* The run that begins at place b of t, as a pair of places of inp.
RunAt(t, sep, c, b) == <<b + c, NextSep(t, b, sep) - 1 + c>>

LEMMA RunAtIsRun ==
  ASSUME NEW S, NEW t \in Seq(S), NEW inp \in Seq(S), NEW sep, NEW c,
         Behind(t, inp, c, sep), NEW b \in Begins(t, sep)
  PROVE  RunAt(t, sep, c, b) \in RunsOf(inp, sep)
<1> DEFINE e == NextSep(t, b, sep)
<1>1. /\ Len(t) \in Nat /\ Len(inp) \in Nat /\ c \in 0..Len(inp) /\ Len(t) = Len(inp) - c
      /\ \A i \in 1..Len(t) : t[i] = inp[c + i]
      /\ \A i \in 1..c : inp[i] = sep
  BY LenProperties DEF Behind
<1>2. b \in 1..Len(t) /\ t[b] # sep /\ (b > 1 => t[b - 1] = sep)
  BY DEF Begins
<1>3. /\ e \in b..(Len(t) + 1) /\ (\A i \in b..(e - 1) : t[i] # sep)
      /\ e <= Len(t) => t[e] = sep
  BY <1>1, <1>2, NextSepIs
<1> HIDE DEF e
<1>4. e > b
  BY <1>1, <1>2, <1>3
<1>5. b + c \in 1..Len(inp) /\ e - 1 + c \in 1..Len(inp) /\ b + c <= e - 1 + c
  BY <1>1, <1>2, <1>3, <1>4
<1>6. \A i \in (b + c)..(e - 1 + c) : inp[i] # sep
  <2> SUFFICES ASSUME NEW i \in (b + c)..(e - 1 + c) PROVE inp[i] # sep
    OBVIOUS
  <2>1. i - c \in b..(e - 1) /\ i - c \in 1..Len(t) /\ c + (i - c) = i
    BY <1>1, <1>2, <1>3
  <2> QED BY <1>1, <1>3, <2>1
<1>7. b + c > 1 => inp[b + c - 1] = sep
  <2>1. CASE b = 1
    <3>1. b + c - 1 = c /\ (b + c > 1 => c \in 1..c)
      BY <1>1, <2>1
    <3> QED BY <1>1, <3>1
  <2>2. CASE b > 1
    <3>1. b - 1 \in 1..Len(t) /\ c + (b - 1) = b + c - 1
      BY <1>1, <1>2, <2>2
    <3> QED BY <1>1, <1>2, <2>2, <3>1
  <2> QED BY <1>1, <1>2, <2>1, <2>2
<1>8. e - 1 + c < Len(inp) => inp[e - 1 + c + 1] = sep
  <2> SUFFICES ASSUME e - 1 + c < Len(inp) PROVE inp[e - 1 + c + 1] = sep
    OBVIOUS
  <2>1. e \in 1..Len(t) /\ e <= Len(t) /\ e - 1 + c + 1 = c + e
    BY <1>1, <1>2, <1>3
  <2> QED BY <1>1, <1>3, <2>1
<1>9. RunAt(t, sep, c, b) = <<b + c, e - 1 + c>>
  BY DEF RunAt, e
<1>10. PICK x, y : x = b + c /\ y = e - 1 + c
  OBVIOUS
<1>11. /\ x \in 1..Len(inp) /\ y \in 1..Len(inp) /\ x <= y
       /\ \A i \in x..y : inp[i] # sep
       /\ x > 1 => inp[x - 1] = sep
       /\ y < Len(inp) => inp[y + 1] = sep
  <2>1. x \in 1..Len(inp) /\ y \in 1..Len(inp) /\ x <= y
    BY ONLY <1>5, <1>10
  <2>2. \A i \in x..y : inp[i] # sep
    BY ONLY <1>6, <1>10
  <2>3. x > 1 => inp[x - 1] = sep
    <3>1. b \in Int /\ c \in Int /\ x \in Int
      BY <1>1, <1>2, <1>10
    <3> QED BY ONLY <1>7, <1>10, <3>1
  <2>4. y < Len(inp) => inp[y + 1] = sep
    <3>1. e \in Int /\ c \in Int /\ y \in Int
      BY <1>1, <1>3, <1>10
    <3> QED BY ONLY <1>8, <1>10, <3>1
  <2> QED BY <2>1, <2>2, <2>3, <2>4
<1>12. <<x, y>> \in RunsOf(inp, sep)
  BY ONLY <1>11 DEF RunsOf
<1> QED BY <1>9, <1>10, <1>12

LEMMA RunIsRunAt ==
  ASSUME NEW S, NEW t \in Seq(S), NEW inp \in Seq(S), NEW sep, NEW c,
         Behind(t, inp, c, sep), NEW r \in RunsOf(inp, sep)
  PROVE  r[1] - c \in Begins(t, sep) /\ r = RunAt(t, sep, c, r[1] - c)
<1> DEFINE b == r[1] - c
           e == NextSep(t, b, sep)
<1>1. /\ Len(t) \in Nat /\ Len(inp) \in Nat /\ c \in 0..Len(inp) /\ Len(t) = Len(inp) - c
      /\ \A i \in 1..Len(t) : t[i] = inp[c + i]
      /\ \A i \in 1..c : inp[i] = sep
  BY LenProperties DEF Behind
<1>2. /\ r \in (1..Len(inp)) \X (1..Len(inp)) /\ r[1] <= r[2]
      /\ \A i \in r[1]..r[2] : inp[i] # sep
      /\ r[1] > 1 => inp[r[1] - 1] = sep
      /\ r[2] < Len(inp) => inp[r[2] + 1] = sep
  BY DEF RunsOf
<1>3. PICK x, y \in 1..Len(inp) : r = <<x, y>>
  BY <1>2
<1>4. /\ x <= y /\ (\A i \in x..y : inp[i] # sep)
      /\ x > 1 => inp[x - 1] = sep
      /\ y < Len(inp) => inp[y + 1] = sep
  BY <1>2, <1>3
<1>5. x > c
  <2> SUFFICES ASSUME x <= c PROVE FALSE
    BY <1>1
  <2>1. x \in 1..c /\ x \in x..y
    BY <1>1, <1>4
  <2> QED BY <1>1, <1>4, <2>1
<1>6. b = x - c /\ b \in 1..Len(t) /\ c + b = x
  BY <1>1, <1>3, <1>5
<1> HIDE DEF b
<1>7. b \in Begins(t, sep)
  <2>1. t[b] # sep
    <3>1. x \in x..y
      BY <1>4
    <3> QED BY <1>1, <1>4, <1>6, <3>1
  <2>2. b > 1 => t[b - 1] = sep
    <3> SUFFICES ASSUME b > 1 PROVE t[b - 1] = sep
      OBVIOUS
    <3>1. b - 1 \in 1..Len(t) /\ c + (b - 1) = x - 1 /\ x > 1
      BY <1>1, <1>6
    <3> QED BY <1>1, <1>4, <3>1
  <2> QED BY <1>6, <2>1, <2>2 DEF Begins
<1>8. /\ e \in b..(Len(t) + 1) /\ (\A i \in b..(e - 1) : t[i] # sep)
      /\ e <= Len(t) => t[e] = sep
  <2>1. Len(t) \in Nat /\ b \in 1..Len(t)
    BY <1>1, <1>6
  <2>2. b \in 1..(Len(t) + 1)
    BY ONLY <2>1
  <2> QED BY <2>2, NextSepIs
<1> HIDE DEF e
<1>9. ~(y < e - 1 + c)
  <2> SUFFICES ASSUME y < e - 1 + c PROVE FALSE
    OBVIOUS
  <2>1. /\ y < Len(inp) /\ y + 1 - c \in b..(e - 1) /\ y + 1 - c \in 1..Len(t)
        /\ c + (y + 1 - c) = y + 1
    BY <1>1, <1>4, <1>6, <1>8
  <2> QED BY <1>1, <1>4, <1>8, <2>1
<1>10. ~(y > e - 1 + c)
  <2> SUFFICES ASSUME y > e - 1 + c PROVE FALSE
    OBVIOUS
  <2>1. e \in 1..Len(t) /\ e <= Len(t) /\ c + e \in x..y
    BY <1>1, <1>4, <1>6, <1>8
  <2> QED BY <1>1, <1>4, <1>8, <2>1
<1>11. y = e - 1 + c /\ x = b + c
  <2>1. /\ c \in Int /\ b \in Int /\ e \in Int /\ x \in Int /\ y \in Int
        /\ c + b = x /\ ~(y < e - 1 + c) /\ ~(y > e - 1 + c)
    BY <1>1, <1>6, <1>8, <1>9, <1>10
  <2> QED BY ONLY <2>1
<1> QED BY <1>3, <1>7, <1>11 DEF RunAt, e, b

\* The runs of inp, and those up to one of them, are as many as the places
\* of t where one begins.
LEMMA RunsCounted ==
  ASSUME NEW S, NEW t \in Seq(S), NEW inp \in Seq(S), NEW sep, NEW c,
         Behind(t, inp, c, sep)
  PROVE  /\ Cardinality(RunsOf(inp, sep)) = Cardinality(Begins(t, sep))
         /\ \A r \in RunsOf(inp, sep) :
              Cardinality(UpTo(inp, sep, r)) = Cardinality(Earlier(t, sep, r[1] - c)) + 1
<1> DEFINE B == Begins(t, sep)
           R == RunsOf(inp, sep)
           F(A) == [b \in A |-> RunAt(t, sep, c, b)]
<1>1. c \in Int /\ B \in SUBSET Int /\ IsFiniteSet(B)
  <2>1. c \in 0..Len(inp) /\ Len(inp) \in Nat
    BY LenProperties DEF Behind
  <2>2. IsFiniteSet(B)
    BY BeginsFinite
  <2> QED BY <2>1, <2>2 DEF Begins
<1>2. \A b \in B : RunAt(t, sep, c, b) \in R /\ RunAt(t, sep, c, b)[1] = b + c
  BY RunAtIsRun DEF RunAt
<1>3. \A r \in R : r[1] - c \in B /\ r = RunAt(t, sep, c, r[1] - c)
  BY RunIsRunAt
<1>4. \A a \in B, b \in B : RunAt(t, sep, c, a) = RunAt(t, sep, c, b) => a = b
  <2> SUFFICES ASSUME NEW a \in B, NEW b \in B, RunAt(t, sep, c, a) = RunAt(t, sep, c, b)
               PROVE  a = b
    OBVIOUS
  <2>1. a + c = b + c
    BY <1>2
  <2> QED BY <1>1, <2>1
<1> HIDE DEF B, R
<1>5. Cardinality(R) = Cardinality(B)
  <2> DEFINE G == F(B)
  <2>1. G \in [B -> R]
    BY <1>2
  <2>2. \A a \in B, b \in B : G[a] = G[b] => a = b
    BY <1>4
  <2>3. \A r \in R : \E b \in B : G[b] = r
    BY <1>3
  <2> HIDE DEF G
  <2> QED BY <1>1, <2>1, <2>2, <2>3, EquallyMany
<1>6. ASSUME NEW r \in R
      PROVE  Cardinality(UpTo(inp, sep, r)) = Cardinality(Earlier(t, sep, r[1] - c)) + 1
  <2> DEFINE b == r[1] - c
             A == Earlier(t, sep, b) \cup {b}
             U == UpTo(inp, sep, r)
             G == F(A)
  <2>1. b \in B /\ b \in Int /\ r = RunAt(t, sep, c, b) /\ r[1] = b + c
    BY <1>1, <1>2, <1>3
  <2>2. A \in SUBSET B /\ \A x \in B : x \in A <=> x <= b
    BY <1>1, <2>1 DEF Earlier, B
  <2>3. IsFiniteSet(A) /\ Cardinality(A) = Cardinality(Earlier(t, sep, b)) + 1
    <3>1. IsFiniteSet(Earlier(t, sep, b))
      BY <2>1, BeginsFinite
    <3>2. b \notin Earlier(t, sep, b)
      BY <2>1 DEF Earlier
    <3> HIDE DEF b
    <3> QED BY <3>1, <3>2, FS_AddElement
  <2>4. \A q \in R : q \in U <=> q[1] <= b + c
    BY <2>1 DEF UpTo, R
  <2>5. U \in SUBSET R
    BY DEF UpTo, R
  <2> HIDE DEF b, A, U
  <2>6. G \in [A -> U]
    <3>1. ASSUME NEW x \in A PROVE RunAt(t, sep, c, x) \in U
      <4>1. x \in B /\ x \in Int /\ x <= b
        BY <1>1, <2>2
      <4>2. x + c <= b + c
        BY <1>1, <2>1, <4>1
      <4> QED BY <1>2, <2>4, <4>1, <4>2
    <3> QED BY <3>1
  <2>7. \A x \in A, y \in A : G[x] = G[y] => x = y
    BY <1>4, <2>2
  <2>8. \A q \in U : \E x \in A : G[x] = q
    <3> SUFFICES ASSUME NEW q \in U PROVE \E x \in A : G[x] = q
      OBVIOUS
    <3>1. q \in R /\ q[1] <= b + c /\ q[1] - c \in B /\ q = RunAt(t, sep, c, q[1] - c)
      BY <1>3, <2>4, <2>5
    <3>2. PICK x \in B : x = q[1] - c
      BY <3>1
    <3>3. q = RunAt(t, sep, c, x) /\ q[1] = x + c
      BY <1>2, <3>1, <3>2
    <3>4. x <= b
      BY <1>1, <2>1, <3>1, <3>2, <3>3
    <3> QED BY <2>2, <3>3, <3>4
  <2> HIDE DEF G
  <2>9. Cardinality(U) = Cardinality(A)
    BY <2>3, <2>6, <2>7, <2>8, EquallyMany
  <2> QED BY <2>3, <2>9 DEF U, b
<1> QED BY <1>5, <1>6 DEF B, R

\* What split() cuts is a stretch of the whole text.
LEMMA CutOfWhole ==
  ASSUME NEW S, NEW t \in Seq(S), NEW inp \in Seq(S), NEW sep, NEW c,
         Behind(t, inp, c, sep), NEW b \in Begins(t, sep)
  PROVE  SubSeq(t, b, NextSep(t, b, sep) - 1)
           = SubSeq(inp, RunAt(t, sep, c, b)[1], RunAt(t, sep, c, b)[2])
<1>1. /\ Len(t) \in Nat /\ Len(inp) \in Nat /\ c \in 0..Len(inp) /\ Len(t) = Len(inp) - c
      /\ b \in 1..Len(t)
  BY LenProperties DEF Behind, Begins
<1>2. \A i \in 1..Len(t) : t[i] = inp[c + i]
  BY DEF Behind
<1>3. PICK e \in b..(Len(t) + 1) : e = NextSep(t, b, sep)
  <2>1. b \in 1..(Len(t) + 1)
    BY ONLY <1>1
  <2> QED BY <2>1, NextSepIs
<1>4. RunAt(t, sep, c, b)[1] = b + c /\ RunAt(t, sep, c, b)[2] = e - 1 + c
  BY <1>3 DEF RunAt
<1> DEFINE p == SubSeq(t, b, e - 1)
           q == SubSeq(inp, b + c, e - 1 + c)
<1>5. /\ p \in Seq(S) /\ Len(p) = IF b <= e - 1 THEN e - 1 - b + 1 ELSE 0
      /\ \A i \in 1..(e - 1 - b + 1) : p[i] = t[b + i - 1]
  <2>1. \A i \in b..(e - 1) : i \in 1..Len(t)
    BY ONLY <1>1, <1>3
  <2>2. \A i \in b..(e - 1) : t[i] \in S
    BY <2>1, ElementOfSeq
  <2>3. b \in Int /\ e - 1 \in Int
    BY ONLY <1>1, <1>3
  <2> QED BY ONLY <2>2, <2>3, SubSeqProperties
<1>6. /\ q \in Seq(S)
      /\ Len(q) = IF b + c <= e - 1 + c THEN (e - 1 + c) - (b + c) + 1 ELSE 0
      /\ \A i \in 1..((e - 1 + c) - (b + c) + 1) : q[i] = inp[b + c + i - 1]
  <2>1. PICK m \in Int, l \in Int : m = b + c /\ l = e - 1 + c
    BY ONLY <1>1, <1>3
  <2>2. \A i \in m..l : i \in 1..Len(inp)
    BY ONLY <1>1, <1>3, <2>1
  <2>3. \A i \in m..l : inp[i] \in S
    BY <2>2, ElementOfSeq
  <2>4. /\ SubSeq(inp, m, l) \in Seq(S)
        /\ Len(SubSeq(inp, m, l)) = IF m <= l THEN l - m + 1 ELSE 0
        /\ \A i \in 1..(l - m + 1) : SubSeq(inp, m, l)[i] = inp[m + i - 1]
    BY ONLY <2>3, SubSeqProperties
  <2> QED BY ONLY <2>1, <2>4 DEF q
<1> HIDE DEF p, q
<1>7. Len(p) = Len(q) /\ Len(p) = e - b
  <2>1. b \in Int /\ e \in Int /\ c \in Int /\ b <= e
    BY ONLY <1>1, <1>3
  <2>2. /\ Len(p) = IF b <= e - 1 THEN e - 1 - b + 1 ELSE 0
        /\ Len(q) = IF b + c <= e - 1 + c THEN (e - 1 + c) - (b + c) + 1 ELSE 0
    BY ONLY <1>5, <1>6
  <2> QED BY ONLY <2>1, <2>2
<1>8. ASSUME NEW i \in 1..Len(p) PROVE p[i] = q[i]
  <2>1. /\ i \in 1..(e - 1 - b + 1) /\ i \in 1..((e - 1 + c) - (b + c) + 1)
        /\ b + i - 1 \in 1..Len(t) /\ c + (b + i - 1) = b + c + i - 1
    BY ONLY <1>1, <1>3, <1>7, <1>8
  <2>2. p[i] = t[b + i - 1] /\ q[i] = inp[b + c + i - 1]
    BY <1>5, <1>6, <2>1
  <2> QED BY <1>2, <2>1, <2>2
<1>9. p = q
  BY <1>5, <1>6, <1>7, <1>8, SeqEqual
<1> QED BY <1>3, <1>4, <1>9 DEF p, q

LEMMA SplitRuns ==
  ASSUME NEW S, NEW inp \in Seq(S), NEW sep
  PROVE  /\ Len(split(inp, sep)) = Cardinality(RunsOf(inp, sep))
         /\ \A r \in RunsOf(inp, sep) :
              split(inp, sep)[Cardinality(UpTo(inp, sep, r))] = SubSeq(inp, r[1], r[2])
<1>1. PICK t, c : /\ c = AfterSeps(inp, 1, sep) - 1
                  /\ t = SubSeq(inp, AfterSeps(inp, 1, sep), Len(inp))
  OBVIOUS
<1>2. t \in Seq(S) /\ Behind(t, inp, c, sep) /\ Stripped(t, sep)
  BY <1>1, StripLeaves
<1>3. Len(split(inp, sep)) = Cardinality(Begins(t, sep)) /\ CutsAt(split(inp, sep), t, sep)
  BY <1>1, <1>2, SplitCuts
<1>4. Cardinality(RunsOf(inp, sep)) = Cardinality(Begins(t, sep))
  BY <1>2, RunsCounted
<1>5. ASSUME NEW r \in RunsOf(inp, sep)
      PROVE  split(inp, sep)[Cardinality(UpTo(inp, sep, r))] = SubSeq(inp, r[1], r[2])
  <2>1. PICK b \in Begins(t, sep) : b = r[1] - c /\ r = RunAt(t, sep, c, b)
    BY <1>2, RunIsRunAt
  <2>2. Cardinality(UpTo(inp, sep, r)) = Cardinality(Earlier(t, sep, b)) + 1
    BY <1>2, <2>1, RunsCounted
  <2>3. split(inp, sep)[Cardinality(Earlier(t, sep, b)) + 1]
          = SubSeq(t, b, NextSep(t, b, sep) - 1)
    BY <1>3 DEF CutsAt
  <2>4. SubSeq(t, b, NextSep(t, b, sep) - 1) = SubSeq(inp, r[1], r[2])
    <3>1. SubSeq(t, b, NextSep(t, b, sep) - 1)
            = SubSeq(inp, RunAt(t, sep, c, b)[1], RunAt(t, sep, c, b)[2])
      BY <1>2, CutOfWhole
    <3> QED BY ONLY <2>1, <3>1
  <2> QED BY ONLY <2>2, <2>3, <2>4
<1> QED BY <1>3, <1>4, <1>5

-----------------------------------------------------------------------------
(* How a device writes its pairs.                                           *)

\* Four characters at a time: where the j-th one comes from.
Row(j) == (j + 3) \div 4
Col(j) == ((j + 3) % 4) + 1

LEMMA RowAndColWithin ==
  ASSUME NEW n \in Nat, NEW j \in 1..(4 * n) PROVE Row(j) \in 1..n /\ Col(j) \in 1..4
BY DEF Row, Col

LEMMA RowAndCol ==
  ASSUME NEW i \in Nat \ {0}, NEW c \in 1..4, NEW j, j = 4 * (i - 1) + c
  PROVE  Row(j) = i /\ Col(j) = c
BY DEF Row, Col

InFours(s, q, n) ==
  /\ Len(s) = 4 * n
  /\ \A i \in 1..n, c \in 1..4 : 4 * (i - 1) + c \in 1..(4 * n) /\ s[4 * (i - 1) + c] = q[i][c]

LEMMA FlattenFours ==
  ASSUME NEW S, NEW n \in Nat \ {0}, NEW q \in [1..n -> Seq(S)],
         \A i \in 1..n : Len(q[i]) = 4
  PROVE  FlattenSeq(q) \in Seq(S) /\ InFours(FlattenSeq(q), q, n)
<1> DEFINE Rec(f) == [i \in 1..n |-> IF i = 1 THEN q[i] ELSE f[i - 1] \o q[i]]
           Upto(i) == [j \in 1..(4 * i) |-> q[Row(j)][Col(j)]]
           g == [i \in 1..n |-> Upto(i)]
           flatten == CHOOSE f : f = Rec(f)
<1>1. Len(q) = n
  OBVIOUS
<1>2. FlattenSeq(q) = flatten[n]
  BY <1>1 DEF FlattenSeq
<1>3. \A i \in 1..n, c \in 1..4 : q[i][c] \in S
  <2> SUFFICES ASSUME NEW i \in 1..n, NEW c \in 1..4 PROVE q[i][c] \in S
    OBVIOUS
  <2>1. q[i] \in Seq(S) /\ c \in 1..Len(q[i])
    OBVIOUS
  <2> QED BY <2>1, ElementOfSeq
<1>4. \A i \in 1..n : Upto(i) \in Seq(S) /\ Len(Upto(i)) = 4 * i
  <2> SUFFICES ASSUME NEW i \in 1..n PROVE Upto(i) \in Seq(S) /\ Len(Upto(i)) = 4 * i
    OBVIOUS
  <2>1. \A j \in 1..(4 * i) : Row(j) \in 1..n /\ Col(j) \in 1..4
    <3>1. ASSUME NEW j \in 1..(4 * i) PROVE Row(j) \in 1..n /\ Col(j) \in 1..4
      <4>0. i \in Nat
        OBVIOUS
      <4>1. Row(j) \in 1..i /\ Col(j) \in 1..4
        BY ONLY <4>0, j \in 1..(4 * i), RowAndColWithin
      <4> QED BY <4>1
    <3> QED BY <3>1
  <2>2. \A j \in 1..(4 * i) : q[Row(j)][Col(j)] \in S
    BY <1>3, <2>1
  <2>3. 4 * i \in Nat
    OBVIOUS
  <2> QED BY <2>2, <2>3
<1>5. \A i \in 1..n : Upto(i) = IF i = 1 THEN q[i] ELSE Upto(i - 1) \o q[i]
  <2> SUFFICES ASSUME NEW i \in 1..n
               PROVE  Upto(i) = IF i = 1 THEN q[i] ELSE Upto(i - 1) \o q[i]
    OBVIOUS
  <2>1. \A c \in 1..4 : 4 * (i - 1) + c \in 1..(4 * i) /\ Upto(i)[4 * (i - 1) + c] = q[i][c]
    <3> SUFFICES ASSUME NEW c \in 1..4
                 PROVE  /\ 4 * (i - 1) + c \in 1..(4 * i)
                        /\ Upto(i)[4 * (i - 1) + c] = q[i][c]
      OBVIOUS
    <3>1. PICK j \in 1..(4 * i) : j = 4 * (i - 1) + c
      OBVIOUS
    <3>2. Row(j) = i /\ Col(j) = c
      <4>1. i \in Nat \ {0}
        OBVIOUS
      <4> QED BY ONLY <3>1, <4>1, c \in 1..4, RowAndCol
    <3> QED BY <3>1, <3>2
  <2>2. Upto(i) \in Seq(S) /\ Len(Upto(i)) = 4 * i /\ q[i] \in Seq(S) /\ Len(q[i]) = 4
    BY <1>4
  <2>3. CASE i = 1
    <3> HIDE DEF Upto
    <3>1. Len(Upto(i)) = 4 /\ \A c \in 1..4 : Upto(i)[c] = q[i][c]
      <4>1. \A c \in 1..4 : 4 * (i - 1) + c = c
        BY <2>3
      <4> QED BY <2>1, <2>2, <2>3, <4>1
    <3>2. Upto(i) = q[i]
      BY <2>2, <3>1, SeqEqual
    <3> QED BY <2>3, <3>2
  <2>4. CASE i # 1
    <3>1. i - 1 \in 1..n
      BY <2>4
    <3>2. Upto(i - 1) \in Seq(S) /\ Len(Upto(i - 1)) = 4 * (i - 1)
      BY <1>4, <3>1
    <3>3. \A j \in 1..(4 * (i - 1)) : Upto(i - 1)[j] = Upto(i)[j]
      OBVIOUS
    <3>4. PICK a, b, d \in Seq(S) : a = Upto(i - 1) /\ b = q[i] /\ d = Upto(i)
      BY <2>2, <3>2
    <3> HIDE DEF Upto
    <3>5. /\ Len(a) = 4 * (i - 1) /\ Len(b) = 4 /\ Len(d) = 4 * i
          /\ \A j \in 1..(4 * (i - 1)) : a[j] = d[j]
          /\ \A c \in 1..4 : d[4 * (i - 1) + c] = b[c]
      BY <2>1, <2>2, <3>2, <3>3, <3>4
    <3>6. /\ a \o b \in Seq(S) /\ Len(a \o b) = Len(a) + Len(b)
          /\ \A j \in 1..Len(a)+Len(b) : (a \o b)[j] = IF j <= Len(a) THEN a[j] ELSE b[j - Len(a)]
      BY ConcatProperties
    <3>7. Len(a \o b) = Len(d)
      BY ONLY <3>5, <3>6, i \in 1..n, n \in Nat \ {0}
    <3>8. ASSUME NEW j \in 1..Len(d) PROVE (a \o b)[j] = d[j]
      <4>1. j \in 1..(4 * i) /\ j \in 1..Len(a)+Len(b) /\ i \in Nat
        BY <3>5, <3>6, <3>7, <3>8
      <4>2. CASE j <= 4 * (i - 1)
        <5>1. j \in 1..(4 * (i - 1)) /\ j <= Len(a)
          BY <3>5, <4>1, <4>2
        <5> QED BY <3>5, <3>6, <4>1, <5>1
      <4>3. CASE j > 4 * (i - 1)
        <5>1. PICK c \in 1..4 : j = 4 * (i - 1) + c
          <6>1. j - 4 * (i - 1) \in 1..4 /\ j = 4 * (i - 1) + (j - 4 * (i - 1))
            BY ONLY <4>1, <4>3
          <6> QED BY <6>1
        <5>2. ~(j <= Len(a)) /\ j - Len(a) = c
          BY ONLY <3>5, <4>1, <4>3, <5>1
        <5>3. (a \o b)[j] = b[c]
          BY <3>6, <4>1, <5>2
        <5> QED BY <3>5, <5>1, <5>3
      <4> QED BY <4>1, <4>2, <4>3
    <3>9. a \o b = d
      BY <3>6, <3>7, <3>8, SeqEqual
    <3> QED BY <2>4, <3>4, <3>9
  <2> QED BY <2>3, <2>4
<1> HIDE DEF Upto
<1>6. g = Rec(g)
  <2>1. \A i \in 1..n : i # 1 => i - 1 \in 1..n
    OBVIOUS
  <2>2. \A i \in 1..n : g[i] = Rec(g)[i]
    BY <1>5, <2>1
  <2> QED BY <2>2
<1>7. flatten = Rec(flatten)
  BY <1>6
<1> HIDE DEF flatten
<1>8. \A i \in 1..n : flatten[i] = IF i = 1 THEN q[i] ELSE flatten[i - 1] \o q[i]
  BY <1>7
<1>9. \A i \in 1..n : flatten[i] = Upto(i)
  <2> DEFINE Bad == {i \in 1..n : flatten[i] # Upto(i)}
  <2>1. SUFFICES ASSUME Bad # {} PROVE FALSE
    OBVIOUS
  <2>2. PICK i \in Bad : \A k \in Bad : i <= k
    <3>1. Bad \in SUBSET (0..n)
      OBVIOUS
    <3> HIDE DEF Bad
    <3> QED BY <2>1, <3>1, MinOfBounded
  <2>3. i \in 1..n /\ flatten[i] # Upto(i)
    OBVIOUS
  <2>4. i # 1 => flatten[i - 1] = Upto(i - 1)
    <3>1. i # 1 => i - 1 \in 1..n /\ ~(i <= i - 1)
      BY <2>3
    <3> QED BY <2>2, <3>1
  <2> QED BY <1>5, <1>8, <2>3, <2>4
<1>10. flatten[n] = Upto(n) /\ Upto(n) \in Seq(S) /\ Len(Upto(n)) = 4 * n
  <2>1. n \in 1..n
    OBVIOUS
  <2> QED BY <1>4, <1>9, <2>1
<1>11. ASSUME NEW i \in 1..n, NEW c \in 1..4
       PROVE  4 * (i - 1) + c \in 1..(4 * n) /\ Upto(n)[4 * (i - 1) + c] = q[i][c]
  <2>1. PICK j \in 1..(4 * n) : j = 4 * (i - 1) + c
    OBVIOUS
  <2>2. Row(j) = i /\ Col(j) = c
    <3>1. i \in Nat \ {0}
      OBVIOUS
    <3> QED BY ONLY <2>1, <3>1, c \in 1..4, RowAndCol
  <2> QED BY <2>1, <2>2 DEF Upto
<1> QED BY <1>2, <1>10, <1>11 DEF InFours

Char == {"2", NUL, CR, Comma} \cup Letters \cup Keys \cup Values
NoNul == Char \ {NUL}

\* The text s is that of the n pairs ps.
Written(s, ps, n) ==
  /\ Len(s) = 4 * n + 2 /\ s[1] = "2" /\ s[4 * n + 2] = CR
  /\ \A i \in 1..n : /\ s[4 * i - 2] = Comma /\ s[4 * i - 1] = ps[i].key
                     /\ s[4 * i] = Comma /\ s[4 * i + 1] = ps[i].value

LEMMA DigitsAreNot ==
  /\ \A d \in Keys \cup Values : d # NUL /\ d # Comma /\ d # CR
  /\ "2" # NUL /\ CR # NUL /\ Comma # NUL /\ "2" # Comma /\ CR # Comma
  /\ "2" \in NoNul /\ CR \in NoNul /\ Comma \in NoNul
  /\ Keys \cup Values \subseteq NoNul /\ Letters \subseteq NoNul
<1>1. Keys \cup Values \subseteq {"0", "1", "2", "5", "9"}
  BY TextAssumption DEF Digit
<1>2. NUL \notin Letters
  BY TextAssumption
<1> QED BY <1>1, <1>2 DEF NUL, CR, Comma, NoNul, Char

LEMMA FormatIs ==
  ASSUME NEW n \in Nat \ {0}, NEW ps \in [1..n -> Pairs]
  PROVE  Format(ps) \in Seq(NoNul) /\ Written(Format(ps), ps, n)
<1> DEFINE q == [i \in 1..n |-> <<Comma, ps[i].key, Comma, ps[i].value>>]
           f == FlattenSeq(q)
           a == <<"2">> \o f
           s == a \o <<CR>>
<1>1. \A i \in 1..n : ps[i].key \in Keys /\ ps[i].value \in Values
  BY DEF Pairs
<1>2. \A i \in 1..n : /\ q[i] \in Seq(NoNul) /\ Len(q[i]) = 4
                      /\ q[i][1] = Comma /\ q[i][2] = ps[i].key
                      /\ q[i][3] = Comma /\ q[i][4] = ps[i].value
  <2> SUFFICES ASSUME NEW i \in 1..n
               PROVE  /\ q[i] \in Seq(NoNul) /\ Len(q[i]) = 4
                      /\ q[i][1] = Comma /\ q[i][2] = ps[i].key
                      /\ q[i][3] = Comma /\ q[i][4] = ps[i].value
    OBVIOUS
  <2>1. Comma \in NoNul /\ ps[i].key \in NoNul /\ ps[i].value \in NoNul
    BY <1>1, DigitsAreNot
  <2>2. q[i] = <<Comma, ps[i].key, Comma, ps[i].value>>
    OBVIOUS
  <2> HIDE DEF q
  <2> QED BY <2>1, <2>2
<1>3. Format(ps) = s
  BY DEF Format
<1>4. q \in [1..n -> Seq(NoNul)] /\ \A i \in 1..n : Len(q[i]) = 4
  BY <1>2
<1> HIDE DEF q
<1>5. f \in Seq(NoNul) /\ InFours(f, q, n)
  BY ONLY <1>4, n \in Nat \ {0}, FlattenFours
<1>6. Len(f) = 4 * n /\ \A i \in 1..n, c \in 1..4 :
                           4 * (i - 1) + c \in 1..(4 * n) /\ f[4 * (i - 1) + c] = q[i][c]
  BY <1>5 DEF InFours
<1>7. <<"2">> \in Seq(NoNul) /\ <<CR>> \in Seq(NoNul) /\ Len(<<"2">>) = 1 /\ Len(<<CR>>) = 1
      /\ <<"2">>[1] = "2" /\ <<CR>>[1] = CR
  BY DigitsAreNot
<1> HIDE DEF f
<1>8. /\ a \in Seq(NoNul) /\ Len(a) = 4 * n + 1 /\ a[1] = "2"
      /\ \A j \in 1..(4 * n) : a[j + 1] = f[j]
  <2>1. /\ a \in Seq(NoNul) /\ Len(a) = Len(<<"2">>) + Len(f)
        /\ \A k \in 1..Len(<<"2">>)+Len(f) :
             a[k] = IF k <= Len(<<"2">>) THEN <<"2">>[k] ELSE f[k - Len(<<"2">>)]
    BY <1>5, <1>7, ConcatProperties
  <2>2. /\ a \in Seq(NoNul) /\ Len(a) = 1 + 4 * n
        /\ \A k \in 1..(1 + 4 * n) : a[k] = IF k <= 1 THEN <<"2">>[k] ELSE f[k - 1]
    BY ONLY <1>6, <1>7, <2>1
  <2> HIDE DEF a
  <2>3. ASSUME NEW j \in 1..(4 * n) PROVE a[j + 1] = f[j]
    <3>1. j + 1 \in 1..(1 + 4 * n) /\ ~(j + 1 <= 1) /\ (j + 1) - 1 = j
      OBVIOUS
    <3> QED BY <2>2, <3>1
  <2>4. a[1] = <<"2">>[1] /\ Len(a) = 4 * n + 1
    BY <2>2
  <2> QED BY <1>7, <2>2, <2>3, <2>4
<1> HIDE DEF a
<1>9. /\ s \in Seq(NoNul) /\ Len(s) = 4 * n + 2 /\ s[4 * n + 2] = CR
      /\ \A j \in 1..(4 * n + 1) : s[j] = a[j]
  <2>1. /\ s \in Seq(NoNul) /\ Len(s) = Len(a) + Len(<<CR>>)
        /\ \A k \in 1..Len(a)+Len(<<CR>>) :
             s[k] = IF k <= Len(a) THEN a[k] ELSE <<CR>>[k - Len(a)]
    <3>1. a \in Seq(NoNul) /\ <<CR>> \in Seq(NoNul)
      BY <1>7, <1>8
    <3> QED BY ONLY <3>1, ConcatProperties
  <2>2. \A k \in 1..(4 * n + 1 + 1) : s[k] = IF k <= 4 * n + 1 THEN a[k] ELSE <<CR>>[k - (4 * n + 1)]
    BY ONLY <1>7, <1>8, <2>1
  <2>3. Len(s) = 4 * n + 2
    BY ONLY <1>7, <1>8, <2>1
  <2> HIDE DEF s
  <2>4. s[4 * n + 2] = <<CR>>[1]
    <3>1. PICK k \in 1..(4 * n + 1 + 1) : k = 4 * n + 2
      OBVIOUS
    <3>2. ~(k <= 4 * n + 1) /\ k - (4 * n + 1) = 1
      BY <3>1
    <3> QED BY <2>2, <3>1, <3>2
  <2>5. \A j \in 1..(4 * n + 1) : s[j] = a[j]
    BY <2>2
  <2> QED BY <1>7, <2>1, <2>3, <2>4, <2>5
<1> HIDE DEF s
<1>10. s[1] = "2"
  BY <1>8, <1>9
<1>11. ASSUME NEW i \in 1..n, NEW c \in 1..4 PROVE s[4 * i - 3 + c] = q[i][c]
  <2>1. PICK j \in 1..(4 * n) : j = 4 * (i - 1) + c /\ f[j] = q[i][c]
    BY <1>6
  <2>2. j + 1 \in 1..(4 * n + 1) /\ j + 1 = 4 * i - 3 + c
    BY <2>1
  <2> QED BY <1>8, <1>9, <2>1, <2>2
<1>12. ASSUME NEW i \in 1..n
       PROVE  /\ s[4 * i - 2] = Comma /\ s[4 * i - 1] = ps[i].key
              /\ s[4 * i] = Comma /\ s[4 * i + 1] = ps[i].value
  <2>1. /\ s[4 * i - 3 + 1] = q[i][1] /\ s[4 * i - 3 + 2] = q[i][2]
        /\ s[4 * i - 3 + 3] = q[i][3] /\ s[4 * i - 3 + 4] = q[i][4]
    BY <1>11
  <2>2. /\ 4 * i - 3 + 1 = 4 * i - 2 /\ 4 * i - 3 + 2 = 4 * i - 1
        /\ 4 * i - 3 + 3 = 4 * i /\ 4 * i - 3 + 4 = 4 * i + 1
    OBVIOUS
  <2> QED BY <1>2, <2>1, <2>2
<1> QED BY <1>3, <1>9, <1>10, <1>12 DEF Written

-----------------------------------------------------------------------------
(* The buffer: after a message it holds no NUL before the message's end,    *)
(* and one there if the message has a comma.                               *)

BufferInv ==
  /\ recv_len \in 0..BUFFER_SIZE
  /\ buffer \in [1..(BUFFER_SIZE + 1) -> Char]
  /\ \A i \in 1..recv_len : buffer[i] # NUL
  /\ (\E i \in 1..recv_len : buffer[i] = Comma) => buffer[recv_len + 1] = NUL

LEMMA MessageHasNoNul == ASSUME NEW msg \in Formatted \cup Noise PROVE msg \in Seq(NoNul)
<1>1. CASE msg \in Formatted
  <2>1. PICK n \in 1..MaxPairs : \E ps \in [1..n -> Pairs] : msg = Format(ps)
    BY <1>1 DEF Formatted
  <2>2. n \in Nat \ {0}
    BY TextAssumption
  <2> QED BY <2>1, <2>2, FormatIs
<1>2. CASE msg \in Noise
  <2>1. PICK n \in 1..MaxNoise : msg \in [1..n -> Letters]
    BY <1>2 DEF Noise
  <2>2. n \in Nat
    BY TextAssumption
  <2> QED BY <2>1, <2>2, DigitsAreNot
<1> QED BY <1>1, <1>2

LEMMA BufferStep == BufferInv /\ [Next]_vars => BufferInv'
<1> SUFFICES ASSUME BufferInv, [Next]_vars PROVE BufferInv'
  OBVIOUS
<1>1. CASE UNCHANGED vars
  BY <1>1 DEF vars, BufferInv
<1>2. CASE Next
  <2>1. PICK msg \in Formatted \cup Noise : Receive(msg)
    BY <1>2 DEF Next
  <2>2. msg \in Seq(NoNul) /\ Len(msg) \in Nat
    BY MessageHasNoNul, LenProperties
  <2> DEFINE n == IF Len(msg) < BUFFER_SIZE THEN Len(msg) ELSE BUFFER_SIZE
  <2>3. n \in 0..BUFFER_SIZE /\ n <= Len(msg)
    BY <2>2, TextAssumption
  <2>4. /\ recv_len' = n
        /\ buffer' = [i \in 1..(BUFFER_SIZE + 1) |->
                        IF i <= n THEN msg[i]
                        ELSE IF i = n + 1 /\ Comma \in ToSet(SubSeq(msg, 1, n)) THEN NUL
                        ELSE buffer[i]]
    BY <2>1 DEF Receive
  <2> HIDE DEF n
  <2>5. \A i \in 1..n : msg[i] \in NoNul
    <3>1. \A i \in 1..n : i \in 1..Len(msg)
      BY <2>2, <2>3
    <3> QED BY <2>2, <3>1, ElementOfSeq
  <2>6. \A i \in 1..(BUFFER_SIZE + 1) : buffer'[i] \in Char
    <3> SUFFICES ASSUME NEW i \in 1..(BUFFER_SIZE + 1) PROVE buffer'[i] \in Char
      OBVIOUS
    <3>1. i <= n => i \in 1..n
      BY <2>3
    <3>2. NUL \in Char /\ buffer[i] \in Char
      BY DEF Char, BufferInv
    <3> QED BY <2>4, <2>5, <3>1, <3>2 DEF NoNul
  <2>7. \A i \in 1..n : buffer'[i] # NUL
    <3> SUFFICES ASSUME NEW i \in 1..n PROVE buffer'[i] # NUL
      OBVIOUS
    <3>1. i \in 1..(BUFFER_SIZE + 1) /\ i <= n
      BY <2>3, TextAssumption
    <3> QED BY <2>4, <2>5, <3>1 DEF NoNul
  <2>8. ASSUME NEW i \in 1..n, buffer'[i] = Comma PROVE buffer'[n + 1] = NUL
    <3>1. i \in 1..(BUFFER_SIZE + 1) /\ i <= n
      BY <2>3, TextAssumption
    <3>2. msg[i] = Comma
      BY <2>4, <2>8, <3>1
    <3>3. Comma \in ToSet(SubSeq(msg, 1, n))
      <4>1. 1 \in Int /\ n \in Int /\ \A k \in 1..n : msg[k] \in NoNul
        BY <2>3, <2>5
      <4>2. /\ Len(SubSeq(msg, 1, n)) = IF 1 <= n THEN n - 1 + 1 ELSE 0
            /\ SubSeq(msg, 1, n) \in Seq(NoNul)
            /\ \A k \in 1..(n - 1 + 1) : SubSeq(msg, 1, n)[k] = msg[1 + k - 1]
        BY ONLY <4>1, SubSeqProperties
      <4>3. i \in 1..(n - 1 + 1) /\ 1 + i - 1 = i /\ 1 <= n /\ n - 1 + 1 = n
        BY ONLY <2>3, <3>1
      <4>4. SubSeq(msg, 1, n)[i] = Comma
        BY <3>2, <4>2, <4>3
      <4>5. i \in DOMAIN SubSeq(msg, 1, n)
        BY <4>2, <4>3, LenProperties
      <4> QED BY <4>4, <4>5 DEF ToSet
    <3>4. n + 1 \in 1..(BUFFER_SIZE + 1) /\ ~(n + 1 <= n)
      BY <2>3, TextAssumption
    <3> QED BY <2>4, <3>3, <3>4
  <2> QED BY <2>3, <2>4, <2>6, <2>7, <2>8 DEF BufferInv
<1> QED BY <1>1, <1>2

LEMMA BufferInvariant == Spec => []BufferInv
<1>1. Init => BufferInv
  BY TextAssumption DEF Init, BufferInv, Char
<1> QED BY <1>1, BufferStep, PTL DEF Spec

LEMMA TextIs ==
  ASSUME BufferInv
  PROVE  /\ Text \in Seq(NoNul) /\ Len(Text) = recv_len /\ recv_len \in Nat
         /\ \A i \in 1..recv_len : Text[i] = buffer[i]
<1>1. recv_len \in Nat /\ recv_len <= BUFFER_SIZE /\ BUFFER_SIZE \in Nat
  BY TextAssumption DEF BufferInv
<1>2. \A i \in 1..recv_len : buffer[i] \in NoNul
  BY <1>1 DEF BufferInv, NoNul
<1>3. PICK n, b : n = recv_len /\ b = buffer
  OBVIOUS
<1>4. n \in Int /\ 1 \in Int /\ \A i \in 1..n : b[i] \in NoNul
  BY <1>1, <1>2, <1>3
<1>5. /\ SubSeq(b, 1, n) \in Seq(NoNul) /\ Len(SubSeq(b, 1, n)) = IF 1 <= n THEN n - 1 + 1 ELSE 0
      /\ \A i \in 1..(n - 1 + 1) : SubSeq(b, 1, n)[i] = b[1 + i - 1]
  BY ONLY <1>4, SubSeqProperties
<1>6. Text = SubSeq(b, 1, n)
  BY <1>3 DEF Text
<1>7. Len(Text) = recv_len
  BY <1>1, <1>3, <1>5, <1>6
<1>8. \A i \in 1..recv_len : Text[i] = buffer[i]
  <2> SUFFICES ASSUME NEW i \in 1..recv_len PROVE Text[i] = buffer[i]
    OBVIOUS
  <2>1. i \in 1..(n - 1 + 1) /\ 1 + i - 1 = i
    BY <1>1, <1>3
  <2> QED BY <1>3, <1>5, <1>6, <2>1
<1> QED BY <1>1, <1>5, <1>6, <1>7, <1>8

-----------------------------------------------------------------------------
(* The theorems about the functions of misc.c.                              *)

\* Whatever a device sends, split() cuts its message into the maximal runs
\* between commas, in order (misc.c:9-60).
THEOREM SplitsIntoRuns == Spec => []SplitGivesRuns
<1>1. BufferInv => SplitGivesRuns
  <2> SUFFICES ASSUME BufferInv PROVE SplitGivesRuns
    OBVIOUS
  <2>1. PICK s : s = Text
    OBVIOUS
  <2>2. s \in Seq(NoNul) /\ Len(s) = recv_len
    BY <2>1, TextIs
  <2> DEFINE Runs == {r \in (1..recv_len) \X (1..recv_len) :
                        /\ r[1] <= r[2]
                        /\ \A i \in r[1]..r[2] : Text[i] # Comma
                        /\ r[1] > 1 => Text[r[1] - 1] = Comma
                        /\ r[2] < recv_len => Text[r[2] + 1] = Comma}
  <2>3. Runs = RunsOf(s, Comma)
    BY <2>1, <2>2 DEF RunsOf
  <2> HIDE DEF Runs
  <2>4. /\ Len(split(s, Comma)) = Cardinality(Runs)
        /\ \A r \in Runs : split(s, Comma)[Cardinality(UpTo(s, Comma, r))] = SubSeq(s, r[1], r[2])
    BY <2>2, <2>3, SplitRuns
  <2>5. \A r \in Runs : UpTo(s, Comma, r) = {q \in Runs : q[1] <= r[1]}
    BY <2>3 DEF UpTo
  <2>6. /\ Len(split(Text, Comma)) = Cardinality(Runs)
        /\ \A r \in Runs : split(Text, Comma)[Cardinality({q \in Runs : q[1] <= r[1]})]
                             = SubSeq(Text, r[1], r[2])
    BY <2>1, <2>4, <2>5
  <2> QED BY <2>6 DEF SplitGivesRuns, Runs
<1> QED BY <1>1, BufferInvariant, PTL

\* The search for blanks at the end starts at the NUL and stops there.
LEMMA NothingTrailing == ASSUME NEW S, NEW s \in Seq(S) PROVE Trailing(s) = 0
<1>1. Len(s) \in Nat /\ DOMAIN s = 1..Len(s)
  BY LenProperties
<1> DEFINE Ends(a) == /\ CharAt(s, Len(s) + 1 - a) # Blank
                      /\ \A b \in 0..(a - 1) : CharAt(s, Len(s) + 1 - b) = Blank
<1>2. CharAt(s, Len(s) + 1 - 0) # Blank
  <2>1. NUL # Blank
    BY DEF NUL, Blank
  <2>2. Len(s) + 1 - 0 \notin DOMAIN s
    BY <1>1
  <2> QED BY <2>1, <2>2 DEF CharAt
<1>3. 0 \in 0..Len(s) /\ Ends(0)
  BY <1>1, <1>2
<1>4. \A a \in 0..Len(s) : Ends(a) => a = 0
  <2> SUFFICES ASSUME NEW a \in 0..Len(s), Ends(a), a # 0 PROVE FALSE
    OBVIOUS
  <2>1. 0 \in 0..(a - 1)
    BY <1>1
  <2> QED BY <1>2, <2>1
<1>5. Trailing(s) = CHOOSE a \in 0..Len(s) : Ends(a)
  BY DEF Trailing
<1> HIDE DEF Ends
<1> QED BY <1>3, <1>4, <1>5

\* Trimming takes blanks away and nothing else and leaves none in front,
\* whatever the message is (misc.c:88-108).
THEOREM TrimsNothingElse == Spec => []TrimsOnlyBlanks
<1>1. BufferInv => TrimsOnlyBlanks
  <2> SUFFICES ASSUME BufferInv PROVE TrimsOnlyBlanks
    OBVIOUS
  <2>1. PICK s : s = Text
    OBVIOUS
  <2>2. s \in Seq(NoNul) /\ Len(s) = recv_len /\ recv_len \in Nat
    BY <2>1, TextIs
  <2>3. PICK c, rest : /\ c = AfterSeps(s, 1, Blank) - 1
                       /\ rest = SubSeq(s, AfterSeps(s, 1, Blank), Len(s))
    OBVIOUS
  <2>4. rest \in Seq(NoNul) /\ Behind(rest, s, c, Blank) /\ Stripped(rest, Blank)
    BY <2>2, <2>3, StripLeaves
  <2>5. /\ c \in 0..Len(s) /\ Len(rest) = Len(s) - c
        /\ \A i \in 1..Len(rest) : rest[i] = s[c + i]
        /\ \A i \in 1..c : s[i] = Blank
    BY <2>4 DEF Behind
  <2>6. str_trim_and_dup(s) = rest
    <3>1. AfterSeps(s, 1, Blank) \in Int
      <4>1. 1 \in 1..(Len(s) + 1)
        BY <2>2
      <4>2. AfterSeps(s, 1, Blank) \in 1..(Len(s) + 1)
        BY <2>2, <4>1, AfterSepsIs
      <4> QED BY <4>2
    <3>2. c + 1 = AfterSeps(s, 1, Blank) /\ c + (Len(s) - (c + 0)) = Len(s)
      BY <2>2, <2>3, <3>1
    <3>3. str_trim_and_dup(s) = SubSeq(s, c + 1, c + (Len(s) - (c + 0)))
      BY <2>2, <2>3, NothingTrailing DEF str_trim_and_dup
    <3> QED BY <2>3, <3>2, <3>3
  <2>7. c \in 0..recv_len /\ 0 \in 0..recv_len
    BY <2>2, <2>5
  <2> DEFINE front == [i \in 1..c |-> Blank]
  <2>8. s = front \o rest
    <3>1. PICK T : T = NoNul \cup {Blank}
      OBVIOUS
    <3>2. s \in Seq(T) /\ rest \in Seq(T)
      BY <2>2, <2>4, <3>1, SeqMonotonic
    <3>3. front \in Seq(T) /\ Len(front) = c
      BY <2>2, <2>5, <3>1
    <3>4. \A i \in 1..c : front[i] = Blank
      OBVIOUS
    <3> HIDE DEF front
    <3>5. /\ front \o rest \in Seq(T) /\ Len(front \o rest) = Len(front) + Len(rest)
          /\ \A i \in 1..Len(front)+Len(rest) :
               (front \o rest)[i] = IF i <= Len(front) THEN front[i] ELSE rest[i - Len(front)]
      BY <3>2, <3>3, ConcatProperties
    <3>6. Len(front \o rest) = Len(s)
      BY ONLY <2>2, <2>5, <3>3, <3>5
    <3>7. ASSUME NEW i \in 1..Len(s) PROVE s[i] = (front \o rest)[i]
      <4>1. i \in 1..Len(front)+Len(rest)
        BY <3>5, <3>6
      <4>2. CASE i <= c
        <5>1. i \in 1..c
          BY <2>2, <2>5, <4>2
        <5> QED BY <2>5, <3>3, <3>4, <3>5, <4>1, <4>2, <5>1
      <4>3. CASE i > c
        <5>1. i - c \in 1..Len(rest) /\ c + (i - c) = i /\ ~(i <= c)
          BY <2>2, <2>5, <4>3
        <5> QED BY <2>5, <3>3, <3>5, <4>1, <5>1
      <4>4. i \in Int /\ c \in Int
        BY <2>2, <2>5
      <4>5. i <= c \/ i > c
        BY ONLY <4>4
      <4> QED BY ONLY <4>2, <4>3, <4>5
    <3> QED BY <3>2, <3>5, <3>6, <3>7, SeqEqual
  <2>9. rest # <<>> => rest[1] # Blank
    BY <2>4 DEF Stripped
  <2>10. front \o rest \o [i \in 1..0 |-> Blank] = front \o rest
    <3>1. front \in Seq({Blank}) /\ {Blank} \subseteq NoNul \cup {Blank}
      BY <2>2, <2>7
    <3>2. front \in Seq(NoNul \cup {Blank}) /\ rest \in Seq(NoNul \cup {Blank})
      BY <2>4, <3>1, SeqMonotonic
    <3> HIDE DEF front
    <3>3. front \o rest \in Seq(NoNul \cup {Blank})
      BY <3>2, ConcatProperties
    <3>4. [i \in 1..0 |-> Blank] = <<>>
      OBVIOUS
    <3> QED BY <3>3, <3>4, ConcatEmptySeq
  <2>11. Text = [i \in 1..c |-> Blank] \o rest \o [i \in 1..0 |-> Blank]
    BY <2>1, <2>8, <2>10
  <2> HIDE DEF front
  <2>12. str_trim_and_dup(Text) = rest
    BY <2>1, <2>6
  <2> QED BY <2>7, <2>9, <2>11, <2>12 DEF TrimsOnlyBlanks
<1> QED BY <1>1, BufferInvariant, PTL

LEMMA MatchInTwo ==
  ASSUME NEW S, NEW b \in Seq(S), NEW T, NEW find \in Seq(T), find # <<>>,
         NEW i \in 1..Len(b), i + Len(find) - 1 <= Len(b)
  PROVE  SubSeq(b, i, i + Len(find) - 1) = find
           <=> b[i] = Head(find) /\ SubSeq(b, i + 1, i + Len(find) - 1) = Tail(find)
<1>1. Len(b) \in Nat /\ Len(find) \in Nat \ {0} /\ i \in Nat
  BY LenProperties, EmptySeq
<1>2. PICK l : l = i + Len(find) - 1 /\ l \in i..Len(b)
  BY <1>1
<1> DEFINE p == SubSeq(b, i, l)
<1>3. Head(p) = b[i] /\ Tail(p) = SubSeq(b, i + 1, l)
  BY <1>1, <1>2, HeadTailOfSubSeq
<1>4. /\ p \in Seq(S) /\ Len(p) = IF i <= l THEN l - i + 1 ELSE 0
  <2>1. i \in Int /\ l \in Int /\ \A j \in i..l : j \in 1..Len(b)
    BY <1>1, <1>2
  <2>2. \A j \in i..l : b[j] \in S
    BY <2>1, ElementOfSeq
  <2> QED BY ONLY <2>1, <2>2, SubSeqProperties
<1> HIDE DEF p
<1>5. Len(p) = Len(find) /\ p # <<>>
  <2>1. Len(p) = Len(find)
    BY ONLY <1>1, <1>2, <1>4
  <2> QED BY <1>1, <2>1, EmptySeq
<1>6. ASSUME Head(p) = Head(find), Tail(p) = Tail(find) PROVE p = find
  <2>1. PICK U : U = S \cup T
    OBVIOUS
  <2>2. p \in Seq(U) /\ find \in Seq(U)
    BY <1>4, <2>1, SeqMonotonic
  <2>3. /\ Len(Tail(p)) = Len(p) - 1 /\ \A j \in 1..Len(Tail(p)) : Tail(p)[j] = p[j + 1]
    BY <1>4, <1>5, HeadTailProperties
  <2>4. /\ Len(Tail(find)) = Len(find) - 1
        /\ \A j \in 1..Len(Tail(find)) : Tail(find)[j] = find[j + 1]
    BY HeadTailProperties
  <2>5. p[1] = find[1]
    BY <1>4, <1>5, <1>6
  <2>6. ASSUME NEW j \in 1..Len(p) PROVE p[j] = find[j]
    <3>1. CASE j = 1
      BY <2>5, <3>1
    <3>2. CASE j # 1
      <4>1. j - 1 \in 1..Len(Tail(p)) /\ (j - 1) + 1 = j /\ Len(Tail(p)) = Len(Tail(find))
        BY <1>1, <1>5, <2>3, <2>4, <3>2
      <4> QED BY <1>6, <2>3, <2>4, <4>1
    <3> QED BY <3>1, <3>2
  <2> QED BY <1>5, <2>2, <2>6, SeqEqual
<1>7. p = find => Head(p) = Head(find) /\ Tail(p) = Tail(find)
  OBVIOUS
<1>8. p = find <=> b[i] = Head(find) /\ SubSeq(b, i + 1, l) = Tail(find)
  BY <1>3, <1>6, <1>7
<1> QED BY <1>2, <1>8 DEF p

\* Where find occurs in the first n characters of b, from behind place s on.
Occurs(b, find, n, s) ==
  {i \in (s + 1)..(n + 1 - Len(find)) : SubSeq(b, i, i + Len(find) - 1) = find}
FirstOf(A) == IF A = {} THEN 0 ELSE Min(A)

\* One step of the loop of _ble_strstr(), from the end on.
LEMMA OccursInSteps ==
  ASSUME NEW S, NEW b \in Seq(S), NEW T, NEW find \in Seq(T), find # <<>>,
         NEW n \in 0..Len(b), NEW s \in 0..n
  PROVE  /\ s = n => Occurs(b, find, n, s) = {}
         /\ s < n /\ b[s + 1] # Head(find) => Occurs(b, find, n, s) = Occurs(b, find, n, s + 1)
         /\ Len(find) - 1 > n - (s + 1) => Occurs(b, find, n, s) = {}
         /\ s < n /\ ~(Len(find) - 1 > n - (s + 1)) /\ b[s + 1] = Head(find) =>
              IF SubSeq(b, s + 2, s + Len(find)) = Tail(find)
              THEN FirstOf(Occurs(b, find, n, s)) = s + 1
              ELSE Occurs(b, find, n, s) = Occurs(b, find, n, s + 1)
<1>1. Len(b) \in Nat /\ Len(find) \in Nat \ {0} /\ n \in Nat /\ s \in Nat
  BY LenProperties, EmptySeq
<1> DEFINE A == Occurs(b, find, n, s)
           B == Occurs(b, find, n, s + 1)
           fits == s + 1 <= n + 1 - Len(find)
           match == SubSeq(b, s + 1, s + 1 + Len(find) - 1) = find
<1>2. A = IF fits /\ match THEN B \cup {s + 1} ELSE B
  <2>1. \A i \in Int : i \in (s + 1)..(n + 1 - Len(find)) <=>
                         (i = s + 1 /\ fits) \/ i \in (s + 1 + 1)..(n + 1 - Len(find))
    BY <1>1
  <2> DEFINE at(i) == SubSeq(b, i, i + Len(find) - 1) = find
  <2>2. /\ \A i : i \in A <=> i \in (s + 1)..(n + 1 - Len(find)) /\ at(i)
        /\ \A i : i \in B <=> i \in (s + 1 + 1)..(n + 1 - Len(find)) /\ at(i)
    BY DEF Occurs
  <2>3. match <=> at(s + 1)
    OBVIOUS
  <2> HIDE DEF A, B, fits, match, at
  <2>4. \A i : i \in A <=> (i = s + 1 /\ fits /\ match) \/ i \in B
    <3> SUFFICES ASSUME NEW i PROVE i \in A <=> (i = s + 1 /\ fits /\ match) \/ i \in B
      OBVIOUS
    <3>1. CASE i \in Int
      BY <2>1, <2>2, <2>3, <3>1
    <3>2. CASE i \notin Int
      <4>1. i \notin (s + 1)..(n + 1 - Len(find)) /\ i \notin (s + 1 + 1)..(n + 1 - Len(find))
        BY <3>2
      <4>2. i # s + 1
        BY <1>1, <3>2
      <4> QED BY <2>2, <4>1, <4>2
    <3> QED BY <3>1, <3>2
  <2> QED BY ONLY <2>4
<1>3. s = n \/ Len(find) - 1 > n - (s + 1) => A = {}
  BY <1>1 DEF Occurs
<1>4. \A i \in B : i \in Int /\ i > s + 1
  BY <1>1 DEF Occurs
<1>5. fits => s < n
  BY <1>1
<1>6. ASSUME s < n, fits
      PROVE  match <=> b[s + 1] = Head(find) /\ SubSeq(b, s + 2, s + Len(find)) = Tail(find)
  <2>1. PICK i \in 1..Len(b) : i = s + 1
    BY <1>1, <1>6
  <2>2. i + Len(find) - 1 <= Len(b)
    BY <1>1, <1>6, <2>1
  <2>3. SubSeq(b, i, i + Len(find) - 1) = find
          <=> b[i] = Head(find) /\ SubSeq(b, i + 1, i + Len(find) - 1) = Tail(find)
    BY <2>2, MatchInTwo
  <2>4. i + 1 = s + 2 /\ i + Len(find) - 1 = s + Len(find) /\ i + Len(find) - 1 = s + 1 + Len(find) - 1
    BY <1>1, <2>1
  <2> QED BY <2>1, <2>3, <2>4
<1>7. ~(Len(find) - 1 > n - (s + 1)) => fits
  BY <1>1
<1>8. fits /\ match => FirstOf(A) = s + 1
  <2> SUFFICES ASSUME fits, match PROVE FirstOf(A) = s + 1
    OBVIOUS
  <2>1. s + 1 \in A /\ \A i \in A : s + 1 <= i
    BY <1>1, <1>2, <1>4
  <2>2. A \subseteq Int
    BY <1>1, <1>2, <1>4
  <2> HIDE DEF A
  <2>3. \A x \in A : (\A y \in A : x <= y) => x = s + 1
    BY <1>1, <2>1, <2>2
  <2>4. Min(A) = s + 1
    BY <2>1, <2>3 DEF Min
  <2> QED BY <2>1, <2>4 DEF FirstOf
<1> HIDE DEF A, B, match, fits
<1>9. s < n /\ b[s + 1] # Head(find) => A = B
  BY <1>2, <1>6
<1>10. s < n /\ ~(Len(find) - 1 > n - (s + 1)) /\ b[s + 1] = Head(find) =>
         IF SubSeq(b, s + 2, s + Len(find)) = Tail(find) THEN FirstOf(A) = s + 1 ELSE A = B
  BY <1>2, <1>6, <1>7, <1>8
<1> QED BY <1>3, <1>9, <1>10 DEF A, B

SearchRec(f, b, find, n) ==
  [s \in 0..n |->
     IF s = n \/ b[s + 1] = NUL THEN 0
     ELSE IF b[s + 1] # Head(find) THEN f[s + 1]
     ELSE IF Len(find) - 1 > n - (s + 1) THEN 0
     ELSE IF SubSeq(b, s + 2, s + Len(find)) = Tail(find) THEN s + 1
     ELSE f[s + 1]]

LEMMA SearchFindsFirst ==
  ASSUME NEW S, NEW b \in Seq(S), NEW T, NEW find \in Seq(T), find # <<>>,
         NEW n \in 0..Len(b), \A i \in 1..n : b[i] # NUL,
         NEW from, from = CHOOSE f : f = SearchRec(f, b, find, n)
  PROVE  from[0] = FirstOf(Occurs(b, find, n, 0))
<1> DEFINE g == [s \in 0..n |-> FirstOf(Occurs(b, find, n, s))]
           Bad == {d \in 0..n : from[n - d] # g[n - d]}
<1>1. n \in Nat
  BY LenProperties
<1>2. \A s \in 0..n :
        /\ s = n => g[s] = 0
        /\ s # n /\ b[s + 1] # Head(find) => g[s] = g[s + 1]
        /\ s # n /\ Len(find) - 1 > n - (s + 1) => g[s] = 0
        /\ s # n /\ b[s + 1] = Head(find) /\ ~(Len(find) - 1 > n - (s + 1)) =>
             g[s] = IF SubSeq(b, s + 2, s + Len(find)) = Tail(find) THEN s + 1 ELSE g[s + 1]
  <2> SUFFICES ASSUME NEW s \in 0..n
               PROVE  /\ s = n => g[s] = 0
                      /\ s # n /\ b[s + 1] # Head(find) => g[s] = g[s + 1]
                      /\ s # n /\ Len(find) - 1 > n - (s + 1) => g[s] = 0
                      /\ s # n /\ b[s + 1] = Head(find) /\ ~(Len(find) - 1 > n - (s + 1)) =>
                           g[s] = IF SubSeq(b, s + 2, s + Len(find)) = Tail(find)
                                  THEN s + 1 ELSE g[s + 1]
    OBVIOUS
  <2>1. g[s] = FirstOf(Occurs(b, find, n, s))
    OBVIOUS
  <2>2. s # n => s < n /\ g[s + 1] = FirstOf(Occurs(b, find, n, s + 1))
    <3>1. s # n => s < n /\ s + 1 \in 0..n
      BY <1>1
    <3> QED BY <3>1
  <2> HIDE DEF g
  <2>3. /\ s = n => Occurs(b, find, n, s) = {}
        /\ s < n /\ b[s + 1] # Head(find) => Occurs(b, find, n, s) = Occurs(b, find, n, s + 1)
        /\ Len(find) - 1 > n - (s + 1) => Occurs(b, find, n, s) = {}
        /\ s < n /\ ~(Len(find) - 1 > n - (s + 1)) /\ b[s + 1] = Head(find) =>
             IF SubSeq(b, s + 2, s + Len(find)) = Tail(find)
             THEN FirstOf(Occurs(b, find, n, s)) = s + 1
             ELSE Occurs(b, find, n, s) = Occurs(b, find, n, s + 1)
    BY OccursInSteps
  <2>4. FirstOf({}) = 0
    BY DEF FirstOf
  <2> QED BY ONLY <2>1, <2>2, <2>3, <2>4
<1> HIDE DEF g
<1>3. \A s \in 0..n : s # n => b[s + 1] # NUL /\ s + 1 \in 0..n
  <2>1. \A s \in 0..n : s # n => s + 1 \in 1..n
    BY <1>1
  <2> QED BY <2>1
<1>4. g = SearchRec(g, b, find, n)
  <2>1. \A s \in 0..n : g[s] = SearchRec(g, b, find, n)[s]
    BY <1>2, <1>3 DEF SearchRec
  <2> QED BY <2>1 DEF SearchRec, g
<1>5. from = SearchRec(from, b, find, n)
  BY <1>4
<1>6. \A s \in 0..n :
        from[s] = IF s = n THEN 0
                  ELSE IF b[s + 1] # Head(find) THEN from[s + 1]
                  ELSE IF Len(find) - 1 > n - (s + 1) THEN 0
                  ELSE IF SubSeq(b, s + 2, s + Len(find)) = Tail(find) THEN s + 1
                  ELSE from[s + 1]
  <2> SUFFICES ASSUME NEW s \in 0..n
               PROVE  from[s] = IF s = n THEN 0
                                ELSE IF b[s + 1] # Head(find) THEN from[s + 1]
                                ELSE IF Len(find) - 1 > n - (s + 1) THEN 0
                                ELSE IF SubSeq(b, s + 2, s + Len(find)) = Tail(find) THEN s + 1
                                ELSE from[s + 1]
    OBVIOUS
  <2>1. from[s] = SearchRec(from, b, find, n)[s]
    BY ONLY <1>5
  <2>2. SearchRec(from, b, find, n)[s] =
          IF s = n \/ b[s + 1] = NUL THEN 0
          ELSE IF b[s + 1] # Head(find) THEN from[s + 1]
          ELSE IF Len(find) - 1 > n - (s + 1) THEN 0
          ELSE IF SubSeq(b, s + 2, s + Len(find)) = Tail(find) THEN s + 1
          ELSE from[s + 1]
    BY ONLY s \in 0..n DEF SearchRec
  <2>3. s # n => b[s + 1] # NUL
    BY <1>3
  <2> QED BY ONLY <2>1, <2>2, <2>3
<1>7. SUFFICES ASSUME Bad # {} PROVE FALSE
  <2>1. n \in 0..n /\ n - n = 0 /\ 0 \in 0..n
    BY <1>1
  <2>2. from[0] = g[0]
    BY <1>7, <2>1
  <2> QED BY <2>1, <2>2 DEF g
<1>8. PICK d \in Bad : \A e \in Bad : d <= e
  <2>1. Bad \in SUBSET (0..n)
    OBVIOUS
  <2> HIDE DEF Bad
  <2> QED BY <1>1, <1>7, <2>1, MinOfBounded
<1>9. PICK s \in 0..n : s = n - d /\ from[s] # g[s]
  <2>1. d \in 0..n /\ from[n - d] # g[n - d]
    OBVIOUS
  <2>2. n - d \in 0..n
    BY <1>1, <2>1
  <2> QED BY <2>1, <2>2
<1>10. s # n => from[s + 1] = g[s + 1]
  <2> SUFFICES ASSUME s # n PROVE from[s + 1] = g[s + 1]
    OBVIOUS
  <2>1. PICK e \in 0..n : e = d - 1 /\ n - e = s + 1 /\ ~(d <= e)
    <3>1. d - 1 \in 0..n /\ n - (d - 1) = s + 1 /\ ~(d <= d - 1)
      BY <1>1, <1>9
    <3> QED BY <3>1
  <2>2. e \notin Bad
    BY <1>8, <2>1
  <2> QED BY <2>1, <2>2
<1> HIDE DEF Bad
<1>11. CASE s = n
  BY <1>2, <1>6, <1>9, <1>11
<1>12. CASE s # n /\ b[s + 1] # Head(find)
  BY <1>2, <1>6, <1>9, <1>10, <1>12
<1>13. CASE s # n /\ b[s + 1] = Head(find)
  BY <1>2, <1>6, <1>9, <1>10, <1>13
<1> QED BY <1>11, <1>12, <1>13

\* _ble_strstr() finds the first occurrence that lies within the message
\* (misc.c:67-86).
THEOREM FindsTheFirst == Spec => []FindsInMessage
<1>1. BufferInv => FindsInMessage
  <2> SUFFICES ASSUME BufferInv, NEW find \in Patterns
               PROVE  LET at == {i \in 1..(recv_len + 1 - Len(find)) :
                                   SubSeq(buffer, i, i + Len(find) - 1) = find}
                      IN  _ble_strstr(find, recv_len) = IF at = {} THEN 0 ELSE Min(at)
    BY DEF FindsInMessage
  <2>1. PICK b, n : b = buffer /\ n = recv_len
    OBVIOUS
  <2>2. b \in Seq(Char) /\ Len(b) = BUFFER_SIZE + 1 /\ n \in 0..BUFFER_SIZE
    <3>1. BUFFER_SIZE + 1 \in Nat /\ b \in [1..(BUFFER_SIZE + 1) -> Char] /\ n \in 0..BUFFER_SIZE
      BY <2>1, TextAssumption DEF BufferInv
    <3> QED BY <3>1
  <2>3. n \in 0..Len(b) /\ \A i \in 1..n : b[i] # NUL
    <3>1. n \in 0..Len(b)
      BY <2>2, TextAssumption
    <3> QED BY <2>1, <3>1 DEF BufferInv
  <2>4. find \in Seq(STRING) /\ find # <<>>
    BY TextAssumption
  <2>5. PICK from : from = CHOOSE f : f = SearchRec(f, b, find, n)
    OBVIOUS
  <2>6. from[0] = FirstOf(Occurs(b, find, n, 0))
    BY <2>2, <2>3, <2>4, <2>5, SearchFindsFirst
  <2>7. _ble_strstr(find, recv_len) = from[0]
    BY <2>1, <2>5 DEF _ble_strstr, SearchRec
  <2>8. Occurs(b, find, n, 0) = {i \in 1..(recv_len + 1 - Len(find)) :
                                   SubSeq(buffer, i, i + Len(find) - 1) = find}
    BY <2>1 DEF Occurs
  <2> QED BY <2>6, <2>7, <2>8 DEF FirstOf
<1> QED BY <1>1, BufferInvariant, PTL

-----------------------------------------------------------------------------
(* The level that a message of pairs tells.                                *)

\* In such a message every other character is a comma, up to the CR.
LEMMA CommasAreEven ==
  ASSUME NEW n \in Nat \ {0}, NEW ps \in [1..n -> Pairs], NEW t, Written(t, ps, n),
         NEW j \in 1..(4 * n + 2)
  PROVE  t[j] = Comma <=> j % 2 = 0 /\ j # 4 * n + 2
<1>1. t[1] = "2" /\ t[4 * n + 2] = CR
  BY DEF Written
<1>2. CASE j = 1
  BY <1>1, <1>2, DigitsAreNot
<1>3. CASE j = 4 * n + 2
  BY <1>1, <1>3, DigitsAreNot
<1>4. CASE j # 1 /\ j # 4 * n + 2
  <2>1. PICK i \in 1..n : j \in {4 * i - 2, 4 * i - 1, 4 * i, 4 * i + 1}
    <3>1. (j + 2) \div 4 \in 1..n
      BY <1>4
    <3>2. j \in {4 * ((j + 2) \div 4) - 2, 4 * ((j + 2) \div 4) - 1,
                 4 * ((j + 2) \div 4), 4 * ((j + 2) \div 4) + 1}
      BY <1>4
    <3> QED BY <3>1, <3>2
  <2>2. /\ t[4 * i - 2] = Comma /\ t[4 * i - 1] = ps[i].key
        /\ t[4 * i] = Comma /\ t[4 * i + 1] = ps[i].value
    BY DEF Written
  <2>3. ps[i].key # Comma /\ ps[i].value # Comma
    <3>1. ps[i].key \in Keys /\ ps[i].value \in Values
      BY DEF Pairs
    <3> QED BY <3>1, DigitsAreNot
  <2>4. /\ (4 * i - 2) % 2 = 0 /\ (4 * i - 1) % 2 = 1
        /\ (4 * i) % 2 = 0 /\ (4 * i + 1) % 2 = 1
    OBVIOUS
  <2> QED BY <1>4, <2>1, <2>2, <2>3, <2>4
<1> QED BY <1>2, <1>3, <1>4

\* Its fields begin at the odd places, each k - 1 fields after the first.
LEMMA FieldsAreOdd ==
  ASSUME NEW n \in Nat \ {0}, NEW ps \in [1..n -> Pairs],
         NEW t \in Seq(NoNul), Written(t, ps, n)
  PROVE  /\ Cardinality(Begins(t, Comma)) = 2 * n + 1
         /\ \A k \in 1..(2 * n + 1) :
              /\ 2 * k - 1 \in Begins(t, Comma)
              /\ Cardinality(Earlier(t, Comma, 2 * k - 1)) = k - 1
<1>1. Len(t) = 4 * n + 2
  BY DEF Written
<1>2. \A b : b \in Begins(t, Comma) <=> \E k \in 1..(2 * n + 1) : b = 2 * k - 1
  <2>1. ASSUME NEW b \in Begins(t, Comma) PROVE \E k \in 1..(2 * n + 1) : b = 2 * k - 1
    <3>1. b \in 1..(4 * n + 2) /\ t[b] # Comma /\ (b > 1 => t[b - 1] = Comma)
      BY <1>1 DEF Begins
    <3>2. b % 2 = 1 \/ b = 4 * n + 2
      BY <3>1, CommasAreEven
    <3>3. b # 4 * n + 2
      <4> SUFFICES ASSUME b = 4 * n + 2 PROVE FALSE
        OBVIOUS
      <4>1. b - 1 \in 1..(4 * n + 2) /\ (b - 1) % 2 = 1 /\ b > 1
        OBVIOUS
      <4>2. t[b - 1] # Comma
        BY <4>1, CommasAreEven
      <4> QED BY <3>1, <4>1, <4>2
    <3>4. (b + 1) \div 2 \in 1..(2 * n + 1) /\ b = 2 * ((b + 1) \div 2) - 1
      BY ONLY <3>1, <3>2, <3>3, n \in Nat
    <3> QED BY <3>4
  <2>2. ASSUME NEW k \in 1..(2 * n + 1) PROVE 2 * k - 1 \in Begins(t, Comma)
    <3>1. 2 * k - 1 \in 1..(4 * n + 2) /\ (2 * k - 1) % 2 = 1
      OBVIOUS
    <3>2. t[2 * k - 1] # Comma
      BY <3>1, CommasAreEven
    <3>3. 2 * k - 1 > 1 => t[2 * k - 1 - 1] = Comma
      <4> SUFFICES ASSUME 2 * k - 1 > 1 PROVE t[2 * k - 1 - 1] = Comma
        OBVIOUS
      <4>1. PICK j \in 1..(4 * n + 2) : j = 2 * k - 1 - 1 /\ j % 2 = 0 /\ j # 4 * n + 2
        OBVIOUS
      <4>2. t[j] = Comma
        BY <4>1, CommasAreEven
      <4> QED BY <4>1, <4>2
    <3> QED BY <1>1, <3>1, <3>2, <3>3 DEF Begins
  <2> QED BY <2>1, <2>2
<1>3. Cardinality(Begins(t, Comma)) = 2 * n + 1
  <2> DEFINE A == 1..(2 * n + 1)
             F == [k \in A |-> 2 * k - 1]
  <2>1. IsFiniteSet(A) /\ Cardinality(A) = 2 * n + 1
    BY FS_Interval
  <2>2. F \in [A -> Begins(t, Comma)]
    BY <1>2
  <2>3. \A x \in A, y \in A : F[x] = F[y] => x = y
    OBVIOUS
  <2>4. \A z \in Begins(t, Comma) : \E x \in A : F[x] = z
    BY <1>2
  <2> HIDE DEF A, F
  <2> QED BY ONLY <2>1, <2>2, <2>3, <2>4, EquallyMany
<1>4. ASSUME NEW k \in 1..(2 * n + 1)
      PROVE  Cardinality(Earlier(t, Comma, 2 * k - 1)) = k - 1
  <2> DEFINE A == 1..(k - 1)
             B == Earlier(t, Comma, 2 * k - 1)
             F == [m \in A |-> 2 * m - 1]
  <2>1. IsFiniteSet(A) /\ Cardinality(A) = k - 1
    <3>1. 1 \in Int /\ k - 1 \in Int
      OBVIOUS
    <3>2. IsFiniteSet(1..(k - 1))
          /\ Cardinality(1..(k - 1)) = IF 1 > k - 1 THEN 0 ELSE (k - 1) - 1 + 1
      BY ONLY <3>1, FS_Interval
    <3> QED BY <3>2
  <2>2. \A b : b \in B <=> \E m \in A : b = 2 * m - 1
    <3>1. ASSUME NEW b \in B PROVE \E m \in A : b = 2 * m - 1
      <4>1. b \in Begins(t, Comma) /\ b < 2 * k - 1
        BY DEF Earlier
      <4>2. PICK m \in 1..(2 * n + 1) : b = 2 * m - 1
        BY <1>2, <4>1
      <4>3. m \in 1..(k - 1)
        BY <4>1, <4>2
      <4> QED BY <4>2, <4>3
    <3>2. ASSUME NEW m \in A PROVE 2 * m - 1 \in B
      <4>1. m \in 1..(2 * n + 1) /\ 2 * m - 1 < 2 * k - 1
        OBVIOUS
      <4> QED BY <1>2, <4>1 DEF Earlier
    <3> QED BY <3>1, <3>2
  <2>3. F \in [A -> B]
    BY <2>2
  <2>4. \A x \in A, y \in A : F[x] = F[y] => x = y
    OBVIOUS
  <2>5. \A z \in B : \E x \in A : F[x] = z
    BY <2>2
  <2>6. Cardinality(B) = Cardinality(A)
    <3> HIDE DEF A, B, F
    <3> QED BY ONLY <2>1, <2>3, <2>4, <2>5, EquallyMany
  <2> QED BY <2>1, <2>6
<1> QED BY <1>2, <1>3, <1>4

\* split() gives the fields, of which the code reads the first character.
FieldsAre(c, t, n) ==
  /\ Len(c) = 2 * n + 1
  /\ \A k \in 1..(2 * n + 1) : c[k][1] = t[2 * k - 1]

LEMMA SplitGivesFields ==
  ASSUME NEW n \in Nat \ {0}, NEW ps \in [1..n -> Pairs],
         NEW t \in Seq(NoNul), Written(t, ps, n)
  PROVE  FieldsAre(split(t, Comma), t, n)
<1>1. Len(t) = 4 * n + 2 /\ Len(t) \in Nat
  BY DEF Written
<1>2. \A j \in 1..Len(t) : t[j] \in NoNul
  BY ElementOfSeq
<1>3. AfterSeps(t, 1, Comma) = 1 /\ t[1] # Comma
  <2>1. t[1] # Comma
    BY DigitsAreNot DEF Written
  <2>2. 1 \in 1..(Len(t) + 1)
    BY <1>1
  <2>3. PICK a \in 1..(Len(t) + 1) : /\ a = AfterSeps(t, 1, Comma)
                                     /\ \A j \in 1..(a - 1) : t[j] = Comma
    BY <2>2, AfterSepsIs
  <2>4. a = 1
    <3>1. a # 1 => 1 \in 1..(a - 1)
      BY <1>1
    <3> QED BY <2>1, <2>3, <3>1
  <2> QED BY <2>1, <2>3, <2>4
<1>4. t = SubSeq(t, AfterSeps(t, 1, Comma), Len(t)) /\ Stripped(t, Comma)
  BY <1>3, SubSeqFull DEF Stripped
<1>5. /\ Len(split(t, Comma)) = Cardinality(Begins(t, Comma))
      /\ CutsAt(split(t, Comma), t, Comma)
  BY <1>4, SplitCuts
<1>6. /\ Cardinality(Begins(t, Comma)) = 2 * n + 1
      /\ \A k \in 1..(2 * n + 1) :
           /\ 2 * k - 1 \in Begins(t, Comma)
           /\ Cardinality(Earlier(t, Comma, 2 * k - 1)) = k - 1
  BY FieldsAreOdd
<1>7. ASSUME NEW k \in 1..(2 * n + 1) PROVE split(t, Comma)[k][1] = t[2 * k - 1]
  <2>1. PICK b : b = 2 * k - 1
    OBVIOUS
  <2>2. b \in Begins(t, Comma) /\ Cardinality(Earlier(t, Comma, b)) + 1 = k
    <3>1. b \in Begins(t, Comma) /\ Cardinality(Earlier(t, Comma, b)) = k - 1
      BY <1>6, <2>1
    <3> QED BY <3>1
  <2>3. b \in 1..Len(t) /\ b \in 1..(Len(t) + 1) /\ b \in Int /\ t[b] # Comma
    BY <1>1, <2>2 DEF Begins
  <2>4. split(t, Comma)[k] = SubSeq(t, b, NextSep(t, b, Comma) - 1)
    BY <1>5, <2>2 DEF CutsAt
  <2>5. PICK e \in b..(Len(t) + 1) : /\ e = NextSep(t, b, Comma)
                                     /\ e <= Len(t) => t[e] = Comma
    BY <2>3, NextSepIs
  <2>6. e # b
    BY <2>3, <2>5
  <2>7. e - 1 \in Int /\ 1 \in 1..(e - 1 - b + 1) /\ b + 1 - 1 = b
    BY ONLY <1>1, <2>3, <2>5, <2>6
  <2>8. \A i \in b..(e - 1) : t[i] \in NoNul
    <3>1. \A i \in b..(e - 1) : i \in 1..Len(t)
      BY ONLY <1>1, <2>3, <2>5
    <3> QED BY <1>2, <3>1
  <2>9. SubSeq(t, b, e - 1)[1] = t[b]
    <3>1. \A i \in 1..(e - 1 - b + 1) : SubSeq(t, b, e - 1)[i] = t[b + i - 1]
      BY ONLY <2>3, <2>7, <2>8, SubSeqProperties
    <3> QED BY <2>7, <3>1
  <2> QED BY <2>1, <2>4, <2>5, <2>9
<1> QED BY <1>5, <1>6, <1>7 DEF FieldsAre

\* The parser sees a message with a comma, and nothing behind it.
LEMMA CStringIsText ==
  ASSUME BufferInv, NEW k \in 1..recv_len, Text[k] = Comma
  PROVE  CString = Text /\ Comma \in ToSet(Text)
<1>1. /\ Text \in Seq(NoNul) /\ Len(Text) = recv_len /\ recv_len \in Nat
      /\ \A i \in 1..recv_len : Text[i] = buffer[i]
  BY TextIs
<1>2. buffer[recv_len + 1] = NUL /\ \A i \in 1..recv_len : buffer[i] # NUL
  BY <1>1 DEF BufferInv
<1>3. /\ buffer \in Seq(Char) /\ Len(buffer) = BUFFER_SIZE + 1
      /\ BUFFER_SIZE \in Nat /\ recv_len <= BUFFER_SIZE
  BY TextAssumption DEF BufferInv
<1>4. PICK b, n : b = buffer /\ n = recv_len
  OBVIOUS
<1>5. PICK e : e = NextSep(b, 1, NUL)
  OBVIOUS
<1>6. e = n + 1
  <2>1. b \in Seq(Char) /\ 1 \in 1..(Len(b) + 1) /\ Len(b) = BUFFER_SIZE + 1
    BY <1>3, <1>4
  <2>2. /\ e \in 1..(Len(b) + 1)
        /\ \A j \in 1..(e - 1) : b[j] # NUL
        /\ e <= Len(b) => b[e] = NUL
    BY <1>5, <2>1, NextSepIs
  <2>3. PICK m : m = n + 1
    OBVIOUS
  <2>4. b[m] = NUL /\ \A j \in 1..n : b[j] # NUL
    BY <1>2, <1>4, <2>3
  <2>5. /\ n \in Int /\ m = n + 1 /\ m <= Len(b) /\ m >= 1
        /\ e \in Int /\ e >= 1
    BY ONLY <1>1, <1>3, <1>4, <2>1, <2>2, <2>3
  <2>6. ~(m < e)
    <3>1. m < e => m \in 1..(e - 1)
      BY ONLY <2>5
    <3> QED BY ONLY <2>2, <2>4, <3>1
  <2>7. ~(e < m)
    <3>1. e < m => e \in 1..n /\ e <= Len(b)
      BY ONLY <2>1, <2>2, <2>5, <1>3
    <3> QED BY ONLY <2>2, <2>4, <3>1
  <2> QED BY ONLY <2>5, <2>6, <2>7
<1>7. CString = SubSeq(b, 1, n)
  <2>1. e - 1 = n
    BY <1>1, <1>4, <1>6
  <2> QED BY <1>4, <1>5, <2>1 DEF CString
<1>8. Comma \in ToSet(Text)
  <2>1. k \in DOMAIN Text
    BY <1>1, LenProperties
  <2> QED BY <2>1 DEF ToSet
<1> QED BY <1>4, <1>7, <1>8 DEF Text

\* The level of the first pair with key 1 is told, whatever stands around it
\* and whatever an earlier message left behind it in the buffer
\* (battery_level_engine.c:279-301).
THEOREM TellsFirstPair == Spec => []LevelOfFirstPair
<1>1. BufferInv => LevelOfFirstPair
  <2> SUFFICES ASSUME BufferInv, NEW n \in 1..MaxPairs, NEW ps \in [1..n -> Pairs],
                      Text = Format(ps)
               PROVE  LET at == {i \in 1..n : ps[i].key = "1"}
                      IN  Told = IF at = {} THEN 0
                                        ELSE (Digit[ps[Min(at)].value] + 1) * 10
    BY DEF LevelOfFirstPair
  <2>1. n \in Nat \ {0}
    BY TextAssumption
  <2>2. PICK t \in Seq(NoNul) : t = Text /\ Written(t, ps, n)
    BY <2>1, FormatIs
  <2>3. PICK c : c = split(t, Comma) /\ FieldsAre(c, t, n)
    BY <2>1, <2>2, SplitGivesFields
  <2> DEFINE at == {i \in 1..n : ps[i].key = "1"}
             odd == {i \in 2..(Len(c) - 1) : i % 2 = 0 /\ c[i][1] = "1"}
  <2>4. \A m \in 1..n : c[2 * m][1] = ps[m].key /\ c[2 * m + 1][1] = ps[m].value
    <3> SUFFICES ASSUME NEW m \in 1..n
                 PROVE  c[2 * m][1] = ps[m].key /\ c[2 * m + 1][1] = ps[m].value
      OBVIOUS
    <3>1. PICK k \in 1..(2 * n + 1) : k = 2 * m /\ 2 * k - 1 = 4 * m - 1
      BY <2>1
    <3>2. PICK l \in 1..(2 * n + 1) : l = 2 * m + 1 /\ 2 * l - 1 = 4 * m + 1
      BY <2>1
    <3>3. t[4 * m - 1] = ps[m].key /\ t[4 * m + 1] = ps[m].value
      BY <2>2 DEF Written
    <3> QED BY <2>3, <3>1, <3>2, <3>3 DEF FieldsAre
  <2>5. \A i : i \in odd <=> \E m \in at : i = 2 * m
    <3>1. Len(c) - 1 = 2 * n
      BY <2>1, <2>3 DEF FieldsAre
    <3>2. ASSUME NEW i \in odd PROVE \E m \in at : i = 2 * m
      <4>1. PICK m \in 1..n : i = 2 * m
        <5>1. i \in 2..(2 * n) /\ i % 2 = 0
          BY <3>1
        <5>2. i \div 2 \in 1..n /\ i = 2 * (i \div 2)
          BY <2>1, <5>1
        <5> QED BY <5>2
      <4>2. m \in at
        BY <2>4, <4>1
      <4> QED BY <4>1, <4>2
    <3>3. ASSUME NEW m \in at PROVE 2 * m \in odd
      <4>1. 2 * m \in 2..(2 * n) /\ (2 * m) % 2 = 0
        BY <2>1
      <4> QED BY <2>4, <3>1, <4>1
    <3> QED BY <3>2, <3>3
  <2>6. Told = IF odd = {} THEN 0 ELSE (Digit[c[Min(odd) + 1][1]] + 1) * 10
    <3>1. Text[2] = Comma /\ 2 \in 1..recv_len
      <4>1. Len(Text) = 4 * n + 2 /\ Len(Text) = recv_len /\ recv_len \in Nat
        BY <2>2, TextIs DEF Written
      <4>2. 1 \in 1..n /\ 4 * 1 - 2 = 2 /\ 2 \in 1..recv_len
        BY <2>1, <4>1
      <4> QED BY <2>2, <4>2 DEF Written
    <3>2. CString = Text /\ Comma \in ToSet(Text)
      BY <3>1, CStringIsText
    <3>3. Level(Text) = IF odd = {} THEN 0 ELSE (Digit[c[Min(odd) + 1][1]] + 1) * 10
      BY <2>2, <2>3 DEF Level
    <3> QED BY <3>2, <3>3 DEF Told
  <2>7. odd = {} <=> at = {}
    <3> HIDE DEF odd, at
    <3> QED BY <2>5
  <2>8. at # {} => c[Min(odd) + 1][1] = ps[Min(at)].value
    <3> SUFFICES ASSUME at # {} PROVE c[Min(odd) + 1][1] = ps[Min(at)].value
      OBVIOUS
    <3>1. at \in SUBSET (0..n) /\ odd \in SUBSET (0..(2 * n)) /\ 2 * n \in Nat
      <4>1. \A i \in at : i \in 0..n
        OBVIOUS
      <4>2. \A i \in odd : i \in 0..(2 * n)
        <5> HIDE DEF odd
        <5>1. \A m \in at : 2 * m \in 0..(2 * n)
          BY <2>1
        <5> QED BY <2>5, <5>1
      <4> QED BY <2>1, <4>1, <4>2
    <3>2. Min(at) \in 1..n
      <4>1. at \subseteq 1..n
        OBVIOUS
      <4> HIDE DEF at
      <4> QED BY <2>1, <3>1, <4>1, MinOfBounded
    <3> HIDE DEF odd, at
    <3>3. PICK p \in at : p = Min(at) /\ \A y \in at : p <= y
      BY <2>1, <3>1, MinOfBounded
    <3>4. odd # {}
      BY <2>7
    <3>5. PICK o \in odd : o = Min(odd) /\ \A y \in odd : o <= y
      BY <3>1, <3>4, MinOfBounded
    <3>6. PICK m \in at : o = 2 * m
      BY <2>5
    <3>7. 2 * p \in odd
      BY <2>5
    <3>8. o <= 2 * p /\ p <= m
      BY <3>3, <3>5, <3>7
    <3>9. m \in Int /\ p \in Int
      BY <3>1
    <3>10. o + 1 = 2 * p + 1
      BY ONLY <3>6, <3>8, <3>9
    <3> QED BY <2>4, <3>2, <3>3, <3>5, <3>10
  <2> QED BY <2>6, <2>7, <2>8
<1> QED BY <1>1, BufferInvariant, PTL
=============================================================================
