-------------------------- MODULE IOContextProofs ---------------------------
(***************************************************************************)
(* Theorems about IOContext, for every number of timers and descriptors,   *)
(* all delays and any resolution of the clock.                             *)
(***************************************************************************)
EXTENDS IOContext, SequenceLemmas, TLAPS

-----------------------------------------------------------------------------
(* Where ioc_timeout() inserts.                                            *)

\* The three outcomes of the walk, on any list whatever its order.
LEMMA InsertPosCases ==
  ASSUME NEW S, NEW L \in Seq(S), NEW v \in [S -> Int], NEW d \in Int
  PROVE  LET p == InsertPos(L, v, d) IN
         \/ p = 1 /\ (L = <<>> \/ v[L[1]] >= d)
         \/ /\ L # <<>> /\ v[L[1]] < d
            /\ d >= v[L[Len(L)]]
            /\ p = Len(L) + 1
         \/ /\ L # <<>> /\ v[L[1]] < d
            /\ d < v[L[Len(L)]]
            /\ p \in 2..Len(L) /\ v[L[p]] >= d
            /\ \A j \in 2..Len(L) : v[L[j]] >= d => p <= j
<1> DEFINE M == {j \in 2..Len(L) : v[L[j]] >= d}
<1>1. /\ Len(L) \in Nat /\ (L # <<>> => Len(L) > 0)
      /\ \A j \in 1..Len(L) : v[L[j]] \in Int
  BY LenProperties, ElementOfSeq, EmptySeq
<1>2. CASE L = <<>> \/ v[L[1]] >= d
  BY <1>2 DEF InsertPos
<1>3. CASE L # <<>> /\ ~(v[L[1]] >= d) /\ d >= v[L[Len(L)]]
  BY <1>1, <1>3 DEF InsertPos
<1>4. CASE L # <<>> /\ ~(v[L[1]] >= d) /\ ~(d >= v[L[Len(L)]])
  <2>1. Len(L) \in M
    BY <1>1, <1>4
  <2>2. M \subseteq 0..Len(L) /\ M # {}
    BY <1>1, <2>1
  <2>3. Min(M) \in M /\ \A j \in M : Min(M) <= j
    <3> HIDE DEF M
    <3> QED BY <1>1, <2>2, MinOfBounded
  <2>4. InsertPos(L, v, d) = Min(M)
    BY <1>4 DEF InsertPos
  <2> HIDE DEF InsertPos
  <2>5. v[L[1]] < d /\ d < v[L[Len(L)]]
    BY <1>1, <1>4
  <2> QED BY <1>4, <2>3, <2>4, <2>5
<1> QED BY <1>2, <1>3, <1>4

LEMMA InsertPosInList ==
  ASSUME NEW S, NEW L \in Seq(S), NEW v \in [S -> Int], NEW d \in Int
  PROVE  InsertPos(L, v, d) \in 1..Len(L)+1
<1>1. Len(L) \in Nat
  BY LenProperties
<1> QED BY <1>1, InsertPosCases

\* In a list that is in order, the new timer comes after the smaller vals
\* and before the larger ones.
LEMMA InsertPosInOrder ==
  ASSUME NEW S, NEW L \in Seq(S), NEW v \in [S -> Int], NEW d \in Int,
         \A i, j \in 1..Len(L) : i < j => v[L[i]] <= v[L[j]]
  PROVE  \A j \in 1..Len(L) : /\ j < InsertPos(L, v, d) => v[L[j]] <= d
                              /\ j >= InsertPos(L, v, d) => d <= v[L[j]]
<1> DEFINE p == InsertPos(L, v, d)
<1>1. /\ Len(L) \in Nat /\ (L # <<>> => Len(L) > 0)
      /\ \A j \in 1..Len(L) : v[L[j]] \in Int
  BY LenProperties, ElementOfSeq, EmptySeq
<1>2. CASE p = 1 /\ (L = <<>> \/ v[L[1]] >= d)
  <2> SUFFICES ASSUME NEW j \in 1..Len(L) PROVE d <= v[L[j]]
    BY <1>1, <1>2
  <2>1. L # <<>>
    BY <1>1, LenProperties, EmptySeq
  <2>2. v[L[1]] >= d /\ 1 \in 1..Len(L) /\ (j = 1 \/ 1 < j)
    BY <1>1, <1>2, <2>1
  <2> HIDE DEF p
  <2>3. v[L[1]] <= v[L[j]]
    BY <1>1, <2>2
  <2> QED BY <1>1, <2>2, <2>3
<1>3. CASE L # <<>> /\ v[L[1]] < d /\ d >= v[L[Len(L)]] /\ p = Len(L) + 1
  <2> SUFFICES ASSUME NEW j \in 1..Len(L) PROVE v[L[j]] <= d
    BY <1>1, <1>3
  <2> HIDE DEF p
  <2>1. Len(L) \in 1..Len(L) /\ (j = Len(L) \/ j < Len(L))
    BY <1>1
  <2>2. v[L[j]] <= v[L[Len(L)]]
    BY <1>1, <2>1
  <2> QED BY <1>1, <1>3, <2>1, <2>2
<1>4. CASE /\ L # <<>> /\ v[L[1]] < d
           /\ p \in 2..Len(L) /\ v[L[p]] >= d
           /\ \A j \in 2..Len(L) : v[L[j]] >= d => p <= j
  <2> HIDE DEF p
  <2> SUFFICES ASSUME NEW j \in 1..Len(L)
               PROVE  /\ j < p => v[L[j]] <= d
                      /\ j >= p => d <= v[L[j]]
    BY DEF p
  <2>1. p \in 1..Len(L) /\ (p < j => v[L[p]] <= v[L[j]])
    BY <1>1, <1>4
  <2>2. j >= p => d <= v[L[j]]
    BY <1>1, <1>4, <2>1
  <2>3. j < p => v[L[j]] <= d
    BY <1>1, <1>4
  <2> QED BY <2>2, <2>3
<1> QED BY <1>2, <1>3, <1>4, InsertPosCases

\* A shorter delay armed right after a longer one is placed ahead of it.
LEMMA ShorterGoesFirst ==
  ASSUME NEW S, NEW L \in Seq(S), NEW v \in [S -> Int],
         NEW t \in S, t \notin ToSet(L),
         NEW d1 \in Int, NEW d2 \in Int, d2 < d1
  PROVE  LET p == InsertPos(L, v, d1)
         IN  InsertPos(InsertAt(L, p, t), [v EXCEPT ![t] = d1], d2) <= p
<1> DEFINE p == InsertPos(L, v, d1)
           L1 == InsertAt(L, p, t)
           v1 == [v EXCEPT ![t] = d1]
           q == InsertPos(L1, v1, d2)
<1>1. /\ Len(L) \in Nat /\ DOMAIN L = 1..Len(L)
      /\ \A j \in 1..Len(L) : L[j] \in S /\ L[j] # t
  BY LenProperties, ElementOfSeq DEF ToSet
<1>2. p \in 1..Len(L)+1
  BY InsertPosInList
<1>3. /\ \/ p = 1
         \/ p = Len(L) + 1
         \/ p \in 2..Len(L) /\ d1 < v[L[Len(L)]]
  BY InsertPosCases
<1> HIDE DEF p
<1>4. /\ L1 \in Seq(S) /\ Len(L1) = Len(L) + 1
      /\ L1[p] = t
      /\ p # Len(L) + 1 => L1[Len(L1)] = L[Len(L)]
  <2>1. /\ L1 \in Seq(S) /\ Len(L1) = Len(L) + 1
        /\ \A j \in 1..Len(L)+1 : L1[j] = IF j < p THEN L[j]
                                         ELSE IF j = p THEN t ELSE L[j-1]
    BY <1>2, InsertAtProperties
  <2> HIDE DEF L1
  <2> QED BY <1>1, <1>2, <2>1
<1>5. v1 \in [S -> Int] /\ v1[t] = d1 /\ \A u \in S : u # t => v1[u] = v[u]
  OBVIOUS
<1>6. ASSUME p = 1 PROVE q <= p
  <2>1. v1[L1[1]] >= d2
    BY <1>4, <1>5, <1>6
  <2> HIDE DEF L1, v1
  <2> QED BY <1>6, <2>1 DEF InsertPos
<1>7. ASSUME p # 1 PROVE q <= p
  <2>1. p \in 2..Len(L1) /\ v1[L1[p]] >= d2
    BY <1>1, <1>2, <1>4, <1>5, <1>7
  <2>2. d2 < v1[L1[Len(L1)]]
    <3>1. CASE p = Len(L) + 1
      BY <1>4, <1>5, <3>1
    <3>2. CASE p # Len(L) + 1
      <4>1. d1 < v[L[Len(L)]] /\ Len(L) \in 1..Len(L)
        BY <1>1, <1>2, <1>3, <1>7, <3>2
      <4>2. v1[L1[Len(L1)]] = v[L[Len(L)]] /\ v[L[Len(L)]] \in Int
        BY <1>1, <1>4, <1>5, <3>2, <4>1
      <4> QED BY <4>1, <4>2
    <3> QED BY <3>1, <3>2
  <2> HIDE DEF L1, v1
  <2>3. q = 1 \/ \A j \in 2..Len(L1) : v1[L1[j]] >= d2 => q <= j
    <3>1. v1[L1[Len(L1)]] \in Int
      BY <1>1, <1>4, <1>5, ElementOfSeq
    <3>2. ~(d2 >= v1[L1[Len(L1)]])
      BY <2>2, <3>1
    <3> QED BY <1>4, <1>5, <3>2, InsertPosCases
  <2> HIDE DEF q
  <2>4. q <= p
    BY <1>2, <2>1, <2>3
  <2> QED BY <2>4 DEF q
<1>8. q <= p
  BY <1>6, <1>7
<1> QED BY <1>8 DEF p

-----------------------------------------------------------------------------
(* What the two operations on the timer list do to the state.              *)

LEMMA ListFacts ==
  ASSUME TypeOK
  PROVE  /\ Len(timeout_data_list) \in Nat
         /\ DOMAIN timeout_data_list = 1..Len(timeout_data_list)
         /\ timeout_data_list # <<>> => 1 \in 1..Len(timeout_data_list)
         /\ \A i \in 1..Len(timeout_data_list) :
              timeout_data_list[i] \in Timers /\ timeout_data_list[i] \in Armed
         /\ Armed \subseteq Timers
         /\ timeout_data_list = <<>> => Armed = {}
<1>1. timeout_data_list \in Seq(Timers)
  BY DEF TypeOK
<1>2. /\ Len(timeout_data_list) \in Nat
      /\ DOMAIN timeout_data_list = 1..Len(timeout_data_list)
      /\ timeout_data_list # <<>> => Len(timeout_data_list) # 0
      /\ timeout_data_list = <<>> => Len(timeout_data_list) = 0
      /\ \A i \in 1..Len(timeout_data_list) : timeout_data_list[i] \in Timers
  BY <1>1, LenProperties, EmptySeq, ElementOfSeq
<1> QED BY <1>2 DEF Armed, ToSet

LEMMA InsertTimer ==
  ASSUME NEW s \in Seq(Timers), NEW i \in 1..Len(s)+1, NEW t \in Timers
  PROVE  /\ InsertAt(s, i, t) \in Seq(Timers)
         /\ Len(InsertAt(s, i, t)) = Len(s) + 1
         /\ \A j \in 1..Len(s)+1 :
              InsertAt(s, i, t)[j] = IF j < i THEN s[j]
                                     ELSE IF j = i THEN t ELSE s[j-1]
  BY InsertAtProperties

\* An insertion arms its timer.
LEMMA InsertArms ==
  ASSUME TypeOK, NEW t \in Timers, NEW d \in Nat, NEW m \in BOOLEAN,
         t \notin Armed, Insert(t, d, m)
  PROVE  Armed' = Armed \cup {t}
<1> DEFINE L == timeout_data_list
           p == InsertPos(L, val, d)
<1>1. L \in Seq(Timers) /\ IsInjective(L) /\ val \in [Timers -> Int] /\ d \in Int
  BY DEF TypeOK
<1>2. t \notin ToSet(L) /\ timeout_data_list' = InsertAt(L, p, t)
  BY DEF Insert, Armed
<1>3. p \in 1..Len(L)+1
  BY <1>1, InsertPosInList
<1>4. ToSet(InsertAt(L, p, t)) = ToSet(L) \cup {t}
  <2> HIDE DEF p, L
  <2> QED BY <1>1, <1>2, <1>3, InsertAtElements
<1> QED BY <1>2, <1>4 DEF Armed

\* What an insertion does to the values and the marks.
LEMMA InsertMarks ==
  ASSUME TypeOK, NEW t \in Timers, NEW d \in Nat, NEW m \in BOOLEAN,
         t \notin Armed, Insert(t, d, m)
  PROVE  /\ take_care_later' \subseteq Armed' /\ Armed' = Armed \cup {t}
         /\ m => t \in take_care_later'
         /\ ~m => t \notin take_care_later'
         /\ val'[t] = d /\ \A u \in Timers : u # t => val'[u] = val[u]
         /\ \A u \in Timers :
              u # t => (u \in take_care_later' <=> u \in take_care_later)
<1>1. Armed' = Armed \cup {t}
  BY InsertArms
<1>2. val'[t] = d /\ \A u \in Timers : u # t => val'[u] = val[u]
  BY DEF Insert, TypeOK
<1>3. take_care_later' = Marked(t, m) /\ take_care_later \subseteq Armed
  BY DEF Insert, TypeOK
<1> QED BY <1>1, <1>2, <1>3 DEF Marked

LEMMA InsertEffect ==
  ASSUME TypeOK, NEW t \in Timers, NEW d \in Nat, NEW m \in BOOLEAN,
         t \notin Armed, Insert(t, d, m)
  PROVE  LET p == InsertPos(timeout_data_list, val, d) IN
         /\ p \in 1..Len(timeout_data_list)+1
         /\ timeout_data_list' \in Seq(Timers)
         /\ IsInjective(timeout_data_list')
         /\ Len(timeout_data_list') = Len(timeout_data_list) + 1
         /\ \A j \in 1..Len(timeout_data_list)+1 :
              timeout_data_list'[j] = IF j < p THEN timeout_data_list[j]
                                      ELSE IF j = p THEN t
                                      ELSE timeout_data_list[j-1]
         /\ Armed' = Armed \cup {t}
         /\ val' \in [Timers -> Nat] /\ due' \in [Timers -> Nat]
         /\ val'[t] = d /\ due'[t] = d * Res
         /\ \A u \in Timers : u # t => val'[u] = val[u] /\ due'[u] = due[u]
         /\ take_care_later' \subseteq Armed'
         /\ m => t \in take_care_later'
         /\ ~m => t \notin take_care_later'
         /\ \A u \in Timers :
              u # t => (u \in take_care_later' <=> u \in take_care_later)
<1> DEFINE L == timeout_data_list
           p == InsertPos(L, val, d)
<1>1. L \in Seq(Timers) /\ IsInjective(L) /\ val \in [Timers -> Int]
  BY DEF TypeOK
<1>2. d \in Nat /\ t \notin ToSet(L) /\ timeout_data_list' = InsertAt(L, p, t)
  BY DEF Insert, Armed
<1>3. p \in 1..Len(L)+1
  BY <1>1, InsertPosInList
<1>4. /\ InsertAt(L, p, t) \in Seq(Timers)
      /\ Len(InsertAt(L, p, t)) = Len(L) + 1
      /\ \A j \in 1..Len(L)+1 :
           InsertAt(L, p, t)[j] = IF j < p THEN L[j]
                                  ELSE IF j = p THEN t ELSE L[j-1]
  <2> HIDE DEF p, L
  <2> QED BY <1>1, <1>3, InsertTimer
<1>5. IsInjective(InsertAt(L, p, t))
  <2> HIDE DEF p, L
  <2> QED BY <1>1, <1>2, <1>3, InsertAtElements
<1>6. Armed' = Armed \cup {t}
  BY InsertArms
<1>7. d * Res \in Nat
  BY <1>2, ResAssumption
<1>8. /\ val' \in [Timers -> Nat] /\ due' \in [Timers -> Nat]
      /\ val'[t] = d /\ due'[t] = d * Res
      /\ \A u \in Timers : u # t => val'[u] = val[u] /\ due'[u] = due[u]
  BY <1>2, <1>7 DEF Insert, TypeOK
<1>9. /\ take_care_later' \subseteq Armed'
      /\ m => t \in take_care_later'
      /\ ~m => t \notin take_care_later'
      /\ \A u \in Timers :
           u # t => (u \in take_care_later' <=> u \in take_care_later)
  BY InsertMarks
<1> HIDE DEF L, p
<1>10. /\ timeout_data_list' \in Seq(Timers)
       /\ IsInjective(timeout_data_list')
       /\ Len(timeout_data_list') = Len(L) + 1
       /\ \A j \in 1..Len(L)+1 :
            timeout_data_list'[j] = IF j < p THEN L[j]
                                    ELSE IF j = p THEN t ELSE L[j-1]
  BY <1>2, <1>4, <1>5
<1> QED BY <1>2, <1>3, <1>6, <1>8, <1>9, <1>10 DEF L, p, Armed

LEMMA ArmInserts ==
  ASSUME NEW t \in Timers, NEW d \in Int, Arm(t, d)
  PROVE  /\ d \in Nat /\ t \notin Armed /\ t # handle /\ t # node
         /\ Insert(t, d, is_runnning)
         /\ InClient /\ ioc_stop_wait
         /\ UNCHANGED <<loopVars, fdVars, callVars, clockVars, skewed>>
  BY DEF Arm, Unused

LEMMA OtherInserts ==
  ASSUME TypeOK, LoopInv, OtherLink
  PROVE  /\ node \in Timers /\ node \notin Armed /\ node # handle
         /\ mark \in BOOLEAN /\ 0 \in Nat
         /\ Insert(node, 0, mark)
         /\ Alive /\ callpc' = "look" /\ node' = NoHandle /\ mark' = FALSE
         /\ UNCHANGED <<loopVars, fdVars, abort_pipe, clockVars, skewed>>
  BY DEF OtherLink, LoopInv, NodeIsApart, TypeOK

LEMMA UnlinkEffect ==
  ASSUME TypeOK, NEW i \in 1..Len(timeout_data_list), Unlink(i)
  PROVE  LET t == timeout_data_list[i] IN
         /\ t \in Armed
         /\ timeout_data_list' \in Seq(Timers)
         /\ IsInjective(timeout_data_list')
         /\ Len(timeout_data_list') = Len(timeout_data_list) - 1
         /\ \A j \in 1..Len(timeout_data_list)-1 :
              timeout_data_list'[j] = IF j < i THEN timeout_data_list[j]
                                      ELSE timeout_data_list[j+1]
         /\ Armed' = Armed \ {t}
         /\ val' \in [Timers -> Nat] /\ due' \in [Timers -> Nat]
         /\ \A u \in Armed' : val'[u] = val[u] /\ due'[u] = due[u]
         /\ take_care_later' = take_care_later \ {t}
         /\ take_care_later' \subseteq Armed'
<1> DEFINE L == timeout_data_list
           t == L[i]
<1>1. L \in Seq(Timers) /\ IsInjective(L)
  BY DEF TypeOK
<1>2. t \in Timers /\ t \in Armed /\ Armed \subseteq Timers
  BY ListFacts
<1>3. /\ timeout_data_list' = RemoveAt(L, i)
      /\ take_care_later' = take_care_later \ {t}
      /\ val' = [val EXCEPT ![t] = 0] /\ due' = [due EXCEPT ![t] = 0]
  BY DEF Unlink
<1>4. /\ RemoveAt(L, i) \in Seq(Timers)
      /\ Len(RemoveAt(L, i)) = Len(L) - 1
      /\ \A j \in 1..Len(L)-1 :
           RemoveAt(L, i)[j] = IF j < i THEN L[j] ELSE L[j+1]
  BY <1>1, RemoveAtProperties
<1>5. IsInjective(RemoveAt(L, i)) /\ ToSet(RemoveAt(L, i)) = ToSet(L) \ {t}
  BY <1>1, RemoveAtElements
<1>6. Armed' = Armed \ {t}
  BY <1>3, <1>5 DEF Armed
<1>7. /\ val' \in [Timers -> Nat] /\ due' \in [Timers -> Nat]
      /\ \A u \in Armed' : val'[u] = val[u] /\ due'[u] = due[u]
  <2> HIDE DEF L, t
  <2> QED BY <1>2, <1>3, <1>6 DEF TypeOK
<1>8. take_care_later' \subseteq Armed'
  BY <1>3, <1>6 DEF TypeOK
<1> HIDE DEF L, t
<1>9. /\ timeout_data_list' \in Seq(Timers)
      /\ IsInjective(timeout_data_list')
      /\ Len(timeout_data_list') = Len(L) - 1
      /\ \A j \in 1..Len(L)-1 :
           timeout_data_list'[j] = IF j < i THEN L[j] ELSE L[j+1]
  BY <1>3, <1>4, <1>5
<1> QED BY <1>2, <1>3, <1>6, <1>7, <1>8, <1>9 DEF L, t, Armed

-----------------------------------------------------------------------------
(* Types.                                                                  *)

LEMMA InitTypeOK == Init => TypeOK
<1> SUFFICES ASSUME Init PROVE TypeOK
  OBVIOUS
<1>1. /\ <<>> \in Seq(Timers) /\ IsInjective(<<>>) /\ ToSet(<<>>) = {}
  BY DEF IsInjective, ToSet
<1>2. 0 \in 0..Res-1
  BY ResAssumption
<1>3. is_runnning = (pc \notin {"idle", "failed", "deleted"})
  BY DEF Init
<1> QED BY <1>1, <1>2, <1>3 DEF Init, TypeOK, Armed

LEMMA NextTypeOK == TypeOK /\ LoopInv /\ [Next]_vars => TypeOK'
<1> SUFFICES ASSUME TypeOK, LoopInv, [Next]_vars PROVE TypeOK'
  OBVIOUS
<1> USE ResAssumption, FdsAssumption, BoundsAssumption
<1>1. CASE Wait
  <2>1. polltimeout' \in Nat \cup {-1}
    BY <1>1, ListFacts DEF Wait, TypeOK
  <2> QED BY <1>1, <2>1
          DEF Wait, TypeOK, timerVars, fdVars, callVars, Armed
<1>2. CASE PollEvents
  BY <1>2 DEF PollEvents, Pending, TypeOK, timerVars, fdVars, callVars,
    clockVars, Armed
<1>3. CASE PollTimeout
  BY <1>3 DEF PollTimeout, TypeOK, timerVars, fdVars, callVars, clockVars, Armed
<1>4. CASE PollEintr
  BY <1>4 DEF PollEintr, TypeOK, timerVars, fdVars, callVars, clockVars, Armed
<1>5. CASE PollError
  <2>1. 0 \in 0..Res-1
    OBVIOUS
  <2>2. is_runnning' = (pc' \notin {"idle", "failed", "deleted"})
    BY <1>5 DEF PollError
  <2> QED BY <1>5, <2>1, <2>2
          DEF PollError, TypeOK, timerVars, fdVars, callVars, Armed
<1>6. CASE FireHead
  <2>1. 1 \in 1..Len(timeout_data_list) /\ timeout_data_list[1] \in Timers
    BY <1>6, ListFacts DEF FireHead, LoopInv
  <2>2. handle' = timeout_data_list[1]
    BY <1>6 DEF FireHead
  <2>3. Unlink(1)
    BY <1>6 DEF FireHead
  <2>4. skewed' \in BOOLEAN
    BY <2>3 DEF Unlink
  <2> QED BY <1>6, <2>1, <2>2, <2>3, <2>4, UnlinkEffect
          DEF FireHead, TypeOK, fdVars, callVars, clockVars
<1>7. CASE TimerReturn
  BY <1>7 DEF TimerReturn, TypeOK, timerVars, fdVars, callVars, clockVars, Armed
<1>8. CASE DispatchAbort
  BY <1>8 DEF DispatchAbort, TypeOK, timerVars, fdVars, callVars, clockVars,
    Armed
<1>9. CASE FdReturn
  BY <1>9 DEF FdReturn, TypeOK, timerVars, callVars, clockVars, Armed
<1>10. CASE Account
  <2>1. val' \in [Timers -> Nat]
    BY <1>10 DEF Account, AfterWait, TypeOK
  <2>2. skewed' \in BOOLEAN
    BY <1>10 DEF Account, AccountSkews, TypeOK
  <2>3. 0 \in 0..Res-1
    OBVIOUS
  <2>4. is_runnning' = (pc' \notin {"idle", "failed", "deleted"})
    BY <1>10 DEF Account, AtAccount, TypeOK
  <2> QED BY <1>10, <2>1, <2>2, <2>3, <2>4
          DEF Account, TypeOK, fdVars, callVars, Armed
<1>11. ASSUME NEW f \in Fds, DispatchFd(f) PROVE TypeOK'
  BY <1>11 DEF DispatchFd, TypeOK, timerVars, callVars, clockVars, Armed
<1>12. ASSUME NEW t \in Timers, NEW d \in Int, Arm(t, d) PROVE TypeOK'
  <2>1. /\ d \in Nat /\ is_runnning \in BOOLEAN /\ t \notin Armed
        /\ Insert(t, d, is_runnning)
        /\ UNCHANGED <<loopVars, fdVars, callVars, clockVars, skewed>>
    BY <1>12, ArmInserts DEF TypeOK
  <2>2. abort_pipe' \in Nat
    <3>1. ioc_stop_wait
      BY <1>12, ArmInserts
    <3>2. abort_pipe \in Nat /\ MaxPipe \in Nat
      BY BoundsAssumption DEF TypeOK
    <3> QED BY ONLY <3>1, <3>2 DEF ioc_stop_wait, WakeUp
  <2>3. /\ timeout_data_list' \in Seq(Timers) /\ IsInjective(timeout_data_list')
        /\ val' \in [Timers -> Nat] /\ due' \in [Timers -> Nat]
        /\ take_care_later' \subseteq Armed'
    BY <2>1, InsertEffect
  <2> QED BY <2>1, <2>2, <2>3
          DEF TypeOK, loopVars, fdVars, callVars, clockVars
<1>13. ASSUME NEW i \in 1..Len(timeout_data_list), Cancel(i) PROVE TypeOK'
  <2>1. Unlink(i) /\ UNCHANGED <<loopVars, fdVars, abort_pipe, callVars,
                                 clockVars>>
    BY <1>13 DEF Cancel
  <2>2. skewed' \in BOOLEAN
    BY <2>1 DEF Unlink
  <2>3. /\ timeout_data_list' \in Seq(Timers) /\ IsInjective(timeout_data_list')
        /\ val' \in [Timers -> Nat] /\ due' \in [Timers -> Nat]
        /\ take_care_later' \subseteq Armed'
    BY <2>1, UnlinkEffect
  <2> QED BY <2>1, <2>2, <2>3
          DEF TypeOK, loopVars, fdVars, callVars, clockVars
<1>14. ASSUME NEW f \in Fds, AddFd(f) PROVE TypeOK'
  BY <1>14
  DEF AddFd, ioc_stop_wait, WakeUp, TypeOK, loopVars, timerVars, callVars,
    clockVars, Armed
<1>15. ASSUME NEW f \in Fds, RemoveFd(f) PROVE TypeOK'
  BY <1>15 DEF RemoveFd, TypeOK, loopVars, timerVars, callVars, clockVars, Armed
<1>16. ASSUME NEW f \in Fds, Arrive(f) PROVE TypeOK'
  BY <1>16 DEF Arrive, TypeOK, loopVars, timerVars, callVars, clockVars, Armed
<1>17. CASE OtherLink
  <2>1. /\ node \in Timers /\ node \notin Armed /\ mark \in BOOLEAN /\ 0 \in Nat
        /\ Insert(node, 0, mark)
    BY <1>17, OtherInserts
  <2>2. /\ timeout_data_list' \in Seq(Timers) /\ IsInjective(timeout_data_list')
        /\ val' \in [Timers -> Nat] /\ due' \in [Timers -> Nat]
        /\ take_care_later' \subseteq Armed'
    BY <2>1, InsertEffect
  <2>3. /\ callpc' = "look" /\ node' = NoHandle /\ mark' = FALSE
        /\ UNCHANGED <<loopVars, fdVars, abort_pipe, clockVars, skewed>>
    BY <1>17, OtherInserts
  <2> QED BY <2>2, <2>3 DEF TypeOK, loopVars, fdVars, clockVars
<1>21. CASE \/ \E t \in Timers : OtherBegin(t)
            \/ OtherStop \/ OtherLook \/ OtherWrite
  <2>1. abort_pipe' \in Nat
    BY <1>21 DEF OtherBegin, OtherStop, OtherLook, OtherWrite, WakeUp, TypeOK
  <2>2. /\ callpc' \in {"none", "link", "look", "write"}
        /\ node' \in Timers \cup {NoHandle} /\ mark' \in BOOLEAN
    BY <1>21 DEF OtherBegin, OtherStop, OtherLook, OtherWrite, TypeOK
  <2>3. UNCHANGED <<loopVars, timerVars, fdVars, clockVars, due, skewed>>
    BY <1>21 DEF OtherBegin, OtherStop, OtherLook, OtherWrite
  <2> QED BY <2>1, <2>2, <2>3 DEF TypeOK, loopVars, timerVars, fdVars,
                                  clockVars, Armed
<1>22. CASE Leave
  <2>1. is_runnning' = (pc' \notin {"idle", "failed", "deleted"})
    BY <1>22 DEF Leave
  <2> QED BY <1>22, <2>1
          DEF Leave, TypeOK, timerVars, fdVars, callVars, clockVars, Armed
<1>18. CASE Delete
  <2>1. /\ <<>> \in Seq(Timers) /\ IsInjective(<<>>) /\ ToSet(<<>>) = {}
    BY DEF IsInjective, ToSet
  <2> QED BY <1>18, <2>1 DEF Delete, TypeOK, clockVars, Armed
<1>19. CASE Tick
  BY <1>19 DEF Tick, TypeOK, loopVars, timerVars, fdVars, callVars, Armed
<1>20. CASE UNCHANGED vars
  BY <1>20 DEF vars, TypeOK, loopVars, timerVars, fdVars, callVars, clockVars,
    Armed
<1> QED
  BY <1>1, <1>2, <1>3, <1>4, <1>5, <1>6, <1>7, <1>8, <1>9, <1>10, <1>11, <1>12,
     <1>13, <1>14, <1>15, <1>16, <1>17, <1>18, <1>19, <1>20, <1>21, <1>22,
     DelaysAssumption
  DEF Next, Loop, Client, Other

-----------------------------------------------------------------------------
(* Where the loop is, and what it polled for.                              *)

\* A timer that is due at once goes to the head of the list.
LEMMA ImmediateGoesFirst ==
  ASSUME TypeOK, NEW t \in Timers, NEW m \in BOOLEAN, t \notin Armed,
         Insert(t, 0, m)
  PROVE  /\ InsertPos(timeout_data_list, val, 0) = 1
         /\ timeout_data_list' # <<>> /\ timeout_data_list'[1] = t
<1>1. timeout_data_list \in Seq(Timers) /\ val \in [Timers -> Int]
  BY DEF TypeOK
<1>2. InsertPos(timeout_data_list, val, 0) = 1
  <2>1. timeout_data_list # <<>> => val[timeout_data_list[1]] >= 0
    BY ListFacts DEF TypeOK
  <2> QED BY <1>1, <2>1, InsertPosCases
<1>3. /\ Len(timeout_data_list') = Len(timeout_data_list) + 1
      /\ timeout_data_list' \in Seq(Timers) /\ timeout_data_list'[1] = t
  BY <1>2, InsertEffect, ListFacts
<1> QED BY <1>2, <1>3, ListFacts, EmptySeq

\* One tick later a deadline that has passed still has.
LEMMA LaterStill ==
  \A ms, ms1, p, p1, s, limit \in Int :
    ms1 + p1 = ms + p + 1 /\ ms + p - s >= limit => ms1 + p1 - s >= limit
  OBVIOUS

LEMMA InitLoopInv == Init => LoopInv
  BY DEF Init, LoopInv, NodeIsApart

LEMMA NextApart == TypeOK /\ LoopInv /\ [Next]_vars => NodeIsApart'
<1> SUFFICES ASSUME TypeOK, LoopInv, [Next]_vars PROVE NodeIsApart'
  OBVIOUS
<1> USE FdsAssumption
<1>a. NodeIsApart
  BY DEF LoopInv
<1>1. ASSUME UNCHANGED <<callVars, timeout_data_list>>,
             handle' \in {handle, NoHandle} \cup Fds
      PROVE  NodeIsApart'
  BY <1>1, <1>a DEF NodeIsApart, callVars, Armed
<1>2. ASSUME NEW t \in Timers, NEW d \in Int, Arm(t, d) PROVE NodeIsApart'
  <2>1. /\ t \notin Armed /\ t # node /\ Insert(t, d, is_runnning)
        /\ d \in Nat /\ is_runnning \in BOOLEAN
        /\ UNCHANGED <<loopVars, callVars>>
    BY <1>2, ArmInserts DEF TypeOK
  <2>2. Armed' = Armed \cup {t}
    BY <2>1, InsertEffect
  <2> QED BY <1>a, <2>1, <2>2 DEF NodeIsApart, callVars, loopVars
<1>3. ASSUME NEW t \in Timers, OtherBegin(t) PROVE NodeIsApart'
  BY <1>3 DEF OtherBegin, Unused, NodeIsApart, loopVars, timerVars, Armed
<1>4. CASE OtherLink
  BY <1>4, OtherInserts DEF NodeIsApart
<1>5. CASE OtherStop \/ OtherLook \/ OtherWrite
  <2>1. /\ callpc # "link" /\ callpc' # "link" /\ node' = node
    BY <1>5 DEF OtherStop, OtherLook, OtherWrite
  <2> QED BY <1>a, <2>1 DEF NodeIsApart
<1>6. ASSUME NEW i \in 1..Len(timeout_data_list), Cancel(i) PROVE NodeIsApart'
  <2>1. Armed' \subseteq Armed /\ UNCHANGED <<handle, callVars>>
    BY <1>6, UnlinkEffect DEF Cancel, loopVars
  <2> QED BY <1>a, <2>1 DEF NodeIsApart, callVars
<1>7. CASE FireHead
  <2>1. 1 \in 1..Len(timeout_data_list) /\ timeout_data_list[1] \in Armed
    BY <1>7, ListFacts DEF FireHead, LoopInv
  <2>2. Unlink(1) /\ handle' = timeout_data_list[1] /\ UNCHANGED callVars
    BY <1>7 DEF FireHead
  <2>3. Armed' = Armed \ {timeout_data_list[1]}
    BY <2>1, <2>2, UnlinkEffect
  <2> QED BY <1>a, <2>1, <2>2, <2>3 DEF NodeIsApart, callVars
<1>8. CASE Delete
  BY <1>8 DEF Delete, NodeIsApart
<1>9. CASE \/ Wait \/ PollEvents \/ PollTimeout \/ PollEintr \/ PollError
           \/ TimerReturn \/ DispatchAbort \/ FdReturn \/ Account \/ Leave
           \/ \E f \in Fds : \/ DispatchFd(f) \/ AddFd(f) \/ RemoveFd(f)
                             \/ Arrive(f)
           \/ Tick \/ UNCHANGED vars
  <2>1. UNCHANGED <<callVars, timeout_data_list>>
    BY <1>9 DEF Wait, PollEvents, PollTimeout, PollEintr, PollError,
      TimerReturn, DispatchAbort, FdReturn, Account, Leave, DispatchFd, AddFd,
      RemoveFd, Arrive, Tick, vars, timerVars
  <2>2. handle' \in {handle, NoHandle} \cup Fds
    BY <1>9 DEF Wait, PollEvents, PollTimeout, PollEintr, PollError,
      TimerReturn, DispatchAbort, FdReturn, Account, Leave, DispatchFd, AddFd,
      RemoveFd, Arrive, Tick, vars, loopVars
  <2> QED BY <1>1, <2>1, <2>2
<1> QED
  BY <1>2, <1>3, <1>4, <1>5, <1>6, <1>7, <1>8, <1>9, DelaysAssumption
  DEF Next, Loop, Client, Other

LEMMA NextLoopInv == TypeOK /\ LoopInv /\ [Next]_vars => LoopInv'
<1> SUFFICES ASSUME TypeOK, LoopInv, [Next]_vars PROVE LoopInv'
  OBVIOUS
<1>a. NodeIsApart'
  BY NextApart
<1> USE <1>a
<1>1. CASE Wait
  <2>1. HeadIsPolled' /\ (polltimeout' >= 0 => timeout_data_list' # <<>>)
    BY <1>1 DEF Wait, HeadIsPolled, LoopInv, timerVars
  <2> QED BY <1>1, <2>1 DEF Wait, LoopInv, timerVars, fdVars
<1>2. CASE PollEvents
  BY <1>2 DEF PollEvents, LoopInv, HeadIsPolled, timerVars, fdVars, clockVars
<1>3. CASE PollTimeout
  BY <1>3 DEF PollTimeout, LoopInv, HeadIsPolled, timerVars, fdVars, clockVars
<1>4. CASE PollEintr
  BY <1>4 DEF PollEintr, LoopInv, HeadIsPolled, timerVars, fdVars, clockVars
<1>5. CASE PollError
  BY <1>5 DEF PollError, LoopInv, HeadIsPolled, timerVars, fdVars
<1>6. CASE FireHead
  <2>1. handle' \in Timers
    BY <1>6, ListFacts DEF FireHead, LoopInv
  <2> QED BY <1>6, <2>1 DEF FireHead, LoopInv, fdVars, clockVars, TypeOK
<1>7. CASE TimerReturn
  BY <1>7 DEF TimerReturn, LoopInv, timerVars, fdVars, clockVars
<1>8. CASE DispatchAbort
  <2>1. AbortFd \notin stale
    BY FdsAssumption DEF TypeOK
  <2> QED BY <1>8, <2>1 DEF DispatchAbort, LoopInv, timerVars, fdVars, clockVars
<1>9. CASE FdReturn
  BY <1>9 DEF FdReturn, LoopInv, timerVars, clockVars
<1>10. CASE Account
  BY <1>10 DEF Account, AtAccount, LoopInv, fdVars
<1>11. ASSUME NEW f \in Fds, DispatchFd(f) PROVE LoopInv'
  BY <1>11 DEF DispatchFd, LoopInv, timerVars, clockVars
<1>12. ASSUME NEW t \in Timers, NEW d \in Int, Arm(t, d) PROVE LoopInv'
  <2>1. /\ t \notin Armed /\ Insert(t, d, is_runnning)
        /\ d \in Nat /\ is_runnning \in BOOLEAN
        /\ UNCHANGED <<loopVars, fdVars, clockVars>>
        /\ pc \in {"idle", "fdcb", "timercb"}
    BY <1>12, ArmInserts DEF InClient, TypeOK
  <2>2. ASSUME pc = "idle" PROVE \A u \in take_care_later' : val'[u] = 0
    <3>1. ~is_runnning /\ \A u \in take_care_later : val[u] = 0
      BY <2>2 DEF LoopInv, TypeOK
    <3>2. /\ ~is_runnning => t \notin take_care_later'
          /\ take_care_later' \subseteq Armed' /\ Armed' = Armed \cup {t}
          /\ \A u \in Timers : u # t => val'[u] = val[u]
          /\ \A u \in Timers :
               u # t => (u \in take_care_later' <=> u \in take_care_later)
      <4>1. /\ t \in Timers /\ t \notin Armed /\ Insert(t, d, is_runnning)
            /\ d \in Nat /\ is_runnning \in BOOLEAN
        BY <2>1
      <4>2. PICK m \in BOOLEAN : m = is_runnning
        BY <4>1
      <4>3. Insert(t, d, m)
        BY <4>1, <4>2
      <4> QED BY <4>1, <4>2, <4>3, InsertMarks
    <3>3. take_care_later' \subseteq Timers
      BY <3>2, ListFacts
    <3> QED BY <3>1, <3>2, <3>3
  <2> QED BY <2>1, <2>2 DEF LoopInv, loopVars, fdVars, clockVars
<1>13. CASE OtherLink
  <2>1. /\ node \in Timers /\ node \notin Armed /\ Insert(node, 0, mark)
        /\ mark \in BOOLEAN /\ 0 \in Nat
        /\ UNCHANGED <<loopVars, fdVars, clockVars>>
    BY <1>13, OtherInserts
  <2>2. timeout_data_list' # <<>> /\ HeadIsPolled'
    BY <2>1, ImmediateGoesFirst, InsertEffect DEF HeadIsPolled
  <2>3. ASSUME \A u \in take_care_later : val[u] = 0
        PROVE  \A u \in take_care_later' : val'[u] = 0
    <3>1. /\ take_care_later' \subseteq Armed' /\ Armed' = Armed \cup {node}
          /\ val'[node] = 0
          /\ \A u \in Timers : u # node => val'[u] = val[u]
          /\ \A u \in Timers :
               u # node => (u \in take_care_later' <=> u \in take_care_later)
      <4>1. /\ node \in Timers /\ node \notin Armed /\ Insert(node, 0, mark)
            /\ mark \in BOOLEAN /\ 0 \in Nat
        BY <2>1
      <4> QED BY <4>1, InsertMarks
    <3>2. take_care_later' \subseteq Timers
      BY <2>1, <3>1, ListFacts
    <3> QED BY <2>3, <3>1, <3>2
  <2> QED BY <2>1, <2>2, <2>3 DEF LoopInv, loopVars, fdVars, clockVars
<1>22. CASE \/ \E t \in Timers : OtherBegin(t)
            \/ OtherStop \/ OtherLook \/ OtherWrite
  <2>1. UNCHANGED <<loopVars, timerVars, fdVars, clockVars>>
    BY <1>22 DEF OtherBegin, OtherStop, OtherLook, OtherWrite
  <2> QED BY <2>1 DEF LoopInv, HeadIsPolled, loopVars, timerVars, fdVars,
                      clockVars
<1>23. CASE Leave
  BY <1>23 DEF Leave, LoopInv, timerVars, fdVars, clockVars
<1>14. ASSUME NEW i \in 1..Len(timeout_data_list), Cancel(i) PROVE LoopInv'
  <2>1. Unlink(i) /\ UNCHANGED <<loopVars, fdVars, clockVars>>
    BY <1>14 DEF Cancel
  <2>2. pc \in {"idle", "fdcb", "timercb"}
    BY <1>14 DEF Cancel, InClient
  <2>3. ASSUME \A u \in take_care_later : val[u] = 0
        PROVE  \A u \in take_care_later' : val'[u] = 0
    BY <2>1, <2>3, UnlinkEffect
  <2> QED BY <2>1, <2>2, <2>3 DEF LoopInv, loopVars, fdVars, clockVars
<1>15. ASSUME NEW f \in Fds, AddFd(f) PROVE LoopInv'
  BY <1>15 DEF AddFd, InClient, LoopInv, loopVars, timerVars, clockVars
<1>16. ASSUME NEW f \in Fds, RemoveFd(f) PROVE LoopInv'
  BY <1>16 DEF RemoveFd, InClient, LoopInv, loopVars, timerVars, clockVars
<1>17. ASSUME NEW f \in Fds, Arrive(f) PROVE LoopInv'
  BY <1>17 DEF Arrive, LoopInv, HeadIsPolled, loopVars, timerVars, clockVars
<1>19. CASE Delete
  BY <1>19 DEF Delete, LoopInv, clockVars, TypeOK
<1>20. CASE Tick
  <2>1. pc' = "expired" =>
          /\ timeout_data_list' # <<>>
          /\ elapsed' * Res + phase' - start' >= polltimeout' * Res
    <3> SUFFICES ASSUME pc = "expired"
                 PROVE  elapsed' * Res + phase' - start >= polltimeout * Res
      BY <1>20 DEF Tick, LoopInv, loopVars, timerVars
    <3>1. /\ elapsed \in Int /\ phase \in Int /\ start \in Int
          /\ polltimeout \in Int /\ Res \in Int
      BY ResAssumption DEF TypeOK
    <3>2. elapsed' \in Int /\ phase' \in Int
      BY <3>1, <1>20 DEF Tick, TypeOK
    <3>3. elapsed' * Res + phase' = elapsed * Res + phase + 1
      <4>1. CASE phase = Res - 1
        <5>1. Measuring
          BY DEF Measuring
        <5>2. elapsed' = elapsed + 1 /\ phase' = 0
          BY <1>20, <4>1, <5>1 DEF Tick
        <5> QED BY <3>1, <4>1, <5>2
      <4>2. CASE phase # Res - 1
        BY <1>20, <3>1, <4>2 DEF Tick
      <4> QED BY <4>1, <4>2
    <3>4. elapsed * Res + phase - start >= polltimeout * Res
      BY DEF LoopInv
    <3>5. /\ elapsed * Res \in Int /\ polltimeout * Res \in Int
          /\ elapsed' * Res \in Int
      BY <3>1, <3>2
    <3>6. PICK ms \in Int : ms = elapsed * Res
      BY <3>5
    <3>7. PICK ms1 \in Int : ms1 = elapsed' * Res
      BY <3>5
    <3>8. PICK limit \in Int : limit = polltimeout * Res
      BY <3>5
    <3>9. ms1 + phase' = ms + phase + 1 /\ ms + phase - start >= limit
      BY <3>3, <3>4, <3>6, <3>7, <3>8
    <3>10. ms1 + phase' - start >= limit
      BY <3>1, <3>2, <3>6, <3>7, <3>8, <3>9, LaterStill
    <3> QED BY <3>7, <3>8, <3>10
  <2>2. ~is_runnning' \/ pc' = "leave" => elapsed' = 0
    <3>1. ~is_runnning \/ pc = "leave" => ~Measuring
      BY DEF Measuring, TypeOK
    <3> QED BY <1>20, <3>1 DEF Tick, LoopInv, loopVars
  <2>3. HeadIsPolled => HeadIsPolled'
    BY <1>20 DEF Tick, HeadIsPolled, loopVars, timerVars
  <2> QED BY <1>20, <2>1, <2>2, <2>3
          DEF Tick, LoopInv, loopVars, timerVars, fdVars
<1>21. CASE UNCHANGED vars
  BY <1>21 DEF vars, LoopInv, HeadIsPolled, loopVars, timerVars, fdVars,
               clockVars
<1> QED
  BY <1>1, <1>2, <1>3, <1>4, <1>5, <1>6, <1>7, <1>8, <1>9, <1>10, <1>11, <1>12,
     <1>13, <1>14, <1>15, <1>16, <1>17, <1>19, <1>20, <1>21, <1>22, <1>23,
     DelaysAssumption
  DEF Next, Loop, Client, Other

\* Types are respected, and where the loop is determines the rest.
THEOREM TypeCorrect == Spec => [](TypeOK /\ LoopInv)
<1>1. Init => TypeOK /\ LoopInv
  BY InitTypeOK, InitLoopInv
<1>2. TypeOK /\ LoopInv /\ [Next]_vars => (TypeOK /\ LoopInv)'
  BY NextTypeOK, NextLoopInv
<1> QED BY <1>1, <1>2, PTL DEF Spec

\* Where the loop is determines the rest: among it, that a wait that timed
\* out has a timer to fire, whatever was armed or removed meanwhile, and that
\* a mark which outlives its wait is on a timer due at once, whenever the
\* other thread read the flag and linked it (io_context.c:138-198, 275-311).
THEOREM LoopConsistent == Spec => []LoopInv
BY TypeCorrect, PTL

\* A timer armed right after another one with a shorter delay is placed
\* ahead of it, in every list the loop can reach (ioc_timeout).
THEOREM ShorterGoesAhead == Spec => []GuardGoesFirst
<1>1. TypeOK => GuardGoesFirst
  <2> SUFFICES ASSUME TypeOK, NEW t \in Timers \ Armed,
                      NEW d1 \in Delays, NEW d2 \in Delays, d2 < d1
               PROVE  LET p == InsertPos(timeout_data_list, val, d1)
                      IN InsertPos(InsertAt(timeout_data_list, p, t),
                                   [val EXCEPT ![t] = d1], d2) <= p
    BY DEF GuardGoesFirst
  <2>1. /\ timeout_data_list \in Seq(Timers) /\ val \in [Timers -> Int]
        /\ t \in Timers /\ t \notin ToSet(timeout_data_list)
        /\ d1 \in Int /\ d2 \in Int
    BY DelaysAssumption DEF TypeOK, Armed
  <2> QED BY <2>1, ShorterGoesFirst
<1> QED BY <1>1, TypeCorrect, PTL

-----------------------------------------------------------------------------
(* No timer runs early.                                                    *)

\* The bound of TimelyTimer on a timer that is counted by this wait.
Left(v, e, p) == (v - e) * Res + Res - 1 - p

LEMMA LeftProperties ==
  ASSUME NEW v \in Int, NEW e \in Nat, NEW p \in 0..Res-1
  PROVE  /\ Left(v, e, p) \in Int
         /\ v * Res <= Left(v, 0, p)
         /\ Left(v, e, p) <= Left(v, 0, p)
         /\ Left(v, e, p) = Left(v - e, 0, p)
         /\ v <= e => Left(v, e, p) <= Left(0, 0, p)
         /\ p + 1 <= Res - 1 => Left(v, e, p+1) = Left(v, e, p) - 1
         /\ Left(v, e+1, 0) = Left(v, e, Res-1) - 1
         /\ Left(v, e, p) - 1 <= Left(v, e, 0)
         /\ Left(v, 0, p) - v * Res < Res
<1>1. Res \in Nat \ {0}
  BY ResAssumption
<1>2. (v - e) * Res \in Int /\ v * Res \in Int /\ Left(v, e, p) \in Int
  BY <1>1 DEF Left
<1>3. (v - e) * Res <= v * Res
  BY <1>1
<1>4. v <= e => (v - e) * Res <= 0 * Res
  BY <1>1
<1>5. (v - (e + 1)) * Res = (v - e) * Res - Res
  BY <1>1
<1>6. v - 0 = v /\ 0 - 0 = 0 /\ (v - e) - 0 = v - e
  OBVIOUS
<1>7. 0 * Res = 0
  BY <1>1
<1> QED BY <1>1, <1>2, <1>3, <1>4, <1>5, <1>6, <1>7 DEF Left

LEMMA TimelyTimerLeft ==
  ASSUME NEW t \in Timers
  PROVE  TimelyTimer(t) <=>
           \/ due[t] = 0
           \/ t \in take_care_later /\ due[t] <= val[t] * Res
           \/ t \notin take_care_later /\ due[t] <= Left(val[t], elapsed, phase)
  BY DEF TimelyTimer, Left

LEMMA NextTimely == TypeOK /\ LoopInv /\ Timely /\ [Next]_vars => Timely'
<1> SUFFICES ASSUME TypeOK, LoopInv, Timely, [Next]_vars PROVE Timely'
  OBVIOUS
<1>t. /\ Armed \subseteq Timers /\ \A t \in Armed : TimelyTimer(t)
      /\ elapsed \in Nat /\ phase \in 0..Res-1 /\ Res \in Nat \ {0}
      /\ \A t \in Timers : val[t] \in Nat /\ due[t] \in Nat
  BY ListFacts, ResAssumption DEF Timely, TypeOK
<1>u. TypeOK'
  BY NextTypeOK
<1>1. ASSUME UNCHANGED <<timerVars, due, elapsed, phase>> PROVE Timely'
  BY <1>1, <1>t DEF Timely, TimelyTimer, timerVars, Armed
<1>2. CASE Wait
  <2>1. UNCHANGED <<timerVars, due, elapsed, phase>>
    BY <1>2 DEF Wait, LoopInv, TypeOK
  <2> QED BY <1>1, <2>1
<1>3. ASSUME NEW i \in 1..Len(timeout_data_list), Unlink(i),
             UNCHANGED <<elapsed, phase>>
      PROVE  Timely'
  <2> SUFFICES ASSUME NEW t \in Armed' PROVE TimelyTimer(t)'
    BY DEF Timely
  <2>1. /\ t \in Armed /\ val'[t] = val[t] /\ due'[t] = due[t]
        /\ t \in take_care_later' <=> t \in take_care_later
    BY <1>3, UnlinkEffect
  <2> QED BY <1>3, <1>t, <2>1 DEF TimelyTimer
<1>4. ASSUME NEW t \in Timers, NEW d \in Nat, NEW m \in BOOLEAN,
             t \notin Armed, Insert(t, d, m), d = 0 \/ m = is_runnning,
             UNCHANGED <<elapsed, phase>>
      PROVE  Timely'
  <2> SUFFICES ASSUME NEW u \in Armed' PROVE TimelyTimer(u)'
    BY DEF Timely
  <2>1. UNCHANGED <<elapsed, phase>>
    BY <1>4
  <2>e. /\ Armed' = Armed \cup {t} /\ val'[t] = d /\ due'[t] = d * Res
        /\ \A v \in Timers : v # t => val'[v] = val[v] /\ due'[v] = due[v]
        /\ m => t \in take_care_later'
        /\ ~m => t \notin take_care_later'
        /\ \A v \in Timers :
             v # t => (v \in take_care_later' <=> v \in take_care_later)
    <3>1. t \in Timers /\ d \in Nat /\ m \in BOOLEAN /\ t \notin Armed
          /\ Insert(t, d, m)
      BY <1>4
    <3> QED BY <3>1, InsertEffect
  <2>2. CASE u = t
    <3>1. due'[t] = d * Res /\ val'[t] = d
      BY <2>e
    <3>4. CASE d = 0
      <4>1. due'[t] = 0
        BY <1>t, <3>1, <3>4
      <4> QED BY <2>2, <4>1 DEF TimelyTimer
    <3>2. CASE m /\ d # 0
      <4>1. t \in take_care_later'
        BY <2>e, <3>2
      <4>2. d * Res <= d * Res
        BY <1>t
      <4> QED BY <2>2, <3>1, <4>1, <4>2 DEF TimelyTimer
    <3>3. CASE ~m /\ d # 0
      <4>1. elapsed' = 0 /\ phase' = phase
        BY <1>4, <2>1, <3>3 DEF LoopInv
      <4>2. d * Res <= Left(d, 0, phase)
        BY <1>t, LeftProperties
      <4>3. t \notin take_care_later'
        BY <2>e, <3>3
      <4> QED BY <2>2, <3>1, <4>1, <4>2, <4>3 DEF TimelyTimer, Left
    <3> QED BY <3>2, <3>3, <3>4
  <2>3. CASE u # t
    <3>1. /\ u \in Armed /\ val'[u] = val[u] /\ due'[u] = due[u]
          /\ u \in take_care_later' <=> u \in take_care_later
      <4>1. u \in Armed
        BY <2>3, <2>e
      <4>2. u \in Timers
        BY <4>1, ListFacts
      <4> QED BY <2>3, <2>e, <4>1, <4>2
    <3> QED BY <1>t, <2>1, <3>1 DEF TimelyTimer
  <2> QED BY <2>2, <2>3
<1>5. CASE PollError
  <2> SUFFICES ASSUME NEW t \in Armed' PROVE TimelyTimer(t)'
    BY DEF Timely
  <2>1. /\ t \in Armed /\ elapsed' = 0 /\ phase' = phase
        /\ val' = val /\ due' = due /\ take_care_later' = take_care_later
    BY <1>5 DEF PollError, timerVars, Armed
  <2>2. TimelyTimer(t) /\ t \in Timers /\ val[t] \in Int /\ due[t] \in Int
    BY <1>t, <2>1
  <2>3. /\ Left(val[t], elapsed, phase) <= Left(val[t], 0, phase)
        /\ Left(val[t], elapsed, phase) \in Int /\ Left(val[t], 0, phase) \in Int
    BY <1>t, <2>2, LeftProperties
  <2>4. \/ due[t] = 0
        \/ t \in take_care_later /\ due[t] <= val[t] * Res
        \/ t \notin take_care_later /\ due[t] <= Left(val[t], 0, phase)
    BY <2>2, <2>3, TimelyTimerLeft
  <2> QED BY <2>1, <2>4 DEF TimelyTimer, Left
<1>6. CASE Account
  <2> SUFFICES ASSUME NEW t \in Armed' PROVE TimelyTimer(t)'
    BY DEF Timely
  <2>1. /\ t \in Armed /\ elapsed' = 0 /\ phase' = phase /\ due' = due
        /\ take_care_later' = {}
    BY <1>6 DEF Account, Armed
  <2>2. TimelyTimer(t) /\ t \in Timers /\ val[t] \in Nat /\ due[t] \in Nat
    BY <1>t, <2>1
  <2>i. t \in Timers /\ val[t] \in Int /\ due[t] \in Int
    BY <2>2
  <2>3. val'[t] = IF t \in take_care_later THEN val[t]
                  ELSE IF val[t] > elapsed THEN val[t] - elapsed ELSE 0
    BY <1>6, <2>2 DEF Account, AfterWait
  <2> SUFFICES due[t] = 0 \/ due[t] <= Left(val'[t], 0, phase)
    BY <2>1 DEF TimelyTimer, Left
  <2>4. CASE due[t] = 0
    BY <2>4
  <2>5. CASE t \in take_care_later /\ due[t] <= val[t] * Res
    <3>1. val[t] * Res <= Left(val[t], 0, phase)
      BY <1>t, <2>i, LeftProperties
    <3>2. Left(val[t], 0, phase) \in Int
      BY <1>t, <2>i, LeftProperties
    <3>3. val[t] * Res \in Int
      BY <1>t, <2>i
    <3> QED BY <2>i, <2>3, <2>5, <3>1, <3>2, <3>3
  <2>6. CASE t \notin take_care_later /\ due[t] <= Left(val[t], elapsed, phase)
    <3>1. CASE val[t] > elapsed
      <4>1. Left(val[t], elapsed, phase) = Left(val[t] - elapsed, 0, phase)
        BY <1>t, <2>i, LeftProperties
      <4> QED BY <2>3, <2>6, <3>1, <4>1
    <3>2. CASE ~(val[t] > elapsed)
      <4>1. val[t] <= elapsed
        BY <1>t, <2>2, <3>2
      <4>2. Left(val[t], elapsed, phase) <= Left(0, 0, phase)
        BY <1>t, <2>i, <4>1, LeftProperties
      <4>3. Left(val[t], elapsed, phase) \in Int
        BY <1>t, <2>i, LeftProperties
      <4>4. Left(0, 0, phase) \in Int
        BY <1>t DEF Left
      <4> QED BY <2>i, <2>3, <2>6, <3>2, <4>2, <4>3, <4>4
    <3> QED BY <3>1, <3>2
  <2> QED BY <2>2, <2>4, <2>5, <2>6, TimelyTimerLeft
<1>7. CASE Delete
  BY <1>7 DEF Delete, Timely, Armed, ToSet
<1>8. CASE Tick
  <2> SUFFICES ASSUME NEW t \in Armed' PROVE TimelyTimer(t)'
    BY DEF Timely
  <2>1. t \in Armed /\ val' = val /\ take_care_later' = take_care_later
    BY <1>8 DEF Tick, timerVars, Armed
  <2>2. TimelyTimer(t) /\ t \in Timers /\ val[t] \in Nat /\ due[t] \in Nat
    BY <1>t, <2>1
  <2>i. t \in Timers /\ val[t] \in Int /\ due[t] \in Int
    BY <2>2
  <2>3. due'[t] = IF due[t] > 0 THEN due[t] - 1 ELSE 0
    BY <1>8, <2>2 DEF Tick
  <2>4. CASE due[t] = 0
    BY <2>3, <2>4 DEF TimelyTimer
  <2>5. CASE due[t] > 0 /\ t \in take_care_later /\ due[t] <= val[t] * Res
    <3>1. val[t] * Res \in Int
      BY <1>t, <2>2
    <3>2. due'[t] <= val[t] * Res
      BY <2>2, <2>3, <2>5, <3>1
    <3> QED BY <2>1, <2>5, <3>2 DEF TimelyTimer
  <2>6. CASE /\ due[t] > 0 /\ t \notin take_care_later
             /\ due[t] <= Left(val[t], elapsed, phase)
    <3>0. Left(val[t], elapsed, phase) \in Int
      BY <1>t, <2>i, LeftProperties
    <3>1. due'[t] = due[t] - 1 /\ Left(val[t], elapsed, phase) \in Int
      BY <2>3, <2>6, <3>0
    <3>2. CASE phase = Res - 1 /\ elapsed' = elapsed + 1
      <4>1. Left(val[t], elapsed + 1, 0) = Left(val[t], elapsed, phase) - 1
        BY <1>t, <2>i, <3>2, LeftProperties
      <4>2. due'[t] <= Left(val[t], elapsed + 1, 0) /\ phase' = 0
        BY <1>8, <2>2, <2>6, <3>1, <3>2, <4>1 DEF Tick
      <4> QED BY <2>1, <2>6, <3>2, <4>2 DEF TimelyTimer, Left
    <3>3. CASE phase = Res - 1 /\ elapsed' = elapsed
      <4>1. /\ Left(val[t], elapsed, phase) - 1 <= Left(val[t], elapsed, 0)
            /\ Left(val[t], elapsed, 0) \in Int
        <5>1. 0 \in 0..Res-1
          BY <1>t
        <5> QED BY <1>t, <2>i, <5>1, LeftProperties
      <4>2. due'[t] <= Left(val[t], elapsed, 0) /\ phase' = 0
        BY <1>8, <2>2, <2>6, <3>1, <3>3, <4>1 DEF Tick
      <4> QED BY <2>1, <2>6, <3>3, <4>2 DEF TimelyTimer, Left
    <3>4. CASE phase # Res - 1
      <4>1. /\ phase + 1 <= Res - 1 /\ phase' = phase + 1 /\ elapsed' = elapsed
        BY <1>8, <1>t, <3>4 DEF Tick
      <4>2. Left(val[t], elapsed, phase + 1) = Left(val[t], elapsed, phase) - 1
        BY <1>t, <2>i, <4>1, LeftProperties
      <4>3. due'[t] <= Left(val[t], elapsed, phase + 1)
        BY <2>2, <2>6, <3>1, <4>2
      <4> QED BY <2>1, <2>6, <4>1, <4>3 DEF TimelyTimer, Left
    <3> QED BY <1>8, <3>2, <3>3, <3>4 DEF Tick
  <2> QED BY <2>2, <2>4, <2>5, <2>6, TimelyTimerLeft
<1>9. CASE FireHead
  <2>1. Unlink(1) /\ UNCHANGED <<elapsed, phase>>
    BY <1>9 DEF FireHead, clockVars
  <2>2. 1 \in 1..Len(timeout_data_list)
    BY <1>9, ListFacts DEF FireHead, LoopInv
  <2> QED BY <1>3, <2>1, <2>2
<1>10. ASSUME NEW i \in 1..Len(timeout_data_list), Cancel(i) PROVE Timely'
  BY <1>3, <1>10 DEF Cancel, clockVars
<1>11. CASE \/ PollEvents \/ PollTimeout \/ PollEintr \/ TimerReturn
            \/ DispatchAbort \/ FdReturn \/ Leave
            \/ \E f \in Fds : \/ DispatchFd(f) \/ AddFd(f) \/ RemoveFd(f)
                              \/ Arrive(f)
            \/ \E t \in Timers : OtherBegin(t)
            \/ OtherStop \/ OtherLook \/ OtherWrite
            \/ UNCHANGED vars
  <2>1. UNCHANGED <<timerVars, due, elapsed, phase>>
    BY <1>11 DEF PollEvents, PollTimeout, PollEintr, TimerReturn, DispatchAbort,
      FdReturn, Leave, DispatchFd, AddFd, RemoveFd, Arrive, OtherBegin,
      OtherStop, OtherLook, OtherWrite, vars, clockVars
  <2> QED BY <1>1, <2>1
<1>12. ASSUME NEW t \in Timers, NEW d \in Int, Arm(t, d) PROVE Timely'
  <2>1. is_runnning \in BOOLEAN
    BY DEF TypeOK
  <2> QED BY <1>4, <1>12, <2>1, ArmInserts DEF clockVars
<1>13. CASE OtherLink
  BY <1>4, <1>13, OtherInserts DEF clockVars
<1> QED
  BY <1>2, <1>5, <1>6, <1>7, <1>8, <1>9, <1>10, <1>11, <1>12, <1>13,
     DelaysAssumption
  DEF Next, Loop, Client, Other

\* What the list says of a timer never falls behind what is left of its
\* delay: ioc_wait_once() takes off a timer no time it did not live through.
THEOREM NeverBehind == Spec => []Timely
<1>1. Init => Timely
  BY DEF Init, Timely, Armed, ToSet
<1> QED BY <1>1, NextTimely, TypeCorrect, PTL DEF Spec

-----------------------------------------------------------------------------
(* The context implements the timer service.                               *)

\* When epoll_wait() has timed out, the head has less than a millisecond to
\* go: either its val has gone by since the wait began, or it was due at
\* once and put there meanwhile.
LEMMA HeadIsDue ==
  ASSUME TypeOK, LoopInv, Timely, pc = "expired"
  PROVE  due[timeout_data_list[1]] < Res
<1> DEFINE h == timeout_data_list[1]
<1>1. /\ h \in Timers /\ TimelyTimer(h)
      /\ val[h] \in Int /\ due[h] \in Int /\ elapsed \in Nat
      /\ phase \in 0..Res-1 /\ start \in 0..Res-1 /\ polltimeout \in Int
      /\ Res \in Nat \ {0}
  BY ListFacts, ResAssumption DEF LoopInv, Timely, TypeOK
<1>2. /\ elapsed * Res + phase - start >= polltimeout * Res
      /\ val[h] = 0 \/ (h \notin take_care_later /\ val[h] = polltimeout)
  BY DEF LoopInv, HeadIsPolled
<1> SUFFICES due[h] < Res
  OBVIOUS
<1> HIDE DEF h
<1>3. CASE due[h] = 0
  BY <1>1, <1>3
<1>4. CASE h \in take_care_later /\ due[h] <= val[h] * Res
  <2>1. val[h] * Res = 0
    BY <1>1, <1>2, <1>4
  <2> QED BY <1>1, <1>4, <2>1
<1>5. CASE h \notin take_care_later /\ due[h] <= Left(val[h], elapsed, phase)
  <2>1. CASE val[h] = 0
    <3>1. Left(0, elapsed, phase) <= Left(0, 0, phase)
      BY <1>1, LeftProperties
    <3>2. Left(0, elapsed, phase) \in Int
      BY <1>1, LeftProperties
    <3>3. Left(0, 0, phase) \in Int /\ Left(0, 0, phase) < Res
      BY <1>1 DEF Left
    <3> QED BY <1>1, <1>5, <2>1, <3>1, <3>2, <3>3
  <2>2. CASE val[h] = polltimeout
    <3>1. Left(polltimeout, elapsed, phase) =
            polltimeout * Res - elapsed * Res + Res - 1 - phase
      BY <1>1 DEF Left
    <3>2. polltimeout * Res \in Int /\ elapsed * Res \in Int
      BY <1>1
    <3>3. Left(polltimeout, elapsed, phase) <= Res - 1 - start
      BY <1>1, <1>2, <3>1, <3>2
    <3>4. Left(polltimeout, elapsed, phase) \in Int
      BY <1>1, LeftProperties
    <3> QED BY <1>1, <1>5, <2>2, <3>3, <3>4
  <2> QED BY <1>2, <1>5, <2>1, <2>2
<1>6. \/ due[h] = 0
      \/ h \in take_care_later /\ due[h] <= val[h] * Res
      \/ h \notin take_care_later /\ due[h] <= Left(val[h], elapsed, phase)
  BY <1>1, TimelyTimerLeft
<1> QED BY <1>3, <1>4, <1>5, <1>6

LEMMA StepImplements ==
  TypeOK /\ LoopInv /\ Timely /\ [Next]_vars => [TS!Next]_<<remaining, running>>
<1> SUFFICES ASSUME TypeOK, LoopInv, Timely, [Next]_vars
             PROVE  [TS!Next]_<<remaining, running>>
  OBVIOUS
<1>d. /\ DOMAIN remaining = Armed /\ Armed \subseteq Timers
      /\ \A t \in Armed : remaining[t] = due[t]
      /\ NoHandle \notin Timers
  BY ListFacts, FdsAssumption DEF remaining
<1>1. ASSUME UNCHANGED <<timeout_data_list, due>> PROVE UNCHANGED remaining
  BY <1>1 DEF remaining, Armed
<1>r. ASSUME UNCHANGED <<pc, handle>> PROVE UNCHANGED running
  BY <1>r DEF running
<1>2. ASSUME NEW i \in 1..Len(timeout_data_list), Unlink(i)
      PROVE  TS!Disarm(timeout_data_list[i])
  <2>1. /\ Armed' = Armed \ {timeout_data_list[i]}
        /\ \A u \in Armed' : due'[u] = due[u]
    BY <1>2, UnlinkEffect
  <2> QED BY <1>d, <2>1 DEF TS!Disarm, TS!Armed, remaining
<1>3. ASSUME NEW t \in Timers, NEW d \in Nat, NEW m \in BOOLEAN,
             d \in Delays, t \notin Armed, t # handle, Insert(t, d, m),
             UNCHANGED <<pc, handle>>
      PROVE  TS!Next
  <2>1. /\ Armed' = Armed \cup {t} /\ due'[t] = d * Res
        /\ \A u \in Timers : u # t => due'[u] = due[u]
    BY <1>3, InsertEffect
  <2>2. t # running /\ UNCHANGED running
    BY <1>3, <1>d, <1>r DEF running
  <2>3. TS!Arm(t, d)
    BY <1>3, <1>d, <2>1, <2>2 DEF TS!Arm, TS!Armed, remaining
  <2> QED BY <1>3, <2>3 DEF TS!Next
<1>4. CASE FireHead
  <2>1. 1 \in 1..Len(timeout_data_list) /\ timeout_data_list[1] \in Armed
    BY <1>4, ListFacts DEF FireHead, LoopInv
  <2>2. TS!Disarm(timeout_data_list[1])
    BY <1>2, <1>4, <2>1 DEF FireHead
  <2>3. due[timeout_data_list[1]] < Res
    BY <1>4, HeadIsDue DEF FireHead
  <2>4. running = NoHandle /\ running' = timeout_data_list[1]
    BY <1>4 DEF FireHead, running
  <2>5. TS!Fire(timeout_data_list[1])
    BY <1>d, <2>1, <2>2, <2>3, <2>4 DEF TS!Fire, TS!Armed
  <2> QED BY <1>d, <2>1, <2>5 DEF TS!Next
<1>5. ASSUME NEW i \in 1..Len(timeout_data_list), Cancel(i) PROVE TS!Next
  <2>1. timeout_data_list[i] \in Armed
    BY ListFacts
  <2>2. UNCHANGED running
    BY <1>5, <1>r DEF Cancel, loopVars
  <2>3. TS!Cancel(timeout_data_list[i])
    BY <1>2, <1>5, <1>d, <2>1, <2>2 DEF Cancel, TS!Cancel, TS!Armed
  <2> QED BY <1>d, <2>1, <2>3 DEF TS!Next
<1>6. CASE Tick
  <2>1. Armed' = Armed /\ UNCHANGED running
    BY <1>6, <1>r DEF Tick, timerVars, loopVars, Armed
  <2>2. \A t \in Armed : due'[t] = IF due[t] > 0 THEN due[t] - 1 ELSE 0
    BY <1>6, <1>d DEF Tick
  <2>3. TS!Tick
    BY <1>d, <2>1, <2>2 DEF TS!Tick, TS!Armed, remaining
  <2> QED BY <2>3 DEF TS!Next
<1>7. CASE Delete
  <2>1. Armed' = {} /\ running = NoHandle /\ running' = NoHandle
    BY <1>7 DEF Delete, Armed, ToSet, running
  <2>2. TS!Close
    BY <2>1 DEF TS!Close, remaining
  <2> QED BY <2>2 DEF TS!Next
<1>8. CASE TimerReturn
  <2>1. UNCHANGED remaining
    BY <1>1, <1>8 DEF TimerReturn, timerVars
  <2>2. running # NoHandle /\ running' = NoHandle
    BY <1>8, <1>d DEF TimerReturn, LoopInv, running
  <2>3. TS!Return
    BY <2>1, <2>2 DEF TS!Return
  <2> QED BY <2>3 DEF TS!Next
<1>9. CASE \/ Wait \/ PollEvents \/ PollTimeout \/ PollEintr \/ PollError
           \/ DispatchAbort \/ FdReturn \/ Account \/ Leave
           \/ \E f \in Fds : DispatchFd(f)
  <2>1. UNCHANGED <<timeout_data_list, due>>
    BY <1>9 DEF Wait, PollEvents, PollTimeout, PollEintr, PollError,
      DispatchAbort, FdReturn, Account, Leave, DispatchFd, timerVars
  <2>2. pc # "timercb" /\ pc' # "timercb"
    BY <1>9 DEF Wait, PollEvents, PollTimeout, PollEintr, PollError,
      DispatchAbort, FdReturn, Account, AtAccount, Leave, DispatchFd
  <2> QED BY <1>1, <2>1, <2>2 DEF running
<1>10. CASE \/ \E f \in Fds : AddFd(f) \/ RemoveFd(f) \/ Arrive(f)
            \/ \E t \in Timers : OtherBegin(t)
            \/ OtherStop \/ OtherLook \/ OtherWrite
            \/ UNCHANGED vars
  <2>1. UNCHANGED <<timeout_data_list, due, pc, handle>>
    BY <1>10 DEF AddFd, RemoveFd, Arrive, OtherBegin, OtherStop, OtherLook,
      OtherWrite, vars, timerVars, loopVars
  <2> QED BY <1>1, <1>r, <2>1
<1>11. ASSUME NEW t \in Timers, NEW d \in Delays, Arm(t, d) PROVE TS!Next
  <2>1. d \in Int /\ is_runnning \in BOOLEAN
    BY DelaysAssumption DEF TypeOK
  <2> QED BY <1>3, <1>11, <2>1, ArmInserts DEF loopVars
<1>12. CASE OtherLink
  <2>1. 0 \in Delays
    BY DelaysAssumption
  <2> QED BY <1>3, <1>12, <2>1, OtherInserts DEF loopVars
<1> QED
  BY <1>4, <1>5, <1>6, <1>7, <1>8, <1>9, <1>10, <1>11, <1>12
  DEF Next, Loop, Client, Other

\* The event loop, with its list whatever its order, its wake-up pipe and
\* its inexact measure of time, implements the timer service: a handler
\* runs at most once, not after it was removed, not while another one runs,
\* and less than a millisecond early at worst.
THEOREM Implementation == Spec => ImplementsTimerService
<1>1. Init => TS!Init
  BY DEF Init, TS!Init, remaining, running, Armed, ToSet
<1>2. TypeOK /\ LoopInv /\ Timely /\ [Next]_vars
        => [TS!Next]_<<remaining, running>>
  BY StepImplements
<1> QED BY <1>1, <1>2, TypeCorrect, NeverBehind, PTL
        DEF Spec, ImplementsTimerService, TS!Spec

-----------------------------------------------------------------------------
(* The order of the list, and what the loop sleeps on.                     *)

LEMMA NextSorted ==
  TypeOK /\ LoopInv /\ SortedUnlessSkewed /\ [Next]_vars => SortedUnlessSkewed'
<1> DEFINE L == timeout_data_list
<1> SUFFICES ASSUME TypeOK, LoopInv, SortedUnlessSkewed, [Next]_vars
             PROVE  SortedUnlessSkewed'
  OBVIOUS
<1>t. /\ L \in Seq(Timers) /\ Len(L) \in Nat /\ DOMAIN L = 1..Len(L)
      /\ val \in [Timers -> Int] /\ skewed \in BOOLEAN
      /\ \A i \in 1..Len(L) : /\ L[i] \in Timers /\ L[i] \in Armed
                             /\ val[L[i]] \in Int
  BY ListFacts DEF TypeOK
<1>1. CASE UNCHANGED <<timeout_data_list, val, skewed>>
  BY <1>1 DEF SortedUnlessSkewed
<1>2. ASSUME NEW t \in Timers, NEW d \in Nat, NEW m \in BOOLEAN,
             t \notin Armed, Insert(t, d, m), UNCHANGED skewed
      PROVE  SortedUnlessSkewed'
  <2> DEFINE p == InsertPos(L, val, d)
  <2>1. d \in Int
    OBVIOUS
  <2> SUFFICES ASSUME ~skewed', NEW i \in DOMAIN L', NEW j \in DOMAIN L', i < j
               PROVE  val'[L'[i]] <= val'[L'[j]]
    BY DEF SortedUnlessSkewed
  <2>2. \A k, l \in 1..Len(L) : k < l => val[L[k]] <= val[L[l]]
    BY <1>2, <1>t DEF SortedUnlessSkewed
  <2>3. \A k \in 1..Len(L) : /\ k < p => val[L[k]] <= d
                             /\ k >= p => d <= val[L[k]]
    BY <1>t, <2>1, <2>2, InsertPosInOrder
  <2>4. /\ p \in 1..Len(L)+1
        /\ DOMAIN L' = 1..Len(L)+1
        /\ \A k \in 1..Len(L)+1 : L'[k] = IF k < p THEN L[k]
                                         ELSE IF k = p THEN t ELSE L[k-1]
        /\ val'[t] = d /\ t \notin Armed
        /\ \A u \in Timers : u # t => val'[u] = val[u]
    <3>1. /\ p \in 1..Len(L)+1
          /\ L' \in Seq(Timers) /\ Len(L') = Len(L) + 1
          /\ \A k \in 1..Len(L)+1 : L'[k] = IF k < p THEN L[k]
                                           ELSE IF k = p THEN t ELSE L[k-1]
          /\ val'[t] = d /\ t \notin Armed
          /\ \A u \in Timers : u # t => val'[u] = val[u]
      BY <1>2, <2>1, InsertEffect
    <3>2. DOMAIN L' = 1..Len(L)+1
      BY <3>1, LenProperties
    <3> QED BY <3>1, <3>2
  <2> HIDE DEF p
  <2>5. \A k \in 1..Len(L) : val'[L[k]] = val[L[k]]
    BY <1>t, <2>4
  <2> HIDE DEF L
  <2>6. i \in 1..Len(L)+1 /\ j \in 1..Len(L)+1
    BY <2>4
  <2>7. CASE j < p
    BY <1>t, <2>2, <2>4, <2>5, <2>6, <2>7
  <2>8. CASE j = p
    BY <1>t, <2>3, <2>4, <2>5, <2>6, <2>8
  <2>9. CASE j > p /\ i < p
    <3>1. i \in 1..Len(L) /\ j-1 \in 1..Len(L) /\ j-1 >= p
      BY <1>t, <2>4, <2>6, <2>9
    <3>2. val[L[i]] <= d /\ d <= val[L[j-1]]
      BY <2>3, <2>9, <3>1
    <3>3. val'[L'[i]] = val[L[i]] /\ val'[L'[j]] = val[L[j-1]]
      BY <2>4, <2>5, <2>6, <2>9, <3>1
    <3> QED BY <1>t, <2>1, <3>1, <3>2, <3>3
  <2>10. CASE j > p /\ i = p
    <3>1. j-1 \in 1..Len(L) /\ j-1 >= p
      BY <1>t, <2>4, <2>6, <2>10
    <3>2. d <= val[L[j-1]]
      BY <2>3, <3>1
    <3>3. val'[L'[i]] = d /\ val'[L'[j]] = val[L[j-1]]
      BY <2>4, <2>5, <2>6, <2>10, <3>1
    <3> QED BY <3>2, <3>3
  <2>11. CASE j > p /\ i > p
    <3>0. p \in 1..Len(L)+1 /\ Len(L) \in Nat
      BY <1>t, <2>4
    <3>1. i-1 \in 1..Len(L) /\ j-1 \in 1..Len(L) /\ i-1 < j-1
      BY ONLY <2>6, <2>11, <3>0, i < j
    <3>2. val'[L'[i]] = val[L[i-1]] /\ val'[L'[j]] = val[L[j-1]]
      BY <2>4, <2>5, <2>6, <2>11, <3>1
    <3> QED BY <2>2, <3>1, <3>2
  <2> QED BY <2>4, <2>6, <2>7, <2>8, <2>9, <2>10, <2>11
<1>3. ASSUME NEW i \in 1..Len(L), Unlink(i) PROVE SortedUnlessSkewed'
  <2> SUFFICES ASSUME ~skewed', NEW k \in DOMAIN L', NEW l \in DOMAIN L', k < l
               PROVE  val'[L'[k]] <= val'[L'[l]]
    BY DEF SortedUnlessSkewed
  <2>1. /\ DOMAIN L' = 1..Len(L)-1
        /\ \A m \in 1..Len(L)-1 : L'[m] = IF m < i THEN L[m] ELSE L[m+1]
        /\ \A m \in 1..Len(L)-1 : L'[m] \in Armed'
        /\ \A u \in Armed' : val'[u] = val[u]
    <3>1. L' \in Seq(Timers) /\ Len(L') = Len(L) - 1
      BY <1>3, UnlinkEffect
    <3>2. DOMAIN L' = 1..Len(L)-1
      BY <3>1, LenProperties
    <3>3. \A m \in 1..Len(L)-1 : L'[m] \in Armed'
      BY <3>2 DEF Armed, ToSet
    <3> QED BY <1>3, <3>2, <3>3, UnlinkEffect
  <2>2. ~skewed
    BY <1>3, <1>t, <2>1 DEF Unlink
  <2>3. \A m, n \in 1..Len(L) : m < n => val[L[m]] <= val[L[n]]
    BY <1>t, <2>2 DEF SortedUnlessSkewed
  <2> HIDE DEF L
  <2>4. PICK m, n \in 1..Len(L) : m < n /\ L'[k] = L[m] /\ L'[l] = L[n]
    <3>0. /\ k \in 1..Len(L)-1 /\ l \in 1..Len(L)-1
          /\ Len(L) \in Nat /\ i \in 1..Len(L)
      BY <1>t, <1>3, <2>1
    <3>a. /\ L'[k] = IF k < i THEN L[k] ELSE L[k+1]
          /\ L'[l] = IF l < i THEN L[l] ELSE L[l+1]
      BY <2>1, <3>0
    <3>1. CASE l < i
      <4>1. k \in 1..Len(L) /\ l \in 1..Len(L) /\ k < i
        BY ONLY <3>0, <3>1, k < l
      <4> QED BY ONLY <3>1, <3>a, <4>1, k < l
    <3>2. CASE k < i /\ ~(l < i)
      <4>1. k \in 1..Len(L) /\ l+1 \in 1..Len(L) /\ k < l+1
        BY ONLY <3>0, k < l
      <4> QED BY ONLY <3>2, <3>a, <4>1
    <3>3. CASE ~(k < i)
      <4>1. k+1 \in 1..Len(L) /\ l+1 \in 1..Len(L) /\ k+1 < l+1 /\ ~(l < i)
        BY ONLY <3>0, <3>3, k < l
      <4> QED BY ONLY <3>3, <3>a, <4>1
    <3> QED BY <3>1, <3>2, <3>3
  <2>5. val'[L'[k]] = val[L[m]] /\ val'[L'[l]] = val[L[n]]
    BY <2>1, <2>4
  <2> QED BY <2>3, <2>4, <2>5
<1>4. CASE Account
  <2> SUFFICES ASSUME ~skewed', NEW i \in DOMAIN L', NEW j \in DOMAIN L', i < j
               PROVE  val'[L'[i]] <= val'[L'[j]]
    BY DEF SortedUnlessSkewed
  <2>1. /\ L' = L /\ ~skewed /\ ~AccountSkews /\ elapsed \in Nat
        /\ val \in [Timers -> Nat]
        /\ val' = [t \in Timers |->
                     IF t \in take_care_later THEN val[t]
                     ELSE IF val[t] > elapsed THEN val[t] - elapsed ELSE 0]
    BY <1>4 DEF Account, AfterWait, TypeOK
  <2>2. i \in 1..Len(L) /\ j \in 1..Len(L) /\ val[L[i]] <= val[L[j]]
    BY <1>t, <2>1 DEF SortedUnlessSkewed
  <2>3. elapsed = 0 \/ \A t \in take_care_later : ~(val[t] > 0)
    BY <1>t, <2>1, <2>2 DEF AccountSkews
  <2> HIDE DEF L
  <2>4. \A t \in Timers :
          val'[t] = IF val[t] > elapsed THEN val[t] - elapsed ELSE 0
    BY <2>1, <2>3 DEF TypeOK
  <2> QED BY <1>t, <2>1, <2>2, <2>4
<1>5. CASE Delete
  BY <1>5 DEF Delete, SortedUnlessSkewed
<1>6. CASE \/ Wait \/ PollEvents \/ PollTimeout \/ PollEintr \/ PollError
           \/ TimerReturn \/ DispatchAbort \/ FdReturn \/ Leave \/ Tick
           \/ \E f \in Fds : \/ DispatchFd(f) \/ AddFd(f) \/ RemoveFd(f)
                             \/ Arrive(f)
           \/ \E t \in Timers : OtherBegin(t)
           \/ OtherStop \/ OtherLook \/ OtherWrite
           \/ UNCHANGED vars
  <2>1. UNCHANGED <<timeout_data_list, val, skewed>>
    BY <1>6 DEF Wait, PollEvents, PollTimeout, PollEintr, PollError,
      TimerReturn, DispatchAbort, FdReturn, Leave, Tick, DispatchFd,
      AddFd, RemoveFd, Arrive, OtherBegin, OtherStop, OtherLook, OtherWrite,
      vars, timerVars
  <2> QED BY <1>1, <2>1
<1>7. CASE FireHead
  <2>1. 1 \in 1..Len(L)
    BY <1>7, ListFacts DEF FireHead, LoopInv
  <2> QED BY <1>3, <1>7, <2>1 DEF FireHead
<1>8. ASSUME NEW t \in Timers, NEW d \in Delays, Arm(t, d)
      PROVE  SortedUnlessSkewed'
  <2>1. d \in Int /\ is_runnning \in BOOLEAN
    BY DelaysAssumption DEF TypeOK
  <2> QED BY <1>2, <1>8, <2>1, ArmInserts
<1>9. CASE OtherLink
  BY <1>2, <1>9, OtherInserts
<1> QED
  BY <1>3, <1>4, <1>5, <1>6, <1>7, <1>8, <1>9
  DEF Next, Loop, Client, Other, Cancel

\* As long as no timer was armed inside a wait that took time, the insertion
\* of ioc_timeout() and the accounting of ioc_wait_once() keep the list in
\* the order in which its timers are due.
THEOREM ListInOrder == Spec => []SortedUnlessSkewed
<1>1. Init => SortedUnlessSkewed
  BY DEF Init, SortedUnlessSkewed
<1> QED BY <1>1, NextSorted, TypeCorrect, PTL DEF Spec

\* Whatever is armed while the loop polls, by whichever thread, it does not
\* sleep past it: the timeout it gave epoll_wait() is still the head's val,
\* or a byte is in the pipe, or the other thread has yet to look whether it
\* must write one.
THEOREM WakesForTheHead == Spec => []NoSleepPastHead
<1>1. Init => NoSleepPastHead
  BY DEF Init, NoSleepPastHead
<1>2. TypeOK /\ LoopInv /\ NoSleepPastHead /\ [Next]_vars => NoSleepPastHead'
  <2> SUFFICES ASSUME TypeOK, LoopInv, NoSleepPastHead, [Next]_vars,
                      pc' = "poll", timeout_data_list' # <<>>
               PROVE  \/ abort_pipe' > 0
                      \/ polltimeout' = val'[Head(timeout_data_list')]
                      \/ callpc' \in {"look", "write"}
    BY DEF NoSleepPastHead
  <2>1. CASE Wait
    BY <2>1 DEF Wait, timerVars
  <2>2. CASE OtherLink \/ OtherStop
    BY <2>2 DEF OtherLink, OtherStop
  <2>3. CASE OtherLook
    BY <2>3 DEF OtherLook, TypeOK, loopVars
  <2>4. CASE OtherWrite
    BY <2>4, BoundsAssumption DEF OtherWrite, WakeUp, TypeOK
  <2>5. CASE \/ Tick \/ UNCHANGED vars \/ \E f \in Fds : Arrive(f)
             \/ \E t \in Timers : OtherBegin(t)
    BY <2>5 DEF Tick, Arrive, OtherBegin, vars, loopVars, timerVars, callVars,
      NoSleepPastHead
  <2>6. CASE \/ PollEvents \/ PollTimeout \/ PollEintr \/ PollError
             \/ FireHead \/ TimerReturn \/ DispatchAbort \/ FdReturn \/ Account
             \/ Leave
             \/ \E f \in Fds : DispatchFd(f) \/ AddFd(f) \/ RemoveFd(f)
             \/ \E t \in Timers, d \in Delays : Arm(t, d)
             \/ \E i \in 1..Len(timeout_data_list) : Cancel(i)
             \/ Delete
    BY <2>6 DEF PollEvents, PollTimeout, PollEintr, PollError, FireHead,
      TimerReturn, DispatchAbort, FdReturn, Account, Leave, DispatchFd, AddFd,
      RemoveFd, Arm, Cancel, Delete, InClient, loopVars
  <2> QED BY <2>1, <2>2, <2>3, <2>4, <2>5, <2>6 DEF Next, Loop, Client, Other
<1> QED BY <1>1, <1>2, TypeCorrect, PTL DEF Spec

\* What is being dispatched is watched by epoll or was removed by a handler
\* of the same batch, and what epoll watches has a node that is linked and not
\* freed: the node that ioc_add_fd() frees and leaves in the list when
\* epoll_ctl() fails is never reached this way.
THEOREM DispatchesLiveNodes == Spec => []DispatchLive
<1> DEFINE Watched == batch \ {AbortFd} \subseteq interest \cup stale
<1>1. Init => Watched
  BY DEF Init
<1>2. TypeOK /\ LoopInv /\ Watched /\ [Next]_vars => Watched'
  <2> SUFFICES ASSUME TypeOK, LoopInv, Watched, [Next]_vars PROVE Watched'
    OBVIOUS
  <2>1. CASE PollEvents
    BY <2>1 DEF PollEvents, Pending, fdVars
  <2>2. CASE Delete
    BY <2>2 DEF Delete, LoopInv
  <2>3. ASSUME NEW f \in Fds, RemoveFd(f) PROVE Watched'
    BY <2>3 DEF RemoveFd, loopVars
  <2>4. ASSUME NEW f \in Fds, AddFd(f) PROVE Watched'
    BY <2>4 DEF AddFd, loopVars
  <2>5. ASSUME NEW f \in Fds, DispatchFd(f) PROVE Watched'
    BY <2>5 DEF DispatchFd
  <2>6. CASE \/ Wait \/ PollTimeout \/ PollEintr \/ PollError \/ FireHead
             \/ TimerReturn \/ DispatchAbort \/ FdReturn \/ Account \/ Leave
             \/ \E f \in Fds : Arrive(f)
             \/ \E t \in Timers, d \in Delays : Arm(t, d)
             \/ \E i \in 1..Len(timeout_data_list) : Cancel(i)
             \/ \E t \in Timers : OtherBegin(t)
             \/ OtherLink \/ OtherStop \/ OtherLook \/ OtherWrite
             \/ Tick \/ UNCHANGED vars
    BY <2>6 DEF Wait, PollTimeout, PollEintr, PollError, FireHead,
      TimerReturn, DispatchAbort, FdReturn, Account, Leave, Arrive, Arm, Cancel,
      OtherBegin, OtherLink, OtherStop, OtherLook, OtherWrite, Tick, vars,
      loopVars, fdVars
  <2> QED BY <2>1, <2>2, <2>3, <2>4, <2>5, <2>6 DEF Next, Loop, Client, Other
<1>3. TypeOK /\ LoopInv /\ Watched => DispatchLive
  BY DEF LoopInv, DispatchLive
<1> QED BY <1>1, <1>2, <1>3, TypeCorrect, PTL DEF Spec
=============================================================================
