----------------------------- MODULE LinkedList ------------------------------
(***************************************************************************)
(* circular_double_linked_list.h, write by write, as io_context and the    *)
(* connection manager use it.  One thread owns a list; another may put a   *)
(* timer of delay 0 in front of it while the owner walks along it          *)
(* (ioc_timeout() called from the other side of a search).  No lock is     *)
(* taken.  An operation reads the links it needs as it begins and makes    *)
(* its writes in the order of the program; a walk, or an operation of the  *)
(* other thread, may come between any two of them.  An operation counts    *)
(* from malloc() to its last write or to free().  Where operations of the  *)
(* two threads overlap, nodes are lost and freed ones used in many ways:   *)
(* the writes of both are followed to their end, and no further.           *)
(***************************************************************************)
EXTENDS Integers, FiniteSets, Sequences, SequencesExt

CONSTANTS
  Nodes,    \* what malloc() returns; none is used twice
  Null,
  Garbage   \* a link that was never set

ASSUME NullAssumption == Null \notin Nodes

Threads == {"owner", "other"}
NextOf(n) == <<n, "next">>
PrevOf(n) == <<n, "prev">>
Top == <<Null, "head">>
Live(n) == <<n, "live">>    \* TRUE between malloc() and free()
Links == {Top} \cup (Nodes \X {"next", "prev"})

VARIABLES
  mem,      \* the links, the head, and which nodes are allocated
  todo,     \* per thread, the writes <<cell, value>> its operation has left
  walk,     \* the owner's walk: cur is Null when there is none
  linked,   \* history: the list the operations begun so far should give
  used,     \* history: nodes ever allocated
  refused,  \* history: a node was freed while linked
  overlapped,  \* history: two operations were in progress at once
  touched   \* history: a node was used after it was freed

vars == <<mem, todo, walk, linked, used, refused, overlapped, touched>>

NoWalk == [first |-> Null, cur |-> Null, frees |-> FALSE, met |-> <<>>, begun |-> {}]

Init ==
  /\ mem = [c \in Links \cup (Nodes \X {"live"}) |->
              IF c[2] = "live" THEN FALSE ELSE IF c = Top THEN Null ELSE Garbage]
  /\ todo = [t \in Threads |-> <<>>]
  /\ walk = NoWalk
  /\ linked = <<>> /\ used = {}
  /\ refused = FALSE /\ overlapped = FALSE /\ touched = FALSE

-----------------------------------------------------------------------------
(* The operations, as the writes they make.                                *)

\* Mutant: the link back from the old successor is left alone.
AddAfterOneWay(s, i) ==
  << <<NextOf(s), i>>, <<PrevOf(i), s>>, <<NextOf(i), mem[NextOf(s)]>> >>

AddAfter(s, i) ==
  LET last_next == mem[NextOf(s)] IN
    << <<NextOf(s), i>>, <<PrevOf(i), s>>, <<NextOf(i), last_next>>, <<PrevOf(last_next), i>> >>

\* Mutant: the node is reachable before its own links are set.
AddBeforeEarly(s, i) ==
  LET last_prev == mem[PrevOf(s)] IN
    << <<NextOf(last_prev), i>>, <<PrevOf(s), i>>, <<NextOf(i), s>>, <<PrevOf(i), last_prev>> >>

AddBefore(s, i) ==
  LET last_prev == mem[PrevOf(s)] IN
    << <<PrevOf(s), i>>, <<NextOf(i), s>>, <<PrevOf(i), last_prev>>, <<NextOf(last_prev), i>> >>

\* Mutant: the head stays on the node.
UnlinkKeepsHead(i, moves) ==
  LET next == mem[NextOf(i)] prev == mem[PrevOf(i)] IN
    << <<NextOf(prev), next>>, <<PrevOf(next), prev>>, <<Live(i), FALSE>> >>

\* The node is out of the list, the head becomes its successor, and the node
\* is freed.  The head of the timers moves only if it is the node; that of
\* the descriptors always does.
Unlink(i, moves) ==
  LET next == mem[NextOf(i)] prev == mem[PrevOf(i)] IN
    << <<NextOf(prev), next>>, <<PrevOf(next), prev>> >>
    \o (IF moves THEN << <<Top, IF next = i THEN Null ELSE next>> >> ELSE <<>>)
    \o << <<Live(i), FALSE>> >>

\* Mutant: it is not.
NewNodeUnlinked(i) == << <<Live(i), TRUE>> >>

\* A new node is linked to itself ("requested by the linked list").
NewNode(i) == << <<Live(i), TRUE>>, <<NextOf(i), i>>, <<PrevOf(i), i>> >>

Idle(t) == todo[t] = <<>>
Quiet == \A t \in Threads : Idle(t)
Walking == walk.cur # Null

\* The node the other thread is about to make the head.
Arriving == IF Idle("other") THEN {} ELSE {Last(todo["other"])[2]}

\* Thread t begins the operation that makes the writes ws; nothing keeps the
\* other from being in the middle of one.
Begin(t, ws, list) ==
  /\ Idle(t) /\ ~overlapped /\ ~walk.frees
  /\ t = "owner" => ~Walking
  /\ overlapped' = ~Quiet
  /\ todo' = [todo EXCEPT ![t] = ws]
  /\ linked' = list
  /\ walk' = IF t = "owner" THEN NoWalk ELSE walk
  /\ UNCHANGED <<mem, touched>>

Insert(t, i, ws, list) ==
  /\ i \in Nodes \ used
  /\ used' = used \cup {i}
  /\ Begin(t, NewNode(i) \o ws, list)

\* A timer due first: before the head, and then the head.
AddFirst(t, i) ==
  /\ Insert(t, i, (IF mem[Top] = Null THEN <<>> ELSE AddBefore(mem[Top], i))
                  \o << <<Top, i>> >>, <<i>> \o linked)
  /\ UNCHANGED refused

\* A timer due last, and any connection: before the head, which stays.
AddLast(i) ==
  /\ mem[Top] # Null
  /\ Insert("owner", i, AddBefore(mem[Top], i), Append(linked, i))
  /\ UNCHANGED refused

\* A timer in between, and (after the head) any descriptor.
AddInside(i) ==
  \E k \in DOMAIN linked :
    /\ linked[k] \notin Arriving
    /\ Insert("owner", i, AddAfter(linked[k], i), InsertAt(linked, k + 1, i))
    /\ UNCHANGED refused

\* epoll_ctl() refuses a descriptor, one that it has already or a regular
\* file: the node is freed and stays in the list, where the wake-up pipe is
\* the first.
AddRefused(i) ==
  /\ mem[Top] # Null /\ linked # <<>>
  /\ Insert("owner", i, AddAfter(mem[Top], i) \o << <<Live(i), FALSE>> >>,
            InsertAt(linked, 2, i))
  /\ refused' = TRUE

\* A timer fires or is removed; a descriptor is removed.
RemoveTimer ==
  \E k \in DOMAIN linked :
    /\ linked[k] \notin Arriving
    /\ Begin("owner", Unlink(linked[k], mem[Top] = linked[k]), RemoveAt(linked, k))
    /\ UNCHANGED <<used, refused>>

RemoveFd ==
  \E k \in DOMAIN linked :
    /\ linked[k] \notin Arriving
    /\ Begin("owner", Unlink(linked[k], TRUE),
             SubSeq(linked, k + 1, Len(linked)) \o SubSeq(linked, 1, k - 1))
    /\ UNCHANGED <<used, refused>>

\* A thread makes the next write of its operation.
Freed(n) == n \in used /\ ~mem[Live(n)]

Write(t) ==
  /\ ~Idle(t)
  /\ LET w == Head(todo[t]) IN
       /\ mem' = [mem EXCEPT ![w[1]] = w[2]]
       /\ touched' = (touched \/ (w[1][2] # "live" /\ Freed(w[1][1])))
  /\ todo' = [todo EXCEPT ![t] = Tail(@)]
  /\ UNCHANGED <<walk, linked, used, refused, overlapped>>

-----------------------------------------------------------------------------
(* The owner's walks: the time of a wait is taken off each timer; at the    *)
(* end, when the other thread has been joined, each node is freed.          *)

BeginWalk(frees) ==
  /\ Idle("owner") /\ ~overlapped /\ ~Walking /\ ~walk.frees
  /\ mem[Top] # Null
  /\ frees => Idle("other")
  /\ walk' = [first |-> mem[Top], cur |-> mem[Top], frees |-> frees,
              met |-> <<>>, begun |-> ToSet(linked) \ Arriving]
  /\ UNCHANGED <<mem, todo, linked, used, refused, overlapped, touched>>

\* The successor is read before the node is freed.
Step ==
  /\ Walking /\ Len(walk.met) <= Cardinality(Nodes)
  /\ LET n == walk.cur
         next == mem[NextOf(n)]
     IN  /\ walk' = [walk EXCEPT !.met = Append(@, n),
                                 !.cur = IF next = walk.first THEN Null ELSE next]
         /\ mem' = IF walk.frees THEN [mem EXCEPT ![Live(n)] = FALSE] ELSE mem
         /\ touched' = (touched \/ Freed(n))
  /\ UNCHANGED <<todo, linked, used, refused, overlapped>>

Next ==
  \/ \E i \in Nodes : AddLast(i) \/ AddInside(i) \/ AddRefused(i)
  \/ \E i \in Nodes, t \in Threads : AddFirst(t, i)
  \/ RemoveTimer \/ RemoveFd
  \/ \E t \in Threads : Write(t)
  \/ \E frees \in BOOLEAN : BeginWalk(frees)
  \/ Step

Spec == Init /\ [][Next]_vars

-----------------------------------------------------------------------------
\* Types of the history, and, until two operations overlap, of the memory and
\* the walk.
TypeOK ==
  /\ used \subseteq Nodes /\ linked \in Seq(used)
  /\ refused \in BOOLEAN /\ overlapped \in BOOLEAN /\ touched \in BOOLEAN
  /\ ~overlapped =>
       /\ \A n \in used : mem[Live(n)] \in BOOLEAN
       /\ mem[Top] \in used \cup {Null} /\ walk.cur \in used \cup {Null}
       /\ Quiet => \A n \in ToSet(linked) :
                     mem[NextOf(n)] \in Nodes /\ mem[PrevOf(n)] \in Nodes

\* Between operations, none of which overlapped and as long as no descriptor
\* was refused, the links of both directions and the head are those of the
\* list the operations describe, whatever walks came in between
\* (circular_double_linked_list.h:6-27, io_context.c:287-308, 321-343).
RingMatches ==
  Quiet /\ ~overlapped /\ ~refused /\ ~walk.frees =>
    LET n == Len(linked) IN
      /\ mem[Top] = IF n = 0 THEN Null ELSE linked[1]
      /\ \A k \in 1..n : /\ mem[NextOf(linked[k])] = linked[(k % n) + 1]
                         /\ mem[PrevOf(linked[(k % n) + 1])] = linked[k]

\* A walk of the owner while the other thread puts its timer in front, write
\* by write, comes back to where it began, and meets every timer that was
\* linked before exactly once: none is charged twice for the wait, none is
\* left out (io_context.c:174-194 against 293-295).
WalkMeetsAll ==
  ~refused =>
    /\ IsInjective(walk.met)
    /\ walk.met # <<>> /\ ~Walking => walk.begun \subseteq ToSet(walk.met)

\* It takes a refused descriptor, which is freed and stays in the list, or
\* operations of the two threads at the same time, to make the list use freed
\* memory: the removal of any node does not, nor does a walk while the other
\* thread inserts, nor the walk that frees the list, and that one leaves
\* nothing that was ever allocated
\* (io_context.c:90-104, 157-164, 245-252, connection_manager.c:38-59).
MemoryIsSafe ==
  ~refused /\ ~overlapped =>
    /\ ~touched
    /\ walk.frees /\ ~Walking => \A n \in used : Freed(n)
=============================================================================
