----------------------------- MODULE PollProofs -----------------------------
(***************************************************************************)
(* Proofs about module Poll, for every set of threads, polls and objects:  *)
(* first that no wakeup is lost, then that the two halves of a             *)
(* registration agree and that a ready queue is exact for ids that were    *)
(* never removed.                                                          *)
(***************************************************************************)
EXTENDS Poll, FiniteSetTheorems, TLAPS

-----------------------------------------------------------------------------
(* Sequences                                                               *)

(* A member of Orders(S) lists the members of S, each one once. *)
LEMMA OrdersList ==
  ASSUME NEW T, IsFiniteSet(T), NEW S \in SUBSET T, NEW s \in Orders(S)
  PROVE  /\ s \in Seq(T)
         /\ NoDuplicates(s)
         /\ \A x : InSeq(x, s) <=> x \in S
<1>1. Cardinality(S) \in Nat
  BY FS_Subset, FS_CardinalityType
<1>2. /\ s \in [1..Cardinality(S) -> S]
      /\ DOMAIN s = 1..Cardinality(S)
  BY DEF Orders
<1>3. s \in Seq(T)
  <2>1. s \in [1..Cardinality(S) -> T]
    BY <1>2
  <2> QED
    BY <1>1, <2>1
<1>4. NoDuplicates(s)
  BY <1>2 DEF Orders, NoDuplicates
<1>5. \A x : InSeq(x, s) <=> x \in S
  BY <1>2 DEF Orders, InSeq
<1> QED
  BY <1>3, <1>4, <1>5

(* What a concatenation holds. *)
LEMMA ConcatHolds ==
  ASSUME NEW T, NEW s \in Seq(T), NEW r \in Seq(T)
  PROVE  /\ s \o r \in Seq(T)
         /\ \A x : InSeq(x, s \o r) <=> InSeq(x, s) \/ InSeq(x, r)
<1>1. s \o r \in Seq(T)
  OBVIOUS
<1>2. ASSUME NEW x
      PROVE  InSeq(x, s \o r) <=> InSeq(x, s) \/ InSeq(x, r)
  <2>1. ASSUME InSeq(x, s \o r)
        PROVE  InSeq(x, s) \/ InSeq(x, r)
    <3>1. PICK i \in DOMAIN (s \o r) : (s \o r)[i] = x
      BY <2>1 DEF InSeq
    <3>2. CASE i <= Len(s)
      BY <3>1, <3>2 DEF InSeq
    <3>3. CASE i > Len(s)
      <4>1. i - Len(s) \in DOMAIN r /\ r[i - Len(s)] = x
        BY <3>1, <3>3
      <4> QED
        BY <4>1 DEF InSeq
    <3> QED
      BY <3>1, <3>2, <3>3
  <2>2. ASSUME InSeq(x, s)
        PROVE  InSeq(x, s \o r)
    <3>1. PICK i \in DOMAIN s : s[i] = x
      BY <2>2 DEF InSeq
    <3>2. i \in DOMAIN (s \o r) /\ (s \o r)[i] = x
      BY <3>1
    <3> QED
      BY <3>2 DEF InSeq
  <2>3. ASSUME InSeq(x, r)
        PROVE  InSeq(x, s \o r)
    <3>1. PICK i \in DOMAIN r : r[i] = x
      BY <2>3 DEF InSeq
    <3>2. Len(s) + i \in DOMAIN (s \o r) /\ (s \o r)[Len(s) + i] = x
      BY <3>1
    <3> QED
      BY <3>2 DEF InSeq
  <2> QED
    BY <2>1, <2>2, <2>3
<1> QED
  BY <1>1, <1>2

(* Concatenation of sequences that share nothing. *)
LEMMA ConcatNoDuplicates ==
  ASSUME NEW T, NEW s \in Seq(T), NEW r \in Seq(T),
         NoDuplicates(s), NoDuplicates(r),
         \A x \in T : ~(InSeq(x, s) /\ InSeq(x, r))
  PROVE  NoDuplicates(s \o r)
<1>1. SUFFICES ASSUME NEW i \in DOMAIN (s \o r), NEW j \in DOMAIN (s \o r),
                      (s \o r)[i] = (s \o r)[j]
               PROVE  i = j
  BY DEF NoDuplicates
<1>2. CASE i <= Len(s) /\ j <= Len(s)
  BY <1>1, <1>2 DEF NoDuplicates
<1>3. CASE i > Len(s) /\ j > Len(s)
  <2>1. i - Len(s) \in DOMAIN r /\ j - Len(s) \in DOMAIN r
    BY <1>3
  <2>2. r[i - Len(s)] = r[j - Len(s)]
    BY <1>1, <1>3
  <2> QED
    BY <1>3, <2>1, <2>2 DEF NoDuplicates
<1>4. CASE i <= Len(s) /\ j > Len(s)
  <2>1. i \in DOMAIN s /\ j - Len(s) \in DOMAIN r /\ s[i] = r[j - Len(s)]
    BY <1>1, <1>4
  <2>2. s[i] \in T
    BY <2>1
  <2> QED
    BY <2>1, <2>2 DEF InSeq
<1>5. CASE i > Len(s) /\ j <= Len(s)
  <2>1. j \in DOMAIN s /\ i - Len(s) \in DOMAIN r /\ s[j] = r[i - Len(s)]
    BY <1>1, <1>5
  <2>2. s[j] \in T
    BY <2>1
  <2> QED
    BY <2>1, <2>2 DEF InSeq
<1> QED
  BY <1>2, <1>3, <1>4, <1>5

(* Taking the head of a sequence without duplicates. *)
LEMMA TailHolds ==
  ASSUME NEW T, NEW s \in Seq(T), s # <<>>
  PROVE  /\ Tail(s) \in Seq(T)
         /\ Head(s) \in T
         /\ InSeq(Head(s), s)
         /\ \A x : InSeq(x, s) <=> x = Head(s) \/ InSeq(x, Tail(s))
         /\ NoDuplicates(s) => NoDuplicates(Tail(s)) /\ ~InSeq(Head(s), Tail(s))
<1>1. /\ Tail(s) \in Seq(T)
      /\ Head(s) = s[1]
      /\ 1 \in DOMAIN s
      /\ s[1] \in T
      /\ Len(Tail(s)) = Len(s) - 1
      /\ DOMAIN Tail(s) = 1..(Len(s) - 1)
      /\ \A i \in DOMAIN Tail(s) : Tail(s)[i] = s[i + 1] /\ i + 1 \in DOMAIN s
  OBVIOUS
<1>2. ASSUME NEW x
      PROVE  InSeq(x, s) <=> x = Head(s) \/ InSeq(x, Tail(s))
  <2>1. ASSUME InSeq(x, s), x # Head(s)
        PROVE  InSeq(x, Tail(s))
    <3>1. PICK i \in DOMAIN s : s[i] = x
      BY <2>1 DEF InSeq
    <3>2. i # 1
      BY <1>1, <2>1, <3>1
    <3>3. i - 1 \in DOMAIN Tail(s) /\ Tail(s)[i - 1] = s[i]
      BY <1>1, <3>1, <3>2
    <3> QED
      BY <3>1, <3>3 DEF InSeq
  <2> QED
    BY <1>1, <2>1 DEF InSeq
<1>3. ASSUME NoDuplicates(s)
      PROVE  NoDuplicates(Tail(s)) /\ ~InSeq(Head(s), Tail(s))
  <2>1. NoDuplicates(Tail(s))
    BY <1>1, <1>3 DEF NoDuplicates
  <2>2. ~InSeq(Head(s), Tail(s))
    BY <1>1, <1>3 DEF NoDuplicates, InSeq
  <2> QED
    BY <2>1, <2>2
<1> QED
  BY <1>1, <1>2, <1>3 DEF InSeq

(* Appending one new element. *)
LEMMA AppendHolds ==
  ASSUME NEW T, NEW s \in Seq(T), NEW y \in T
  PROVE  /\ Append(s, y) \in Seq(T)
         /\ \A x : InSeq(x, Append(s, y)) <=> x = y \/ InSeq(x, s)
         /\ NoDuplicates(s) /\ ~InSeq(y, s) => NoDuplicates(Append(s, y))
<1>1. /\ Append(s, y) \in Seq(T)
      /\ DOMAIN Append(s, y) = 1..(Len(s) + 1)
      /\ DOMAIN s = 1..Len(s)
      /\ Len(s) \in Nat
      /\ \A i \in DOMAIN s : Append(s, y)[i] = s[i]
      /\ Append(s, y)[Len(s) + 1] = y
  OBVIOUS
<1>2. ASSUME NEW x
      PROVE  InSeq(x, Append(s, y)) <=> x = y \/ InSeq(x, s)
  <2>1. ASSUME InSeq(x, Append(s, y)), x # y
        PROVE  InSeq(x, s)
    <3>1. PICK i \in DOMAIN Append(s, y) : Append(s, y)[i] = x
      BY <2>1 DEF InSeq
    <3>2. i \in DOMAIN s
      BY <1>1, <2>1, <3>1
    <3> QED
      BY <1>1, <3>1, <3>2 DEF InSeq
  <2>2. InSeq(y, Append(s, y))
    <3>1. Len(s) + 1 \in DOMAIN Append(s, y)
      BY <1>1
    <3> QED
      BY <1>1, <3>1 DEF InSeq
  <2>3. ASSUME InSeq(x, s)
        PROVE  InSeq(x, Append(s, y))
    BY <1>1, <2>3 DEF InSeq
  <2> QED
    BY <2>1, <2>2, <2>3
<1>3. ASSUME NoDuplicates(s), ~InSeq(y, s)
      PROVE  NoDuplicates(Append(s, y))
  <2>1. SUFFICES ASSUME NEW i \in 1..(Len(s) + 1), NEW j \in 1..(Len(s) + 1),
                        Append(s, y)[i] = Append(s, y)[j]
                 PROVE  i = j
    BY <1>1 DEF NoDuplicates
  <2>2. CASE i \in DOMAIN s /\ j \in DOMAIN s
    BY <1>1, <1>3, <2>1, <2>2 DEF NoDuplicates
  <2>3. CASE i \in DOMAIN s /\ j = Len(s) + 1
    BY <1>1, <1>3, <2>1, <2>3 DEF InSeq
  <2>4. CASE i = Len(s) + 1 /\ j \in DOMAIN s
    BY <1>1, <1>3, <2>1, <2>4 DEF InSeq
  <2> QED
    BY <1>1, <2>2, <2>3, <2>4
<1> QED
  BY <1>1, <1>2, <1>3

-----------------------------------------------------------------------------
(* Poll operations                                                         *)

(* Poll::notify on a well-formed poll: the fields of the result, one by one. *)
LEMMA NotifyFields ==
  ASSUME NEW q \in PollState, NEW id \in q.objects, NEW ev \in SUBSET Readiness
  PROVE  /\ Notify(q, id, ev) \in PollState
         /\ Notify(q, id, ev).objects = q.objects
         /\ Notify(q, id, ev).ready = [q.ready EXCEPT ![id] = @ \cup ev]
         /\ Notify(q, id, ev).ready_queue =
              IF q.ready[id] = {} THEN Append(q.ready_queue, id) ELSE q.ready_queue
         /\ Notify(q, id, ev).waiters =
              IF q.waiters = <<>> THEN q.waiters ELSE Tail(q.waiters)
<1> DEFINE rdy == [q.ready EXCEPT ![id] = @ \cup ev]
           rq  == IF q.ready[id] = {} THEN Append(q.ready_queue, id) ELSE q.ready_queue
           wt  == IF q.waiters = <<>> THEN q.waiters ELSE Tail(q.waiters)
<1>1. /\ q.objects \in SUBSET Ids
      /\ q.ready \in [Ids -> SUBSET Readiness]
      /\ q.ready_queue \in Seq(Ids)
      /\ q.waiters \in Seq(Threads)
      /\ id \in Ids
  BY DEF PollState
<1>2. rdy \in [Ids -> SUBSET Readiness]
  BY <1>1
<1>3. rq \in Seq(Ids)
  BY <1>1
<1>4. wt \in Seq(Threads)
  BY <1>1
<1>5. Notify(q, id, ev) = [q EXCEPT !.ready = rdy, !.ready_queue = rq, !.waiters = wt]
  BY DEF Notify
<1>6. q = [objects |-> q.objects, ready |-> q.ready,
           ready_queue |-> q.ready_queue, waiters |-> q.waiters]
  BY DEF PollState
<1> HIDE DEF rdy, rq, wt
<1>7. Notify(q, id, ev) = [objects |-> q.objects, ready |-> rdy,
                           ready_queue |-> rq, waiters |-> wt]
  BY <1>5, <1>6
<1>8. Notify(q, id, ev) \in PollState
  BY <1>1, <1>2, <1>3, <1>4, <1>7 DEF PollState
<1> QED
  BY <1>7, <1>8 DEF rdy, rq, wt

(* Poll::notify's early return. *)
LEMMA NotifyUnknown ==
  ASSUME NEW q, NEW id, NEW ev, id \notin q.objects
  PROVE  Notify(q, id, ev) = q
BY DEF Notify

(* do_try_wait's effect on the poll. *)
LEMMA PopReadyFields ==
  ASSUME NEW q \in PollState, NEW i \in LiveAt(q)
  PROVE  /\ PopReady(q, i) \in PollState
         /\ PopReady(q, i).objects = q.objects
         /\ PopReady(q, i).ready = [q.ready EXCEPT ![q.ready_queue[i]] = {}]
         /\ PopReady(q, i).ready_queue = SubSeq(q.ready_queue, i + 1, Len(q.ready_queue))
         /\ PopReady(q, i).waiters = q.waiters
         /\ q.ready_queue[i] \in q.objects
         /\ q.ready_queue[i] \in Ids
<1> DEFINE rdy == [q.ready EXCEPT ![q.ready_queue[i]] = {}]
           rq  == SubSeq(q.ready_queue, i + 1, Len(q.ready_queue))
<1>1. /\ q.objects \in SUBSET Ids
      /\ q.ready \in [Ids -> SUBSET Readiness]
      /\ q.ready_queue \in Seq(Ids)
      /\ q.waiters \in Seq(Threads)
      /\ i \in 1..Len(q.ready_queue)
      /\ q.ready_queue[i] \in q.objects
  BY DEF PollState, LiveAt
<1>2. rdy \in [Ids -> SUBSET Readiness]
  BY <1>1
<1>3. rq \in Seq(Ids)
  BY <1>1
<1>4. PopReady(q, i) = [q EXCEPT !.ready = rdy, !.ready_queue = rq]
  BY DEF PopReady
<1>5. q = [objects |-> q.objects, ready |-> q.ready,
           ready_queue |-> q.ready_queue, waiters |-> q.waiters]
  BY DEF PollState
<1> HIDE DEF rdy, rq
<1>6. PopReady(q, i) = [objects |-> q.objects, ready |-> rdy,
                        ready_queue |-> rq, waiters |-> q.waiters]
  BY <1>4, <1>5
<1>7. PopReady(q, i) \in PollState
  BY <1>1, <1>2, <1>3, <1>6 DEF PollState
<1> QED
  BY <1>1, <1>6, <1>7 DEF rdy, rq

(* Popping only stale ids, then possibly joining the waiters. *)
LEMMA DropStaleFields ==
  ASSUME NEW q \in PollState
  PROVE  /\ DropStale(q) \in PollState
         /\ DropStale(q).objects = q.objects
         /\ DropStale(q).ready = q.ready
         /\ DropStale(q).ready_queue = <<>>
         /\ DropStale(q).waiters = q.waiters
<1>1. q = [objects |-> q.objects, ready |-> q.ready,
           ready_queue |-> q.ready_queue, waiters |-> q.waiters]
  BY DEF PollState
<1>2. DropStale(q) = [objects |-> q.objects, ready |-> q.ready,
                      ready_queue |-> <<>>, waiters |-> q.waiters]
  BY <1>1 DEF DropStale
<1>3. <<>> \in Seq(Ids)
  OBVIOUS
<1>4. DropStale(q) \in PollState
  BY <1>2, <1>3 DEF PollState
<1> QED
  BY <1>2, <1>4

LEMMA JoinWaitersFields ==
  ASSUME NEW q \in PollState, NEW t \in Threads
  PROVE  /\ JoinWaiters(q, t) \in PollState
         /\ JoinWaiters(q, t).objects = q.objects
         /\ JoinWaiters(q, t).ready = q.ready
         /\ JoinWaiters(q, t).ready_queue = q.ready_queue
         /\ JoinWaiters(q, t).waiters = Append(q.waiters, t)
<1> DEFINE wt == Append(q.waiters, t)
<1>1. q = [objects |-> q.objects, ready |-> q.ready,
           ready_queue |-> q.ready_queue, waiters |-> q.waiters]
  BY DEF PollState
<1>2. wt \in Seq(Threads)
  BY DEF PollState
<1>3. JoinWaiters(q, t) = [q EXCEPT !.waiters = wt]
  BY DEF JoinWaiters
<1> HIDE DEF wt
<1>4. JoinWaiters(q, t) = [objects |-> q.objects, ready |-> q.ready,
                           ready_queue |-> q.ready_queue, waiters |-> wt]
  BY <1>1, <1>3
<1>5. JoinWaiters(q, t) \in PollState
  BY <1>2, <1>4 DEF PollState
<1> QED
  BY <1>4, <1>5 DEF wt

LEMMA RegisterFields ==
  ASSUME NEW q \in PollState, NEW id \in Ids
  PROVE  /\ Register(q, id) \in PollState
         /\ Register(q, id).objects = q.objects \cup {id}
         /\ Register(q, id).ready = [q.ready EXCEPT ![id] = {}]
         /\ Register(q, id).ready_queue = q.ready_queue
         /\ Register(q, id).waiters = q.waiters
<1> DEFINE obj == q.objects \cup {id}
           rdy == [q.ready EXCEPT ![id] = {}]
<1>1. q = [objects |-> q.objects, ready |-> q.ready,
           ready_queue |-> q.ready_queue, waiters |-> q.waiters]
  BY DEF PollState
<1>2. obj \in SUBSET Ids /\ rdy \in [Ids -> SUBSET Readiness]
  BY DEF PollState
<1>3. Register(q, id) = [q EXCEPT !.objects = obj, !.ready = rdy]
  BY DEF Register
<1> HIDE DEF obj, rdy
<1>4. Register(q, id) = [objects |-> obj, ready |-> rdy,
                         ready_queue |-> q.ready_queue, waiters |-> q.waiters]
  BY <1>1, <1>3
<1>5. Register(q, id) \in PollState
  BY <1>2, <1>4 DEF PollState
<1> QED
  BY <1>4, <1>5 DEF obj, rdy

LEMMA UnregisterFields ==
  ASSUME NEW q \in PollState, NEW id \in Ids
  PROVE  /\ Unregister(q, id) \in PollState
         /\ Unregister(q, id).objects = q.objects \ {id}
         /\ Unregister(q, id).ready = [q.ready EXCEPT ![id] = {}]
         /\ Unregister(q, id).ready_queue = q.ready_queue
         /\ Unregister(q, id).waiters = q.waiters
<1> DEFINE obj == q.objects \ {id}
           rdy == [q.ready EXCEPT ![id] = {}]
<1>1. q = [objects |-> q.objects, ready |-> q.ready,
           ready_queue |-> q.ready_queue, waiters |-> q.waiters]
  BY DEF PollState
<1>2. obj \in SUBSET Ids /\ rdy \in [Ids -> SUBSET Readiness]
  BY DEF PollState
<1>3. Unregister(q, id) = [q EXCEPT !.objects = obj, !.ready = rdy]
  BY DEF Unregister
<1> HIDE DEF obj, rdy
<1>4. Unregister(q, id) = [objects |-> obj, ready |-> rdy,
                           ready_queue |-> q.ready_queue, waiters |-> q.waiters]
  BY <1>1, <1>3
<1>5. Unregister(q, id) \in PollState
  BY <1>2, <1>4 DEF PollState
<1> QED
  BY <1>4, <1>5 DEF obj, rdy

-----------------------------------------------------------------------------
(* Waking threads                                                          *)

(* Between the poll states ps and ps2 the threads of W were taken from the *)
(* front of waiters queues, at most one per poll, and nothing else left a  *)
(* waiters queue.                                                          *)
Wakes(W, ps, ps2) ==
  /\ \A p \in Polls :
       \/ ps2[p].waiters = ps[p].waiters
       \/ /\ ps[p].waiters # <<>>
          /\ ps2[p].waiters = Tail(ps[p].waiters)
          /\ Head(ps[p].waiters) \in W
  /\ \A t \in W : \E p \in Polls :
       /\ ps[p].waiters # <<>>
       /\ ps2[p].waiters = Tail(ps[p].waiters)
       /\ t = Head(ps[p].waiters)

(* Poll::notify unblocks the thread it pops, and pops no other. *)
LEMMA NotifyWakes ==
  ASSUME NEW q \in PollState, NEW id, NEW ev \in SUBSET Readiness
  PROVE  /\ Notify(q, id, ev) \in PollState
         /\ Notify(q, id, ev).objects = q.objects
         /\ Woken(q, id) \subseteq Threads
         /\ \/ /\ Woken(q, id) = {}
               /\ Notify(q, id, ev).waiters = q.waiters
            \/ /\ q.waiters # <<>>
               /\ Woken(q, id) = {Head(q.waiters)}
               /\ Notify(q, id, ev).waiters = Tail(q.waiters)
<1>1. CASE id \notin q.objects
  BY <1>1, NotifyUnknown DEF Woken
<1>2. CASE id \in q.objects
  <2>1. q.waiters \in Seq(Threads)
    BY DEF PollState
  <2>2. CASE q.waiters = <<>>
    BY <1>2, <2>2, NotifyFields DEF Woken
  <2>3. CASE q.waiters # <<>>
    <3>1. Head(q.waiters) \in Threads
      BY <2>1, <2>3
    <3>2. Woken(q, id) = {Head(q.waiters)}
      BY <1>2, <2>3 DEF Woken
    <3> QED
      BY <1>2, <2>3, <3>1, <3>2, NotifyFields
  <2> QED
    BY <2>2, <2>3
<1> QED
  BY <1>1, <1>2

(* Notifying a single poll, as poll_add and poll_update do. *)
LEMMA NotifyOneWakes ==
  ASSUME NEW ps \in [Polls -> PollState], NEW p \in Polls, NEW q \in PollState,
         q.waiters = ps[p].waiters, NEW id, NEW ev \in SUBSET Readiness
  PROVE  LET ps2 == [ps EXCEPT ![p] = IF ev = {} THEN q ELSE Notify(q, id, ev)]
             W   == IF ev = {} THEN {} ELSE Woken(q, id)
         IN  /\ ps2 \in [Polls -> PollState]
             /\ W \in SUBSET Threads
             /\ Wakes(W, ps, ps2)
<1> DEFINE q2  == IF ev = {} THEN q ELSE Notify(q, id, ev)
           ps2 == [ps EXCEPT ![p] = q2]
           W   == IF ev = {} THEN {} ELSE Woken(q, id)
<1>1. /\ q2 \in PollState
      /\ W \in SUBSET Threads
      /\ \/ W = {} /\ q2.waiters = q.waiters
         \/ q.waiters # <<>> /\ W = {Head(q.waiters)} /\ q2.waiters = Tail(q.waiters)
  <2>1. CASE ev = {}
    BY <2>1
  <2>2. CASE ev # {}
    <3>1. q2 = Notify(q, id, ev) /\ W = Woken(q, id)
      BY <2>2
    <3> HIDE DEF q2, W
    <3> QED
      BY <3>1, NotifyWakes
  <2> QED
    BY <2>1, <2>2
<1> HIDE DEF q2, W
<1>2. ps2 \in [Polls -> PollState] /\ ps2[p] = q2 /\ \A r \in Polls \ {p} : ps2[r] = ps[r]
  BY <1>1
<1> HIDE DEF ps2
<1>3. Wakes(W, ps, ps2)
  BY <1>1, <1>2 DEF Wakes
<1> QED
  BY <1>1, <1>2, <1>3 DEF ps2, q2, W

(* EmitterInner::notify_all. *)
LEMMA NotifyAllWakes ==
  ASSUME NEW ps \in [Polls -> PollState], NEW ls \in [Polls -> Listener],
         NEW l \in SUBSET Readiness
  PROVE  /\ NotifyAll(ls, l, ps) \in [Polls -> PollState]
         /\ \A p \in Polls : NotifyAll(ls, l, ps)[p].objects = ps[p].objects
         /\ WokenBy(ls, l, ps) \in SUBSET Threads
         /\ Wakes(WokenBy(ls, l, ps), ps, NotifyAll(ls, l, ps))
<1> DEFINE W == WokenBy(ls, l, ps)
           N == NotifyAll(ls, l, ps)
           ev(p) == ls[p].interests \cap l
<1>1. ASSUME NEW p \in Polls
      PROVE  /\ ps[p] \in PollState
             /\ ev(p) \in SUBSET Readiness
             /\ ev(p) = {} => N[p] = ps[p]
             /\ ev(p) # {} => N[p] = Notify(ps[p], ls[p].id, ev(p))
  BY DEF NotifyAll, Listener
<1>2. \A t : t \in W <=> \E p \in Polls : ev(p) # {} /\ t \in Woken(ps[p], ls[p].id)
  BY DEF WokenBy
<1> HIDE DEF N, W, ev
<1>3. ASSUME NEW p \in Polls, ev(p) # {}
      PROVE  /\ N[p] \in PollState
             /\ N[p].objects = ps[p].objects
             /\ Woken(ps[p], ls[p].id) \subseteq Threads
             /\ \/ /\ Woken(ps[p], ls[p].id) = {}
                   /\ N[p].waiters = ps[p].waiters
                \/ /\ ps[p].waiters # <<>>
                   /\ Woken(ps[p], ls[p].id) = {Head(ps[p].waiters)}
                   /\ N[p].waiters = Tail(ps[p].waiters)
  <2>1. /\ ps[p] \in PollState
        /\ ev(p) \in SUBSET Readiness
        /\ N[p] = Notify(ps[p], ls[p].id, ev(p))
    BY <1>1, <1>3
  <2> QED
    BY <2>1, NotifyWakes
<1>4. ASSUME NEW p \in Polls
      PROVE  N[p] \in PollState /\ N[p].objects = ps[p].objects
  BY <1>1, <1>3
<1>5. ASSUME NEW p \in Polls
      PROVE  \/ N[p].waiters = ps[p].waiters
             \/ /\ ps[p].waiters # <<>>
                /\ N[p].waiters = Tail(ps[p].waiters)
                /\ Head(ps[p].waiters) \in W
  BY <1>1, <1>2, <1>3
<1>6. ASSUME NEW t \in W
      PROVE  \E p \in Polls : /\ ps[p].waiters # <<>>
                              /\ N[p].waiters = Tail(ps[p].waiters)
                              /\ t = Head(ps[p].waiters)
  <2>1. PICK p \in Polls : ev(p) # {} /\ t \in Woken(ps[p], ls[p].id)
    BY <1>2
  <2>2. /\ ps[p].waiters # <<>>
        /\ N[p].waiters = Tail(ps[p].waiters)
        /\ t = Head(ps[p].waiters)
    BY <1>3, <2>1
  <2> QED
    BY <2>2
<1>7. N \in [Polls -> PollState]
  BY <1>4 DEF N, NotifyAll
<1>8. W \in SUBSET Threads
  BY <1>2, <1>3
<1>9. Wakes(W, ps, N)
  BY <1>5, <1>6 DEF Wakes
<1> QED
  BY <1>4, <1>7, <1>8, <1>9 DEF N, W

(* Thread::unblock on the threads of W. *)
LEMMA UnblockQueues ==
  ASSUME NEW W \in SUBSET Threads, NEW rq \in Seq(Threads), NEW held, NEW d \in Halts,
         halted \in Halts, Unblock(W, rq, held, d)
  PROVE  /\ runqueue' \in Seq(Threads)
         /\ halted' \in Halts
         /\ \A t : InSeq(t, runqueue') <=> InSeq(t, rq) \/ t \in W
         /\ NoDuplicates(rq) /\ (\A t \in W : ~InSeq(t, rq)) => NoDuplicates(runqueue')
<1>1. PICK order \in Orders(W) : runqueue' = rq \o order
  BY DEF Unblock
<1>2. /\ order \in Seq(Threads)
      /\ NoDuplicates(order)
      /\ \A x : InSeq(x, order) <=> x \in W
  BY OrdersList, PollAssumption
<1>3. halted' \in Halts
  BY DEF Unblock, Halts
<1>4. ASSUME NoDuplicates(rq), \A t \in W : ~InSeq(t, rq)
      PROVE  NoDuplicates(runqueue')
  BY <1>1, <1>2, <1>4, ConcatNoDuplicates
<1> QED
  BY <1>1, <1>2, <1>3, <1>4, ConcatHolds

(* What a handler that wakes the threads of W does to the queues, rq being *)
(* the run queue before it; held are the threads whose lock it holds.      *)
WakeStep(W, rq, held) ==
  /\ polls' \in [Polls -> PollState]
  /\ runqueue' \in Seq(Threads)
  /\ halted' \in Halts
  /\ W \in SUBSET Threads
  /\ Wakes(W, polls, polls')
  /\ \A t : InSeq(t, runqueue') <=> InSeq(t, rq) \/ t \in W
  /\ NoDuplicates(rq) /\ (\A t \in W : ~InSeq(t, rq)) => NoDuplicates(runqueue')
  /\ W \cap held = {} => halted' \notin {"ScheduleDeadlock", "ExitDeadlock"}

(* A handler that wakes nobody. *)
LEMMA NoWake ==
  ASSUME TypeOK, polls' \in [Polls -> PollState],
         \A p \in Polls : polls'[p].waiters = polls[p].waiters,
         runqueue' \in Seq(Threads),
         halted' \in Halts \ {"ScheduleDeadlock", "ExitDeadlock"}
  PROVE  WakeStep({}, runqueue', {})
BY DEF WakeStep, Wakes

LEMMA UnblockWakes ==
  ASSUME TypeOK, halted = "No", NEW W \in SUBSET Threads, NEW rq \in Seq(Threads),
         NEW held, NEW d \in Halts, Unblock(W, rq, held, d),
         polls' \in [Polls -> PollState], Wakes(W, polls, polls')
  PROVE  WakeStep(W, rq, held)
<1>1. halted \in Halts
  BY DEF TypeOK
<1>2. W \cap held = {} => halted' \notin {"ScheduleDeadlock", "ExitDeadlock"}
  BY DEF Unblock
<1> QED
  BY <1>1, <1>2, UnblockQueues DEF WakeStep

(* PollEmitter::set and clear. *)
LEMMA EmitWakes ==
  ASSUME TypeOK, halted = "No", NEW o \in Objects, NEW l \in SUBSET Readiness,
         NEW held, NEW d \in Halts, Emit(o, l, held, d)
  PROVE  /\ latest' \in [Objects -> SUBSET Readiness]
         /\ WakeStep(WokenBy(listeners[o], l, polls), runqueue, held)
<1>1. /\ listeners[o] \in [Polls -> Listener]
      /\ polls \in [Polls -> PollState]
      /\ runqueue \in Seq(Threads)
      /\ latest \in [Objects -> SUBSET Readiness]
  BY DEF TypeOK
<1>2. /\ polls' = NotifyAll(listeners[o], l, polls)
      /\ Unblock(WokenBy(listeners[o], l, polls), runqueue, held, d)
      /\ latest' = [latest EXCEPT ![o] = l]
  BY DEF Emit
<1>3. /\ polls' \in [Polls -> PollState]
      /\ WokenBy(listeners[o], l, polls) \in SUBSET Threads
      /\ Wakes(WokenBy(listeners[o], l, polls), polls, polls')
  BY <1>1, <1>2, NotifyAllWakes
<1> QED
  BY <1>1, <1>2, <1>3, UnblockWakes

(* Poll::try_wait with an event, whatever it does to the emitter. *)
LEMMA TryWaitWakes ==
  ASSUME TypeOK, halted = "No", NEW t \in Threads, NEW p \in Polls,
         NEW i \in LiveAt(polls[p]), NEW rq \in Seq(Threads), NEW held,
         TryWaitReady(t, p, i, rq, held)
  PROVE  /\ latest' \in [Objects -> SUBSET Readiness]
         /\ event' \in PollEvent
         /\ \E W : WakeStep(W, rq, held)
<1> DEFINE q  == polls[p]
           id == q.ready_queue[i]
           r  == q.ready[id]
           o  == Object[id]
           l  == latest[o] \ r
           ps == [polls EXCEPT ![p] = PopReady(q, i)]
<1>1. /\ q \in PollState
      /\ polls \in [Polls -> PollState]
      /\ latest \in [Objects -> SUBSET Readiness]
      /\ listeners \in [Objects -> [Polls -> Listener]]
  BY DEF TypeOK
<1>2. /\ PopReady(q, i) \in PollState
      /\ PopReady(q, i).waiters = q.waiters
      /\ id \in Ids
  BY <1>1, PopReadyFields
<1>3. r \in SUBSET Readiness
  BY <1>1, <1>2 DEF PollState
<1>4. o \in Objects
  BY <1>2, PollAssumption
<1>5. /\ ps \in [Polls -> PollState]
      /\ \A x \in Polls : ps[x].waiters = polls[x].waiters
  BY <1>1, <1>2
<1>6. event' = [thread |-> t, poll |-> p, id |-> id, readiness |-> r]
  BY DEF TryWaitReady
<1>7. event' \in PollEvent
  BY <1>2, <1>3, <1>6 DEF PollEvent
<1>8. CASE r = {} \/ o \notin EdgeTriggered
  <2>1. /\ latest' = latest
        /\ polls' = ps
        /\ runqueue' = rq
        /\ halted' \in {"No", "EmptyEvent"}
    BY <1>8 DEF TryWaitReady
  <2> HIDE DEF ps
  <2>2. WakeStep({}, runqueue', {})
    BY <1>5, <2>1, NoWake DEF Halts
  <2>3. WakeStep({}, rq, held)
    BY <2>1, <2>2 DEF WakeStep
  <2> QED
    BY <1>1, <1>7, <2>1, <2>3
<1>9. CASE r # {} /\ o \in EdgeTriggered
  <2> DEFINE W == WokenBy(listeners[o], l, ps)
  <2>1. /\ latest' = [latest EXCEPT ![o] = l]
        /\ polls' = NotifyAll(listeners[o], l, ps)
        /\ Unblock(W, rq, held, "ScheduleDeadlock")
    BY <1>9 DEF TryWaitReady
  <2>2. l \in SUBSET Readiness /\ listeners[o] \in [Polls -> Listener]
    BY <1>1, <1>4
  <2> HIDE DEF ps, l, o
  <2>3. /\ polls' \in [Polls -> PollState]
        /\ W \in SUBSET Threads
        /\ Wakes(W, ps, polls')
    BY <1>5, <2>1, <2>2, NotifyAllWakes
  <2>4. Wakes(W, polls, polls')
    BY <1>5, <2>3 DEF Wakes
  <2> HIDE DEF W
  <2>5. WakeStep(W, rq, held)
    BY <2>1, <2>3, <2>4, UnblockWakes DEF Halts
  <2>6. latest' \in [Objects -> SUBSET Readiness]
    BY <1>1, <1>4, <2>1, <2>2
  <2> QED
    BY <1>7, <2>5, <2>6
<1> QED
  BY <1>8, <1>9

LEMMA StoreListenerType ==
  ASSUME TypeOK, NEW o \in Objects, NEW p \in Polls, NEW lis \in Listener
  PROVE  StoreListener(o, p, lis) \in [Objects -> [Polls -> Listener]]
<1>1. listeners \in [Objects -> [Polls -> Listener]]
  BY DEF TypeOK
<1>2. [listeners[o] EXCEPT ![p] = lis] \in [Polls -> Listener]
  BY <1>1
<1> QED
  BY <1>1, <1>2 DEF StoreListener

LEMMA PollAddWakes ==
  ASSUME TypeOK, NEW t \in Threads, NEW p \in Polls, NEW id \in Ids, NEW m \in Masks,
         PollAdd(t, p, id, m)
  PROVE  /\ listeners' \in [Objects -> [Polls -> Listener]]
         /\ \E W : WakeStep(W, runqueue, {})
<1> DEFINE o  == Object[id]
           ev == m \cap latest[o]
           q  == Register(polls[p], id)
           W  == IF ev = {} THEN {} ELSE Woken(q, id)
<1>1. /\ o \in Objects
      /\ m \in SUBSET Readiness
      /\ ev \in SUBSET Readiness
  BY PollAssumption
<1>2. /\ polls \in [Polls -> PollState]
      /\ runqueue \in Seq(Threads)
  BY DEF TypeOK
<1>3. /\ q \in PollState
      /\ q.waiters = polls[p].waiters
  BY <1>2, RegisterFields
<1>4. /\ halted = "No"
      /\ polls' = [polls EXCEPT ![p] = IF ev = {} THEN q ELSE Notify(q, id, ev)]
      /\ Unblock(W, runqueue, {}, "No")
      /\ listeners' = StoreListener(o, p, [id |-> id, interests |-> m])
  BY DEF PollAdd, Syscall
<1>5. [id |-> id, interests |-> m] \in Listener
  BY <1>1 DEF Listener
<1> HIDE DEF ev, q, o
<1>6. /\ polls' \in [Polls -> PollState]
      /\ W \in SUBSET Threads
      /\ Wakes(W, polls, polls')
  BY <1>1, <1>2, <1>3, <1>4, NotifyOneWakes
<1> HIDE DEF W
<1>7. WakeStep(W, runqueue, {})
  BY <1>2, <1>4, <1>6, UnblockWakes DEF Halts
<1>8. listeners' \in [Objects -> [Polls -> Listener]]
  BY <1>1, <1>4, <1>5, StoreListenerType
<1> QED
  BY <1>7, <1>8

LEMMA PollUpdateWakes ==
  ASSUME TypeOK, NEW t \in Threads, NEW p \in Polls, NEW id \in Ids,
         NEW or_mask \in SUBSET Readiness, NEW and_mask \in SUBSET Readiness,
         PollUpdate(t, p, id, or_mask, and_mask)
  PROVE  /\ listeners' \in [Objects -> [Polls -> Listener]]
         /\ \E W : WakeStep(W, runqueue, {})
<1> DEFINE o   == Object[id]
           lis == listeners[o][p]
           new == UpdateListener(lis, or_mask, and_mask)
           ev  == new.interests \cap latest[o]
           W   == IF ev = {} THEN {} ELSE Woken(polls[p], new.id)
<1>1. /\ polls \in [Polls -> PollState]
      /\ runqueue \in Seq(Threads)
      /\ listeners \in [Objects -> [Polls -> Listener]]
  BY DEF TypeOK
<1>2. o \in Objects
  BY PollAssumption
<1>3. new \in Listener
  <2>1. lis \in Listener
    BY <1>1, <1>2
  <2> QED
    BY <2>1 DEF Listener, UpdateListener
<1>4. ev \in SUBSET Readiness
  BY <1>3 DEF Listener
<1>5. /\ halted = "No"
      /\ polls' = [polls EXCEPT ![p] = IF ev = {} THEN polls[p]
                                       ELSE Notify(polls[p], new.id, ev)]
      /\ Unblock(W, runqueue, {}, "No")
      /\ listeners' = StoreListener(o, p, new)
  BY <1>1 DEF PollUpdate, Syscall
<1> HIDE DEF ev, new, o
<1>6. /\ polls' \in [Polls -> PollState]
      /\ W \in SUBSET Threads
      /\ Wakes(W, polls, polls')
  BY <1>1, <1>4, <1>5, NotifyOneWakes
<1> HIDE DEF W
<1>7. WakeStep(W, runqueue, {})
  BY <1>1, <1>5, <1>6, UnblockWakes DEF Halts
<1>8. listeners' \in [Objects -> [Polls -> Listener]]
  BY <1>2, <1>3, <1>5, StoreListenerType
<1> QED
  BY <1>7, <1>8

-----------------------------------------------------------------------------
(* Type correctness                                                        *)

(* TypeOK is not inductive by itself: schedule() polls the promise of a    *)
(* Blocked thread, which has to name a poll.                               *)
TypeInv ==
  /\ TypeOK
  /\ \A t \in Threads : state[t] = "Blocked" => promise[t] \in Polls

LEMMA TypeInit == Init => TypeInv
<1> SUFFICES ASSUME Init PROVE TypeInv
  OBVIOUS
<1>1. runqueue \in Seq(Threads)
  BY OrdersList, PollAssumption DEF Init
<1>2. NewPoll \in PollState
  <2>1. <<>> \in Seq(Ids) /\ <<>> \in Seq(Threads)
    OBVIOUS
  <2> QED
    BY <2>1 DEF NewPoll, PollState
<1>3. NoListener \in Listener
  BY DEF NoListener, Listener
<1>4. \A o : InitialReadiness(o) \in SUBSET Readiness
  BY DEF InitialReadiness, Readiness
<1>5. state \in [Threads -> {"Runnable", "Unborn"}]
  BY DEF Init
<1> QED
  BY <1>1, <1>2, <1>3, <1>4, <1>5, PollAssumption
  DEF Init, TypeInv, TypeOK, ThreadState, Halts

LEMMA TypeStep == TypeInv /\ [Next]_vars => TypeInv'
<1> SUFFICES ASSUME TypeInv, [Next]_vars PROVE TypeInv'
  OBVIOUS
<1> USE DEF TypeInv
<1>1. ASSUME NEW t \in Threads, NEW p \in Polls, NEW id \in Ids, NEW m \in Masks,
             PollAdd(t, p, id, m)
      PROVE  TypeInv'
  <2>1. PICK W : WakeStep(W, runqueue, {})
    BY <1>1, PollAddWakes
  <2>2. listeners' \in [Objects -> [Polls -> Listener]]
    BY <1>1, PollAddWakes
  <2> QED
    BY <1>1, <2>1, <2>2 DEF PollAdd, Return, TypeOK, WakeStep
<1>2. ASSUME NEW t \in Threads, NEW p \in Polls, NEW id \in Ids,
             NEW a \in SUBSET Readiness, NEW b \in SUBSET Readiness,
             PollUpdate(t, p, id, a, b)
      PROVE  TypeInv'
  <2>1. PICK W : WakeStep(W, runqueue, {})
    BY <1>2, PollUpdateWakes
  <2>2. listeners' \in [Objects -> [Polls -> Listener]]
    BY <1>2, PollUpdateWakes
  <2> QED
    BY <1>2, <2>1, <2>2 DEF PollUpdate, Return, TypeOK, WakeStep
<1>3. ASSUME NEW t \in Threads, NEW p \in Polls, NEW id \in Ids, PollRemove(t, p, id)
      PROVE  TypeInv'
  <2>1. Unregister(polls[p], id) \in PollState
    BY UnregisterFields DEF TypeOK
  <2>2. polls' \in [Polls -> PollState]
    BY <1>3, <2>1 DEF PollRemove, TypeOK
  <2>3. NoListener \in Listener /\ Object[id] \in Objects
    BY PollAssumption DEF NoListener, Listener
  <2>4. listeners' \in [Objects -> [Polls -> Listener]]
    BY <1>3, <2>3, StoreListenerType DEF PollRemove, RemoveListener
  <2> QED
    BY <1>3, <2>2, <2>4 DEF PollRemove, Return, TypeOK
<1>4. ASSUME NEW t \in Threads, NEW p \in Polls, PollWaitReturn(t, p)
      PROVE  TypeInv'
  <2>1. PICK i \in LiveAt(polls[p]) : TryWaitReady(t, p, i, runqueue, {})
    BY <1>4 DEF PollWaitReturn
  <2>2. /\ latest' \in [Objects -> SUBSET Readiness]
        /\ event' \in PollEvent
        /\ \E W : WakeStep(W, runqueue, {})
    BY <1>4, <2>1, TryWaitWakes DEF PollWaitReturn, Syscall, TypeOK
  <2> QED
    BY <1>4, <2>2 DEF PollWaitReturn, Return, TypeOK, WakeStep
<1>5. ASSUME NEW t \in Threads, NEW p \in Polls, PollWaitBlock(t, p)
      PROVE  TypeInv'
  <2>1. JoinWaiters(DropStale(polls[p]), t) \in PollState
    BY DropStaleFields, JoinWaitersFields DEF TypeOK
  <2>2. polls' \in [Polls -> PollState]
    BY <1>5, <2>1 DEF PollWaitBlock, TypeOK
  <2> QED
    BY <1>5, <2>2 DEF PollWaitBlock, TypeOK, ThreadState
<1>6. ASSUME NEW t \in Threads, NEW id \in Ids, ThreadSpawn(t, id)
      PROVE  TypeInv'
  <2>1. Push(Object[id]) \in Seq(Threads)
    BY <1>6 DEF ThreadSpawn, Push, TypeOK
  <2> QED
    BY <1>6, <2>1 DEF ThreadSpawn, Return, TypeOK, ThreadState
<1>7. ASSUME NEW t \in Threads, ThreadExit(t)
      PROVE  TypeInv'
  <2>1. /\ t \in Objects
        /\ latest[t] \cup {"PEER_CLOSED"} \in SUBSET Readiness
        /\ "ExitDeadlock" \in Halts
    BY DEF Objects, TypeOK, Readiness, Halts
  <2>2. /\ latest' \in [Objects -> SUBSET Readiness]
        /\ \E W : WakeStep(W, runqueue, {t})
    BY <1>7, <2>1, EmitWakes DEF ThreadExit, Syscall
  <2> QED
    BY <1>7, <2>2 DEF ThreadExit, TypeOK, WakeStep, ThreadState
<1>8. ASSUME NEW t \in Threads, NEW id \in Ids, ThreadClose(t, id)
      PROVE  TypeInv'
  <2> DEFINE c == Object[id]
  <2>1. /\ c \in Objects
        /\ c \in Threads
        /\ latest[c] \cup {"PEER_CLOSED"} \in SUBSET Readiness
        /\ "CloseDeadlock" \in Halts
    BY <1>8 DEF ThreadClose, Objects, TypeOK, Readiness, Halts
  <2>2. /\ latest' \in [Objects -> SUBSET Readiness]
        /\ \E W : WakeStep(W, runqueue, {c})
    BY <1>8, <2>1, EmitWakes DEF ThreadClose, Syscall
  <2> QED
    BY <1>8, <2>1, <2>2 DEF ThreadClose, TypeOK, WakeStep, ThreadState
<1>9. ASSUME NEW t \in Threads, NEW id \in Ids, HandleClose(t, id)
      PROVE  TypeInv'
  BY <1>9 DEF HandleClose, Return, TypeOK
<1>10. ASSUME NEW t \in Threads, NEW o \in Sources, NEW bit \in Readiness,
              SourceSet(t, o, bit) \/ SourceClear(t, o, bit)
       PROVE  TypeInv'
  <2>1. /\ o \in Objects
        /\ latest[o] \cup {bit} \in SUBSET Readiness
        /\ latest[o] \ {bit} \in SUBSET Readiness
        /\ "No" \in Halts
    BY DEF Objects, TypeOK, Halts
  <2>2. /\ latest' \in [Objects -> SUBSET Readiness]
        /\ \E W : WakeStep(W, runqueue, {})
    BY <1>10, <2>1, EmitWakes DEF SourceSet, SourceClear, Syscall
  <2> QED
    BY <1>10, <2>2 DEF SourceSet, SourceClear, Return, TypeOK, WakeStep
<1>11. ASSUME NEW o \in Timers \cup Irqs, Interrupt(o) \/ TimerFire(o)
       PROVE  TypeInv'
  <2>1. /\ o \in Objects
        /\ latest[o] \cup {"READABLE"} \in SUBSET Readiness
        /\ "No" \in Halts
    BY DEF Objects, Sources, TypeOK, Readiness, Halts
  <2>2. /\ latest' \in [Objects -> SUBSET Readiness]
        /\ \E W : WakeStep(W, runqueue, {})
    BY <1>11, <2>1, EmitWakes DEF Interrupt, TimerFire
  <2> QED
    BY <1>11, <2>2 DEF Interrupt, TimerFire, TypeOK, WakeStep
<1>12. ASSUME NEW t \in Threads, Schedule(t)
       PROVE  PopNext \in Seq(Threads)
  BY <1>12 DEF Schedule, PopNext, TypeOK
<1>13. ASSUME NEW t \in Threads, ScheduleRunnable(t)
       PROVE  TypeInv'
  BY <1>12, <1>13 DEF ScheduleRunnable, SwitchTo, TypeOK
<1>14. ASSUME NEW t \in Threads, SchedulePollReady(t)
       PROVE  TypeInv'
  <2>1. promise[t] \in Polls
    BY <1>14 DEF SchedulePollReady
  <2>2. PICK i \in LiveAt(polls[promise[t]]) :
          TryWaitReady(t, promise[t], i, PopNext, {t})
    BY <1>14 DEF SchedulePollReady
  <2>3. /\ latest' \in [Objects -> SUBSET Readiness]
        /\ event' \in PollEvent
        /\ \E W : WakeStep(W, PopNext, {t})
    BY <1>12, <1>14, <2>1, <2>2, TryWaitWakes DEF SchedulePollReady, Schedule
  <2> QED
    BY <1>14, <2>3 DEF SchedulePollReady, SwitchTo, TypeOK, WakeStep, ThreadState
<1>15. ASSUME NEW t \in Threads, SchedulePollNone(t)
       PROVE  TypeInv'
  <2>1. promise[t] \in Polls
    BY <1>15 DEF SchedulePollNone
  <2>2. DropStale(polls[promise[t]]) \in PollState
    BY <2>1, DropStaleFields DEF TypeOK
  <2>3. polls' \in [Polls -> PollState]
    BY <1>15, <2>1, <2>2 DEF SchedulePollNone, TypeOK
  <2> QED
    BY <1>12, <1>15, <2>3 DEF SchedulePollNone, TypeOK
<1>16. ASSUME NEW t \in Threads, ScheduleDestroyed(t)
       PROVE  TypeInv'
  BY <1>12, <1>16 DEF ScheduleDestroyed, TypeOK
<1>17. CASE ScheduleIdle
  BY <1>17 DEF ScheduleIdle, TypeOK
<1>18. CASE UNCHANGED vars
  BY <1>18 DEF vars, TypeOK
<1>19. ASSUME NEW t \in Threads, PollSyscall(t)
       PROVE  TypeInv'
  <2>1. \A m \in Masks : m \in SUBSET Readiness /\ Readiness \ m \in SUBSET Readiness
    BY PollAssumption
  <2>2. {} \in SUBSET Readiness /\ Readiness \in SUBSET Readiness
    OBVIOUS
  <2> HIDE DEF TypeInv
  <2> QED
    BY <1>1, <1>2, <1>3, <1>4, <1>5, <1>19, <2>1, <2>2 DEF PollSyscall
<1>20. ASSUME NEW t \in Threads, ThreadSyscall(t)
       PROVE  TypeInv'
  BY <1>6, <1>7, <1>8, <1>9, <1>20 DEF ThreadSyscall
<1>21. ASSUME NEW t \in Threads, SourceSyscall(t)
       PROVE  TypeInv'
  BY <1>10, <1>21 DEF SourceSyscall, Sources, Readiness
<1>22. CASE ScheduleStep
  BY <1>13, <1>14, <1>15, <1>16, <1>17, <1>22 DEF ScheduleStep
<1> QED
  BY <1>11, <1>18, <1>19, <1>20, <1>21, <1>22 DEF Next

(* Every variable keeps its type, and in user mode there is a thread to    *)
(* run: return_to_user never resumes the idle thread.                      *)
THEOREM PollTypeCorrect == Spec => []TypeOK
<1>1. Init => TypeInv
  BY TypeInit
<1>2. TypeInv /\ [Next]_vars => TypeInv'
  BY TypeStep
<1>3. TypeInv => TypeOK
  BY DEF TypeInv
<1> QED
  BY <1>1, <1>2, <1>3, PTL DEF Spec

-----------------------------------------------------------------------------
(* Threads and queues                                                      *)

(* The four invariants hold each other up: a waiter is in no other queue,  *)
(* so waking it cannot duplicate it; a thread that runs or is being        *)
(* scheduled waits nowhere, so a lock held for it is not taken again.      *)
ThreadInv ==
  /\ TypeInv
  /\ OnePlace
  /\ QueuedStates
  /\ RunnableScheduled
  /\ NoSelfDeadlock

(* Where the threads are after a handler that woke the threads of W: those *)
(* have moved from the waiters queues to the run queue.                    *)
LEMMA WakeMoves ==
  ASSUME ThreadInv, NEW W, NEW rq, NEW held, WakeStep(W, rq, held),
         NoDuplicates(rq),
         \A t \in Threads, p \in Polls : InSeq(t, rq) => ~Waiting(t, p)
  PROVE  /\ NoDuplicates(runqueue')
         /\ \A p \in Polls : NoDuplicates(polls'[p].waiters)
         /\ \A t \in Threads : InSeq(t, runqueue') <=> InSeq(t, rq) \/ t \in W
         /\ \A t \in Threads, p \in Polls :
              InSeq(t, polls'[p].waiters) <=> Waiting(t, p) /\ t \notin W
         /\ \A t \in W : t \in Threads /\ \E p \in Polls : Waiting(t, p)
<1>1. ASSUME NEW p \in Polls
      PROVE  polls[p].waiters \in Seq(Threads) /\ NoDuplicates(polls[p].waiters)
  BY DEF ThreadInv, TypeInv, TypeOK, PollState, OnePlace
<1>2. /\ W \in SUBSET Threads
      /\ Wakes(W, polls, polls')
      /\ \A t : InSeq(t, runqueue') <=> InSeq(t, rq) \/ t \in W
      /\ NoDuplicates(rq) /\ (\A t \in W : ~InSeq(t, rq)) => NoDuplicates(runqueue')
  BY DEF WakeStep
<1>3. ASSUME NEW t \in W
      PROVE  \E p \in Polls : /\ polls[p].waiters # <<>>
                              /\ polls'[p].waiters = Tail(polls[p].waiters)
                              /\ t = Head(polls[p].waiters)
                              /\ Waiting(t, p)
  <2>1. PICK p \in Polls : /\ polls[p].waiters # <<>>
                           /\ polls'[p].waiters = Tail(polls[p].waiters)
                           /\ t = Head(polls[p].waiters)
    BY <1>2 DEF Wakes
  <2>2. InSeq(t, polls[p].waiters)
    BY <1>1, <2>1, TailHolds
  <2> QED
    BY <2>1, <2>2 DEF Waiting
<1>4. ASSUME NEW p \in Polls
      PROVE  /\ NoDuplicates(polls'[p].waiters)
             /\ \A t \in Threads : InSeq(t, polls'[p].waiters) => Waiting(t, p)
             /\ \A t \in Threads : Waiting(t, p) /\ t \notin W => InSeq(t, polls'[p].waiters)
  <2>1. CASE polls'[p].waiters = polls[p].waiters
    BY <1>1, <2>1 DEF Waiting
  <2>2. CASE /\ polls[p].waiters # <<>>
             /\ polls'[p].waiters = Tail(polls[p].waiters)
             /\ Head(polls[p].waiters) \in W
    BY <1>1, <2>2, TailHolds DEF Waiting
  <2> QED
    BY <1>2, <2>1, <2>2 DEF Wakes
<1>5. ASSUME NEW t \in W, NEW p \in Polls
      PROVE  ~InSeq(t, polls'[p].waiters)
  <2>1. PICK r \in Polls : /\ polls[r].waiters # <<>>
                           /\ polls'[r].waiters = Tail(polls[r].waiters)
                           /\ t = Head(polls[r].waiters)
                           /\ Waiting(t, r)
    BY <1>3
  <2>2. ~InSeq(t, polls'[r].waiters)
    BY <1>1, <2>1, TailHolds
  <2>3. Waiting(t, p) => p = r
    BY <1>2, <2>1 DEF ThreadInv, OnePlace
  <2> QED
    BY <1>2, <1>4, <2>2, <2>3
<1>6. NoDuplicates(runqueue')
  BY <1>2, <1>3
<1> QED
  BY <1>2, <1>3, <1>4, <1>5, <1>6

(* A handler that may wake threads, but leaves the state of every thread,  *)
(* and the one that runs, as it is.                                        *)
LEMMA QuietStep ==
  ASSUME ThreadInv, NEW W, WakeStep(W, runqueue, {}),
         state' = state, promise' = promise,
         \A t \in Threads : (mode' = "user" /\ current' = t) <=> OnCpu(t)
  PROVE  OnePlace' /\ QueuedStates' /\ RunnableScheduled' /\ NoSelfDeadlock'
<1>1. /\ NoDuplicates(runqueue)
      /\ \A t \in Threads, p \in Polls : Queued(t) => ~Waiting(t, p)
      /\ \A t \in Threads : OnCpu(t) => ~Queued(t) /\ \A p \in Polls : ~Waiting(t, p)
      /\ \A t \in Threads, p, q \in Polls : Waiting(t, p) /\ Waiting(t, q) => p = q
  BY DEF ThreadInv, OnePlace
<1>2. /\ NoDuplicates(runqueue')
      /\ \A p \in Polls : NoDuplicates(polls'[p].waiters)
      /\ \A t \in Threads : InSeq(t, runqueue') <=> Queued(t) \/ t \in W
      /\ \A t \in Threads, p \in Polls :
           InSeq(t, polls'[p].waiters) <=> Waiting(t, p) /\ t \notin W
      /\ \A t \in W : t \in Threads /\ \E p \in Polls : Waiting(t, p)
  BY <1>1, WakeMoves DEF Queued
<1>3. OnePlace'
  BY <1>1, <1>2 DEF OnePlace, Queued, Waiting, OnCpu
<1>4. QueuedStates'
  BY <1>2 DEF ThreadInv, QueuedStates, Queued, Waiting
<1>5. RunnableScheduled'
  BY <1>2 DEF ThreadInv, RunnableScheduled, Queued, OnCpu
<1>6. NoSelfDeadlock'
  BY DEF WakeStep, NoSelfDeadlock
<1> QED
  BY <1>3, <1>4, <1>5, <1>6

LEMMA ThreadInit == Init => ThreadInv
<1> SUFFICES ASSUME Init PROVE ThreadInv
  OBVIOUS
<1>1. TypeInv
  BY TypeInit
<1>2. /\ NoDuplicates(runqueue)
      /\ \A t : Queued(t) <=> t \in BootThreads
  BY OrdersList, PollAssumption DEF Init, Queued
<1>3. ASSUME NEW p \in Polls
      PROVE  NoDuplicates(polls[p].waiters) /\ \A t : ~Waiting(t, p)
  <2>1. polls[p].waiters = <<>>
    BY DEF Init, NewPoll
  <2> QED
    BY <2>1 DEF NoDuplicates, Waiting, InSeq
<1>4. OnePlace
  BY <1>2, <1>3 DEF Init, OnePlace, OnCpu
<1>5. QueuedStates
  BY <1>2, <1>3 DEF Init, QueuedStates
<1>6. RunnableScheduled
  BY <1>2 DEF Init, RunnableScheduled, OnCpu
<1>7. NoSelfDeadlock
  BY DEF Init, NoSelfDeadlock
<1> QED
  BY <1>1, <1>4, <1>5, <1>6, <1>7 DEF ThreadInv

(* A handler that leaves the queues and the threads alone. *)
LEMMA StillStep ==
  ASSUME ThreadInv, polls' \in [Polls -> PollState],
         \A p \in Polls : polls'[p].waiters = polls[p].waiters,
         UNCHANGED <<runqueue, state, promise, current, halted>>,
         mode' = mode \/ {mode, mode'} \subseteq {"sched", "idle"}
  PROVE  OnePlace' /\ QueuedStates' /\ RunnableScheduled' /\ NoSelfDeadlock'
<1>1. TypeOK
  BY DEF ThreadInv, TypeInv
<1>2. runqueue' \in Seq(Threads) /\ halted' \in Halts \ {"ScheduleDeadlock", "ExitDeadlock"}
  BY <1>1 DEF TypeOK, ThreadInv, NoSelfDeadlock
<1>3. WakeStep({}, runqueue', {})
  BY <1>1, <1>2, NoWake
<1>4. WakeStep({}, runqueue, {})
  BY <1>3 DEF WakeStep
<1> QED
  BY <1>4, QuietStep DEF OnCpu

(* The thread that schedule() pops leaves the run queue. *)
LEMMA PopNextMoves ==
  ASSUME ThreadInv, NEW t \in Threads, Schedule(t)
  PROVE  /\ PopNext \in Seq(Threads)
         /\ NoDuplicates(PopNext)
         /\ Queued(t)
         /\ \A u \in Threads : InSeq(u, PopNext) <=> Queued(u) /\ u # t
         /\ \A u \in Threads : ~OnCpu(u)
         /\ \A p \in Polls : ~Waiting(t, p)
<1>1. /\ runqueue \in Seq(Threads)
      /\ runqueue # <<>>
      /\ t = Head(runqueue)
      /\ NoDuplicates(runqueue)
  BY DEF ThreadInv, TypeInv, TypeOK, OnePlace, Schedule
<1>2. Queued(t)
  BY <1>1, TailHolds DEF Queued
<1> QED
  BY <1>1, <1>2, TailHolds DEF PopNext, Queued, Schedule, OnCpu, ThreadInv, OnePlace

(* A thread that ends: exit() and close() wake those who listen for it. *)
LEMMA EndStep ==
  ASSUME ThreadInv, NEW c \in Threads, NEW W, WakeStep(W, runqueue, {c}),
         NEW end \in {"Exited", "Destroyed"},
         state' = [state EXCEPT ![c] = end], UNCHANGED <<promise, current>>,
         mode' = IF OnCpu(c) THEN "sched" ELSE mode,
         end = "Exited" => OnCpu(c),
         halted' = "ScheduleDeadlock" \/ halted' = "ExitDeadlock" => end = "Exited"
  PROVE  OnePlace' /\ QueuedStates' /\ RunnableScheduled' /\ NoSelfDeadlock'
<1>1. /\ NoDuplicates(runqueue)
      /\ \A t \in Threads, p \in Polls : Queued(t) => ~Waiting(t, p)
      /\ \A t \in Threads : OnCpu(t) => ~Queued(t) /\ \A p \in Polls : ~Waiting(t, p)
      /\ \A t \in Threads, p, q \in Polls : Waiting(t, p) /\ Waiting(t, q) => p = q
  BY DEF ThreadInv, OnePlace
<1>2. /\ NoDuplicates(runqueue')
      /\ \A p \in Polls : NoDuplicates(polls'[p].waiters)
      /\ \A t \in Threads : InSeq(t, runqueue') <=> Queued(t) \/ t \in W
      /\ \A t \in Threads, p \in Polls :
           InSeq(t, polls'[p].waiters) <=> Waiting(t, p) /\ t \notin W
      /\ \A t \in W : t \in Threads /\ \E p \in Polls : Waiting(t, p)
  BY <1>1, WakeMoves DEF Queued
<1>3. \A t \in Threads : (mode' = "user" /\ current' = t) <=> OnCpu(t) /\ ~OnCpu(c)
  BY DEF OnCpu
<1>4. state \in [Threads -> ThreadState]
  BY DEF ThreadInv, TypeInv, TypeOK
<1>5. OnePlace'
  BY <1>1, <1>2, <1>3 DEF OnePlace, Queued, Waiting, OnCpu
<1>6. QueuedStates'
  BY <1>1, <1>2, <1>4 DEF ThreadInv, QueuedStates, Queued, Waiting
<1>7. RunnableScheduled'
  <2>1. \A t \in Threads : OnCpu(t) /\ OnCpu(c) => t = c
    BY DEF OnCpu
  <2> QED
    BY <1>2, <1>3, <1>4, <2>1 DEF ThreadInv, RunnableScheduled, Queued, OnCpu
<1>8. NoSelfDeadlock'
  BY <1>1, <1>2 DEF WakeStep, NoSelfDeadlock
<1> QED
  BY <1>5, <1>6, <1>7, <1>8

(* Poll::wait blocks the running thread in the waiters of one poll. *)
LEMMA BlockMoves ==
  ASSUME ThreadInv, NEW t \in Threads, NEW p \in Polls, PollWaitBlock(t, p)
  PROVE  /\ OnCpu(t) /\ ~Queued(t) /\ \A r \in Polls : ~Waiting(t, r)
         /\ runqueue' = runqueue
         /\ state' = [state EXCEPT ![t] = "Blocked"]
         /\ promise' = [promise EXCEPT ![t] = p]
         /\ \A r \in Polls \ {p} : polls'[r] = polls[r]
         /\ NoDuplicates(polls'[p].waiters)
         /\ \A u \in Threads, r \in Polls :
              InSeq(u, polls'[r].waiters) <=> (u = t /\ r = p) \/ Waiting(u, r)
<1>1. TypeOK /\ OnePlace
  BY DEF ThreadInv, TypeInv
<1>2. OnCpu(t) /\ ~Queued(t) /\ \A r \in Polls : ~Waiting(t, r)
  BY <1>1 DEF PollWaitBlock, Syscall, OnCpu, OnePlace
<1>3. /\ runqueue' = runqueue
      /\ state' = [state EXCEPT ![t] = "Blocked"]
      /\ promise' = [promise EXCEPT ![t] = p]
  BY DEF PollWaitBlock
<1>4. /\ polls[p] \in PollState
      /\ polls[p].waiters \in Seq(Threads)
      /\ NoDuplicates(polls[p].waiters)
  BY <1>1 DEF TypeOK, PollState, OnePlace
<1>5. polls'[p].waiters = Append(polls[p].waiters, t)
  <2>1. polls'[p] = JoinWaiters(DropStale(polls[p]), t)
    BY <1>1 DEF PollWaitBlock, TypeOK
  <2>2. /\ DropStale(polls[p]) \in PollState
        /\ DropStale(polls[p]).waiters = polls[p].waiters
    BY <1>4, DropStaleFields
  <2>3. JoinWaiters(DropStale(polls[p]), t).waiters = Append(DropStale(polls[p]).waiters, t)
    BY <2>2, JoinWaitersFields
  <2> QED
    BY <2>1, <2>2, <2>3
<1>6. \A r \in Polls \ {p} : polls'[r] = polls[r]
  BY <1>1 DEF PollWaitBlock, TypeOK
<1>7. /\ NoDuplicates(polls'[p].waiters)
      /\ \A u \in Threads : InSeq(u, polls'[p].waiters) <=> u = t \/ Waiting(u, p)
  BY <1>2, <1>4, <1>5, AppendHolds DEF Waiting
<1>8. \A u \in Threads, r \in Polls :
        InSeq(u, polls'[r].waiters) <=> (u = t /\ r = p) \/ Waiting(u, r)
  BY <1>6, <1>7 DEF Waiting
<1> QED
  BY <1>2, <1>3, <1>6, <1>7, <1>8

LEMMA BlockStep ==
  ASSUME ThreadInv, NEW t \in Threads, NEW p \in Polls, PollWaitBlock(t, p)
  PROVE  OnePlace' /\ QueuedStates' /\ RunnableScheduled' /\ NoSelfDeadlock'
<1>1. TypeOK /\ OnePlace /\ QueuedStates /\ RunnableScheduled /\ NoSelfDeadlock
  BY DEF ThreadInv, TypeInv
<1>2. OnCpu(t) /\ ~Queued(t) /\ \A r \in Polls : ~Waiting(t, r)
  BY BlockMoves
<1>3. /\ runqueue' = runqueue
      /\ state' = [state EXCEPT ![t] = "Blocked"]
      /\ promise' = [promise EXCEPT ![t] = p]
      /\ mode' = "sched"
      /\ halted' = halted
      /\ state \in [Threads -> ThreadState]
      /\ promise \in [Threads -> Polls \cup {NoPoll}]
  BY <1>1 DEF PollWaitBlock, TypeOK
<1>4. /\ \A r \in Polls \ {p} : polls'[r] = polls[r]
      /\ NoDuplicates(polls'[p].waiters)
      /\ \A u \in Threads, r \in Polls :
           InSeq(u, polls'[r].waiters) <=> (u = t /\ r = p) \/ Waiting(u, r)
  BY BlockMoves
<1>5. OnePlace'
  BY <1>1, <1>2, <1>3, <1>4 DEF OnePlace, Queued, Waiting, OnCpu
<1>6. QueuedStates'
  BY <1>1, <1>2, <1>3, <1>4 DEF QueuedStates, Queued, Waiting
<1>7. RunnableScheduled'
  BY <1>1, <1>2, <1>3 DEF RunnableScheduled, Queued, OnCpu
<1>8. NoSelfDeadlock'
  BY <1>1, <1>3 DEF NoSelfDeadlock
<1> QED
  BY <1>5, <1>6, <1>7, <1>8

(* schedule() switches to the thread it popped. *)
LEMMA SwitchStep ==
  ASSUME ThreadInv, NEW t \in Threads, Schedule(t), NEW W, WakeStep(W, PopNext, {t}),
         state' = [state EXCEPT ![t] = "Runnable"], promise' = promise, SwitchTo(t)
  PROVE  OnePlace' /\ QueuedStates' /\ RunnableScheduled' /\ NoSelfDeadlock'
<1>1. TypeOK /\ OnePlace /\ QueuedStates /\ RunnableScheduled
  BY DEF ThreadInv, TypeInv
<1>2. /\ NoDuplicates(PopNext)
      /\ \A u \in Threads : InSeq(u, PopNext) <=> Queued(u) /\ u # t
      /\ \A u \in Threads : ~OnCpu(u)
      /\ \A p \in Polls : ~Waiting(t, p)
  BY PopNextMoves
<1>3. \A u \in Threads, p \in Polls : InSeq(u, PopNext) => ~Waiting(u, p)
  BY <1>1, <1>2 DEF OnePlace
<1>4. /\ NoDuplicates(runqueue')
      /\ \A p \in Polls : NoDuplicates(polls'[p].waiters)
      /\ \A u \in Threads : InSeq(u, runqueue') <=> InSeq(u, PopNext) \/ u \in W
      /\ \A u \in Threads, p \in Polls :
           InSeq(u, polls'[p].waiters) <=> Waiting(u, p) /\ u \notin W
      /\ \A u \in W : u \in Threads /\ \E p \in Polls : Waiting(u, p)
  BY <1>2, <1>3, WakeMoves
<1>5. t \notin W
  BY <1>2, <1>4
<1>6. /\ mode' = "user"
      /\ current' = t
      /\ state \in [Threads -> ThreadState]
  BY <1>1 DEF SwitchTo, TypeOK
<1>7. OnePlace'
  BY <1>1, <1>2, <1>3, <1>4, <1>5, <1>6 DEF OnePlace, Queued, Waiting, OnCpu
<1>8. QueuedStates'
  BY <1>1, <1>2, <1>4, <1>5, <1>6 DEF QueuedStates, Queued, Waiting
<1>9. RunnableScheduled'
  BY <1>1, <1>2, <1>4, <1>6 DEF RunnableScheduled, Queued, OnCpu
<1>10. NoSelfDeadlock'
  BY <1>5 DEF WakeStep, NoSelfDeadlock
<1> QED
  BY <1>7, <1>8, <1>9, <1>10

(* schedule() drops the thread it popped and goes on. *)
LEMMA SkipStep ==
  ASSUME ThreadInv, NEW t \in Threads, Schedule(t), state[t] # "Runnable",
         runqueue' = PopNext,
         \A p \in Polls : polls'[p].waiters = polls[p].waiters,
         UNCHANGED <<state, promise, current, mode, halted>>
  PROVE  OnePlace' /\ QueuedStates' /\ RunnableScheduled' /\ NoSelfDeadlock'
<1>1. OnePlace /\ QueuedStates /\ RunnableScheduled /\ NoSelfDeadlock
  BY DEF ThreadInv
<1>2. /\ NoDuplicates(runqueue')
      /\ \A u \in Threads : InSeq(u, runqueue') <=> Queued(u) /\ u # t
  BY PopNextMoves
<1>3. OnePlace'
  BY <1>1, <1>2 DEF OnePlace, Queued, Waiting, OnCpu
<1>4. QueuedStates'
  BY <1>1, <1>2 DEF QueuedStates, Queued, Waiting
<1>5. RunnableScheduled'
  BY <1>1, <1>2 DEF RunnableScheduled, Queued, OnCpu
<1>6. NoSelfDeadlock'
  BY <1>1 DEF NoSelfDeadlock
<1> QED
  BY <1>3, <1>4, <1>5, <1>6

(* sys_thread_spawn. *)
LEMMA SpawnStep ==
  ASSUME ThreadInv, NEW t \in Threads, NEW id \in Ids, ThreadSpawn(t, id)
  PROVE  OnePlace' /\ QueuedStates' /\ RunnableScheduled' /\ NoSelfDeadlock'
<1> DEFINE n == Object[id]
<1>1. TypeOK /\ OnePlace /\ QueuedStates /\ RunnableScheduled /\ NoSelfDeadlock
  BY DEF ThreadInv, TypeInv
<1>2. /\ n \in Threads
      /\ state[n] = "Unborn"
      /\ state \in [Threads -> ThreadState]
      /\ state' = [state EXCEPT ![n] = "Runnable"]
      /\ runqueue' = Append(runqueue, n)
      /\ UNCHANGED <<polls, promise, current, mode, halted>>
  BY <1>1 DEF ThreadSpawn, Push, Return, TypeOK
<1> HIDE DEF n
<1>3. ~Queued(n) /\ ~OnCpu(n) /\ \A p \in Polls : ~Waiting(n, p)
  BY <1>1, <1>2 DEF QueuedStates, RunnableScheduled
<1>4. /\ NoDuplicates(runqueue')
      /\ \A u \in Threads : InSeq(u, runqueue') <=> u = n \/ Queued(u)
  BY <1>1, <1>2, <1>3, AppendHolds DEF TypeOK, OnePlace, Queued
<1>5. OnePlace'
  BY <1>1, <1>2, <1>3, <1>4 DEF OnePlace, Queued, Waiting, OnCpu
<1>6. QueuedStates'
  BY <1>1, <1>2, <1>3, <1>4 DEF QueuedStates, Queued, Waiting
<1>7. RunnableScheduled'
  BY <1>1, <1>2, <1>3, <1>4 DEF RunnableScheduled, Queued, OnCpu
<1>8. NoSelfDeadlock'
  BY <1>1, <1>2 DEF NoSelfDeadlock
<1> QED
  BY <1>5, <1>6, <1>7, <1>8

LEMMA ThreadStep == ThreadInv /\ [Next]_vars => ThreadInv'
<1> SUFFICES ASSUME ThreadInv, [Next]_vars
             PROVE  OnePlace' /\ QueuedStates' /\ RunnableScheduled' /\ NoSelfDeadlock'
  BY TypeStep DEF ThreadInv
<1> DEFINE Goal == OnePlace' /\ QueuedStates' /\ RunnableScheduled' /\ NoSelfDeadlock'
<1>0. TypeOK /\ TypeOK' /\ TypeInv
  BY TypeStep DEF ThreadInv, TypeInv
<1>1. ASSUME NEW t \in Threads, NEW p \in Polls, NEW id \in Ids, NEW m \in Masks,
             PollAdd(t, p, id, m)
      PROVE  Goal
  <2>1. PICK W : WakeStep(W, runqueue, {})
    BY <1>0, <1>1, PollAddWakes
  <2>2. UNCHANGED <<state, promise, current, mode>>
    BY <1>1 DEF PollAdd, Return
  <2> QED
    BY <2>1, <2>2, QuietStep DEF OnCpu
<1>2. ASSUME NEW t \in Threads, NEW p \in Polls, NEW id \in Ids,
             NEW a \in SUBSET Readiness, NEW b \in SUBSET Readiness,
             PollUpdate(t, p, id, a, b)
      PROVE  Goal
  <2>1. PICK W : WakeStep(W, runqueue, {})
    BY <1>0, <1>2, PollUpdateWakes
  <2>2. UNCHANGED <<state, promise, current, mode>>
    BY <1>2 DEF PollUpdate, Return
  <2> QED
    BY <2>1, <2>2, QuietStep DEF OnCpu
<1>3. ASSUME NEW t \in Threads, NEW p \in Polls, NEW id \in Ids, PollRemove(t, p, id)
      PROVE  Goal
  <2>1. /\ polls' = [polls EXCEPT ![p] = Unregister(polls[p], id)]
        /\ UNCHANGED <<runqueue, state, promise, current, mode, halted>>
    BY <1>0, <1>3 DEF PollRemove, Return, TypeOK
  <2>2. Unregister(polls[p], id).waiters = polls[p].waiters
    BY <1>0, UnregisterFields DEF TypeOK
  <2>3. \A r \in Polls : polls'[r].waiters = polls[r].waiters
    BY <1>0, <2>1, <2>2 DEF TypeOK
  <2>4. polls' \in [Polls -> PollState]
    BY <1>0 DEF TypeOK
  <2> QED
    BY <2>1, <2>3, <2>4, StillStep
<1>4. ASSUME NEW t \in Threads, NEW p \in Polls, PollWaitReturn(t, p)
      PROVE  Goal
  <2>1. PICK i \in LiveAt(polls[p]) : TryWaitReady(t, p, i, runqueue, {})
    BY <1>4 DEF PollWaitReturn
  <2>2. PICK W : WakeStep(W, runqueue, {})
    BY <1>0, <1>4, <2>1, TryWaitWakes DEF PollWaitReturn, Syscall, TypeOK
  <2>3. UNCHANGED <<state, promise, current, mode>>
    BY <1>4 DEF PollWaitReturn, Return
  <2> QED
    BY <2>2, <2>3, QuietStep DEF OnCpu
<1>5. ASSUME NEW t \in Threads, NEW p \in Polls, PollWaitBlock(t, p)
      PROVE  Goal
  BY <1>5, BlockStep
<1>6. ASSUME NEW t \in Threads, NEW id \in Ids, ThreadSpawn(t, id)
      PROVE  Goal
  BY <1>6, SpawnStep
<1>7. ASSUME NEW t \in Threads, ThreadExit(t)
      PROVE  Goal
  <2>1. /\ t \in Objects
        /\ latest[t] \cup {"PEER_CLOSED"} \in SUBSET Readiness
        /\ "ExitDeadlock" \in Halts
    BY <1>0 DEF Objects, TypeOK, Readiness, Halts
  <2>2. PICK W : WakeStep(W, runqueue, {t})
    BY <1>0, <1>7, <2>1, EmitWakes DEF ThreadExit, Syscall
  <2>3. /\ OnCpu(t)
        /\ state' = [state EXCEPT ![t] = "Exited"]
        /\ UNCHANGED <<promise, current>>
        /\ mode' = "sched"
    BY <1>7 DEF ThreadExit, Syscall, OnCpu
  <2> QED
    BY <2>2, <2>3, EndStep
<1>8. ASSUME NEW t \in Threads, NEW id \in Ids, ThreadClose(t, id)
      PROVE  Goal
  <2> DEFINE c == Object[id]
  <2>1. /\ c \in Objects
        /\ c \in Threads
        /\ latest[c] \cup {"PEER_CLOSED"} \in SUBSET Readiness
        /\ "CloseDeadlock" \in Halts
    BY <1>0, <1>8 DEF ThreadClose, Objects, TypeOK, Readiness, Halts
  <2>2. PICK W : WakeStep(W, runqueue, {c})
    BY <1>0, <1>8, <2>1, EmitWakes DEF ThreadClose, Syscall
  <2>3. /\ state' = [state EXCEPT ![c] = "Destroyed"]
        /\ UNCHANGED <<promise, current>>
        /\ mode' = IF OnCpu(c) THEN "sched" ELSE mode
        /\ halted' \notin {"ScheduleDeadlock", "ExitDeadlock"}
    BY <1>8 DEF ThreadClose, Syscall, OnCpu, Emit, Unblock
  <2> HIDE DEF c
  <2> QED
    BY <2>1, <2>2, <2>3, EndStep
<1>9. ASSUME NEW t \in Threads, NEW id \in Ids, HandleClose(t, id)
      PROVE  Goal
  BY <1>0, <1>9, StillStep DEF HandleClose, Return, TypeOK
<1>10. ASSUME NEW t \in Threads, NEW o \in Sources, NEW bit \in Readiness,
              SourceSet(t, o, bit) \/ SourceClear(t, o, bit)
       PROVE  Goal
  <2>1. /\ o \in Objects
        /\ latest[o] \cup {bit} \in SUBSET Readiness
        /\ latest[o] \ {bit} \in SUBSET Readiness
        /\ "No" \in Halts
    BY <1>0 DEF Objects, TypeOK, Halts
  <2>2. PICK W : WakeStep(W, runqueue, {})
    BY <1>0, <1>10, <2>1, EmitWakes DEF SourceSet, SourceClear, Syscall
  <2>3. UNCHANGED <<state, promise, current, mode>>
    BY <1>10 DEF SourceSet, SourceClear, Return
  <2> QED
    BY <2>2, <2>3, QuietStep DEF OnCpu
<1>11. ASSUME NEW o \in Timers \cup Irqs, Interrupt(o) \/ TimerFire(o)
       PROVE  Goal
  <2>1. /\ o \in Objects
        /\ latest[o] \cup {"READABLE"} \in SUBSET Readiness
        /\ "No" \in Halts
    BY <1>0 DEF Objects, Sources, TypeOK, Readiness, Halts
  <2>2. PICK W : WakeStep(W, runqueue, {})
    BY <1>0, <1>11, <2>1, EmitWakes DEF Interrupt, TimerFire
  <2>3. /\ UNCHANGED <<state, promise, current>>
        /\ mode' = "user" <=> mode = "user"
    BY <1>11 DEF Interrupt, TimerFire
  <2> QED
    BY <2>2, <2>3, QuietStep DEF OnCpu
<1>12. ASSUME NEW t \in Threads, ScheduleRunnable(t)
       PROVE  Goal
  <2>1. /\ Schedule(t)
        /\ state[t] = "Runnable"
        /\ runqueue' = PopNext
        /\ SwitchTo(t)
        /\ UNCHANGED <<polls, state, promise, halted>>
    BY <1>12 DEF ScheduleRunnable
  <2>2. /\ \A p \in Polls : polls'[p].waiters = polls[p].waiters
        /\ polls' \in [Polls -> PollState]
        /\ runqueue' \in Seq(Threads)
        /\ halted' \in Halts \ {"ScheduleDeadlock", "ExitDeadlock"}
        /\ state' = [state EXCEPT ![t] = "Runnable"]
    BY <1>0, <2>1 DEF TypeOK, ThreadInv, NoSelfDeadlock
  <2>3. WakeStep({}, runqueue', {})
    BY <1>0, <2>2, NoWake
  <2>4. WakeStep({}, PopNext, {t})
    BY <2>1, <2>3 DEF WakeStep
  <2> QED
    BY <2>1, <2>2, <2>4, SwitchStep
<1>13. ASSUME NEW t \in Threads, SchedulePollReady(t)
       PROVE  Goal
  <2>1. /\ Schedule(t)
        /\ state' = [state EXCEPT ![t] = "Runnable"]
        /\ promise' = promise
        /\ SwitchTo(t)
        /\ promise[t] \in Polls
    BY <1>0, <1>13 DEF SchedulePollReady, TypeInv
  <2>2. PICK i \in LiveAt(polls[promise[t]]) :
          TryWaitReady(t, promise[t], i, PopNext, {t})
    BY <1>13 DEF SchedulePollReady
  <2>3. PICK W : WakeStep(W, PopNext, {t})
    BY <1>0, <2>1, <2>2, PopNextMoves, TryWaitWakes DEF Schedule
  <2> QED
    BY <2>1, <2>3, SwitchStep
<1>14. ASSUME NEW t \in Threads, SchedulePollNone(t)
       PROVE  Goal
  <2>1. /\ Schedule(t)
        /\ state[t] # "Runnable"
        /\ runqueue' = PopNext
        /\ promise[t] \in Polls
        /\ polls' = [polls EXCEPT ![promise[t]] = DropStale(polls[promise[t]])]
        /\ UNCHANGED <<state, promise, current, mode, halted>>
    BY <1>0, <1>14 DEF SchedulePollNone, TypeInv, TypeOK
  <2>2. DropStale(polls[promise[t]]).waiters = polls[promise[t]].waiters
    BY <1>0, <2>1, DropStaleFields DEF TypeOK
  <2>3. \A p \in Polls : polls'[p].waiters = polls[p].waiters
    BY <1>0, <2>1, <2>2 DEF TypeOK
  <2> QED
    BY <2>1, <2>3, SkipStep
<1>15. ASSUME NEW t \in Threads, ScheduleDestroyed(t)
       PROVE  Goal
  BY <1>15, SkipStep DEF ScheduleDestroyed
<1>16. ASSUME ScheduleIdle PROVE Goal
  BY <1>0, <1>16, StillStep DEF ScheduleIdle, TypeOK
<1>17. ASSUME UNCHANGED vars PROVE Goal
  BY <1>0, <1>17, StillStep DEF vars, TypeOK
<1> HIDE DEF Goal
<1>18. ASSUME NEW t \in Threads, PollSyscall(t)
       PROVE  Goal
  <2>1. \A m \in Masks : m \in SUBSET Readiness /\ Readiness \ m \in SUBSET Readiness
    BY PollAssumption
  <2>2. {} \in SUBSET Readiness /\ Readiness \in SUBSET Readiness
    OBVIOUS
  <2> QED
    BY <1>1, <1>2, <1>3, <1>4, <1>5, <1>18, <2>1, <2>2 DEF PollSyscall
<1>19. ASSUME NEW t \in Threads, ThreadSyscall(t)
       PROVE  Goal
  BY <1>6, <1>7, <1>8, <1>9, <1>19 DEF ThreadSyscall
<1>20. ASSUME NEW t \in Threads, SourceSyscall(t)
       PROVE  Goal
  BY <1>10, <1>20 DEF SourceSyscall, Sources, Readiness
<1>21. ASSUME ScheduleStep PROVE Goal
  BY <1>12, <1>13, <1>14, <1>15, <1>16, <1>21 DEF ScheduleStep
<1>22. Goal
  BY <1>11, <1>17, <1>18, <1>19, <1>20, <1>21 DEF Next
<1> QED
  BY <1>22 DEF Goal

(* A thread is in one place at a time, in a state that belongs to it; no   *)
(* runnable thread is lost; and neither schedule() nor exit() takes a lock *)
(* that it holds.  For any number of threads and polls, shared or not.     *)
THEOREM ThreadsInPlace ==
  Spec => [](OnePlace /\ QueuedStates /\ RunnableScheduled /\ NoSelfDeadlock)
<1>1. Init => ThreadInv
  BY ThreadInit
<1>2. ThreadInv /\ [Next]_vars => ThreadInv'
  BY ThreadStep
<1>3. ThreadInv => OnePlace /\ QueuedStates /\ RunnableScheduled /\ NoSelfDeadlock
  BY DEF ThreadInv
<1> QED
  BY <1>1, <1>2, <1>3, PTL DEF Spec

(* No runnable thread is lost, and only a Runnable one is on the CPU.      *)
THEOREM RunnableAreScheduled == Spec => []RunnableScheduled
BY ThreadsInPlace, PTL

(* schedule() and Thread::exit never spin on the lock they hold, whatever  *)
(* listens on the thread or timer that they emit for.                      *)
THEOREM LocksAreNotRetaken == Spec => []NoSelfDeadlock
BY ThreadsInPlace, PTL

-----------------------------------------------------------------------------
(* Pending events                                                          *)

(* ReadyIsQueued for one poll. *)
ReadyQueued(q) == \A id \in q.objects : q.ready[id] # {} => InSeq(id, q.ready_queue)

Live(q) == LiveAt(q) # {}

(* What a poll's user can rely on while others emit: a pending event stays *)
(* pending, a waiter is taken only when an event is pending, and an event  *)
(* that becomes pending takes a waiter.                                    *)
Keeps(q, q2) ==
  /\ ReadyQueued(q2)
  /\ Live(q) => Live(q2)
  /\ q2.waiters # q.waiters => Live(q2)
  /\ ~Live(q) /\ Live(q2) => q.waiters = <<>> \/ q2.waiters = Tail(q.waiters)

LEMMA LiveIff ==
  ASSUME NEW q
  PROVE  Live(q) <=> \E id \in q.objects : InSeq(id, q.ready_queue)
BY DEF Live, LiveAt, InSeq

LEMMA NotifyKeeps ==
  ASSUME NEW q \in PollState, ReadyQueued(q), NEW id, NEW ev \in SUBSET Readiness
  PROVE  Keeps(q, Notify(q, id, ev))
<1>1. CASE id \notin q.objects
  BY <1>1, NotifyUnknown DEF Keeps
<1>2. CASE id \in q.objects
  <2> DEFINE q2 == Notify(q, id, ev)
  <2>1. /\ q2.objects = q.objects
        /\ q2.ready = [q.ready EXCEPT ![id] = @ \cup ev]
        /\ q2.ready_queue =
             IF q.ready[id] = {} THEN Append(q.ready_queue, id) ELSE q.ready_queue
        /\ q2.waiters = IF q.waiters = <<>> THEN q.waiters ELSE Tail(q.waiters)
    BY <1>2, NotifyFields
  <2>2. /\ q.ready_queue \in Seq(Ids)
        /\ q.ready \in [Ids -> SUBSET Readiness]
        /\ q.objects \in SUBSET Ids
        /\ id \in Ids
    BY <1>2 DEF PollState
  <2> HIDE DEF q2
  <2>3. /\ InSeq(id, q2.ready_queue)
        /\ \A x : InSeq(x, q.ready_queue) => InSeq(x, q2.ready_queue)
    BY <1>2, <2>1, <2>2, AppendHolds DEF ReadyQueued
  <2>4. ReadyQueued(q2)
    BY <2>1, <2>2, <2>3 DEF ReadyQueued
  <2>5. Live(q2)
    BY <1>2, <2>1, <2>3, LiveIff
  <2> QED
    BY <2>1, <2>4, <2>5 DEF Keeps, q2
<1> QED
  BY <1>1, <1>2

LEMMA NotifyAllKeeps ==
  ASSUME NEW ps \in [Polls -> PollState], NEW ls \in [Polls -> Listener],
         NEW l \in SUBSET Readiness, \A p \in Polls : ReadyQueued(ps[p])
  PROVE  \A p \in Polls : Keeps(ps[p], NotifyAll(ls, l, ps)[p])
<1> SUFFICES ASSUME NEW p \in Polls PROVE Keeps(ps[p], NotifyAll(ls, l, ps)[p])
  OBVIOUS
<1> DEFINE ev == ls[p].interests \cap l
<1>1. ps[p] \in PollState /\ ReadyQueued(ps[p]) /\ ev \in SUBSET Readiness
  BY DEF Listener
<1>2. NotifyAll(ls, l, ps)[p] = IF ev = {} THEN ps[p] ELSE Notify(ps[p], ls[p].id, ev)
  BY DEF NotifyAll
<1>3. CASE ev = {}
  BY <1>1, <1>2, <1>3 DEF Keeps
<1>4. CASE ev # {}
  <2> HIDE DEF ev
  <2>1. NotifyAll(ls, l, ps)[p] = Notify(ps[p], ls[p].id, ev)
    BY <1>2, <1>4
  <2> QED
    BY <1>1, <2>1, NotifyKeeps
<1> QED
  BY <1>3, <1>4

(* do_try_wait pops stale ids and the first live one, no other. *)
LEMMA PopReadyQueued ==
  ASSUME NEW q \in PollState, ReadyQueued(q), NEW i \in FirstLive(q)
  PROVE  ReadyQueued(PopReady(q, i))
<1> DEFINE s == q.ready_queue
           s2 == SubSeq(s, i + 1, Len(s))
<1>1. i \in LiveAt(q) /\ \A j \in LiveAt(q) : i <= j
  BY DEF FirstLive
<1>2. /\ PopReady(q, i).objects = q.objects
      /\ PopReady(q, i).ready = [q.ready EXCEPT ![s[i]] = {}]
      /\ PopReady(q, i).ready_queue = s2
      /\ s[i] \in Ids
  BY <1>1, PopReadyFields
<1>3. /\ s \in Seq(Ids)
      /\ q.ready \in [Ids -> SUBSET Readiness]
      /\ q.objects \in SUBSET Ids
      /\ i \in 1..Len(s)
  BY <1>1 DEF PollState, LiveAt
<1>4. SUFFICES ASSUME NEW id \in q.objects, [q.ready EXCEPT ![s[i]] = {}][id] # {}
               PROVE  InSeq(id, s2)
  BY <1>2 DEF ReadyQueued
<1>5. id # s[i] /\ q.ready[id] # {}
  BY <1>2, <1>3, <1>4
<1>6. PICK j \in DOMAIN s : s[j] = id
  BY <1>5 DEF ReadyQueued, InSeq
<1>7. j \in LiveAt(q)
  BY <1>6 DEF LiveAt
<1>8. j \in 1..Len(s) /\ j > i
  BY <1>1, <1>3, <1>5, <1>6, <1>7
<1>9. j - i \in DOMAIN s2 /\ s2[j - i] = s[j]
  <2>1. DOMAIN s2 = 1..(Len(s) - i)
    BY <1>3
  <2>2. j - i \in 1..(Len(s) - i)
    BY <1>3, <1>8
  <2>3. s2[j - i] = s[(i + 1) + (j - i) - 1]
    BY <1>3, <1>8, <2>2
  <2> QED
    BY <1>3, <1>8, <2>1, <2>2, <2>3
<1> QED
  BY <1>6, <1>9 DEF InSeq

(* A thread blocks only on polls that it uses. *)
UsesOwn == \A t \in Threads : promise[t] = NoPoll \/ <<t, promise[t]>> \in Uses

EventInv == ThreadInv /\ ReadyIsQueued /\ UsesOwn

(* A step of thread t keeps what the users of other polls rely on. *)
PollsKept(t) ==
  \A p \in Polls : /\ ReadyQueued(polls'[p])
                   /\ <<t, p>> \notin Uses => Keeps(polls[p], polls'[p])

LEMMA EventFacts ==
  ASSUME EventInv
  PROVE  /\ TypeOK
         /\ polls \in [Polls -> PollState]
         /\ latest \in [Objects -> SUBSET Readiness]
         /\ listeners \in [Objects -> [Polls -> Listener]]
         /\ \A p \in Polls : ReadyQueued(polls[p])
BY DEF EventInv, ThreadInv, TypeInv, TypeOK, ReadyIsQueued, ReadyQueued

(* A step that changes no event state but perhaps that of one poll in use. *)
LEMMA OwnPollKept ==
  ASSUME EventInv, NEW t, NEW p \in Polls, <<t, p>> \in Uses, NEW q2, ReadyQueued(q2),
         polls' = [polls EXCEPT ![p] = q2]
  PROVE  PollsKept(t)
<1>1. ASSUME NEW r \in Polls, r # p PROVE polls'[r] = polls[r] /\ ReadyQueued(polls[r])
  BY <1>1, EventFacts
<1>2. polls'[p] = q2
  BY EventFacts
<1>3. ASSUME NEW r \in Polls
      PROVE  ReadyQueued(polls'[r]) /\ (<<t, r>> \notin Uses => Keeps(polls[r], polls'[r]))
  <2>1. CASE r = p
    BY <1>2, <2>1
  <2>2. CASE r # p
    BY <1>1, <2>2 DEF Keeps
  <2> QED
    BY <2>1, <2>2
<1> QED
  BY <1>3 DEF PollsKept

LEMMA SamePollsKept ==
  ASSUME EventInv, NEW t, polls' = polls
  PROVE  PollsKept(t)
BY EventFacts DEF PollsKept, Keeps

LEMMA EmitKept ==
  ASSUME EventInv, NEW o \in Objects, NEW l \in SUBSET Readiness, NEW held, NEW d,
         Emit(o, l, held, d), NEW t
  PROVE  PollsKept(t)
<1>1. polls' = NotifyAll(listeners[o], l, polls)
  BY DEF Emit
<1>2. listeners[o] \in [Polls -> Listener]
  BY EventFacts
<1>3. \A p \in Polls : Keeps(polls[p], polls'[p])
  BY <1>1, <1>2, EventFacts, NotifyAllKeeps
<1> QED
  BY <1>3 DEF PollsKept, Keeps

LEMMA TryWaitKept ==
  ASSUME EventInv, NEW t \in Threads, NEW p \in Polls, <<t, p>> \in Uses, NEW i, NEW rq,
         NEW held, TryWaitReady(t, p, i, rq, held)
  PROVE  PollsKept(t)
<1> DEFINE q  == polls[p]
           id == q.ready_queue[i]
           r  == q.ready[id]
           o  == Object[id]
           l  == latest[o] \ r
           ps == [polls EXCEPT ![p] = PopReady(q, i)]
<1>1. i \in FirstLive(q) /\ i \in LiveAt(q)
  BY DEF TryWaitReady, FirstLive
<1>2. q \in PollState /\ ReadyQueued(q)
  BY EventFacts
<1>3. /\ PopReady(q, i) \in PollState
      /\ ReadyQueued(PopReady(q, i))
      /\ id \in Ids
  BY <1>1, <1>2, PopReadyFields, PopReadyQueued
<1>4. CASE polls' = ps
  BY <1>3, <1>4, OwnPollKept
<1>5. CASE polls' = NotifyAll(listeners[o], l, ps)
  <2>1. o \in Objects
    BY <1>3, PollAssumption
  <2>2. listeners[o] \in [Polls -> Listener] /\ l \in SUBSET Readiness
    BY <2>1, EventFacts
  <2>3. /\ ps \in [Polls -> PollState]
        /\ \A x \in Polls : ReadyQueued(ps[x])
        /\ \A x \in Polls : x # p => ps[x] = polls[x]
    BY <1>3, EventFacts
  <2> HIDE DEF ps, l, o
  <2>4. \A x \in Polls : Keeps(ps[x], polls'[x])
    BY <1>5, <2>2, <2>3, NotifyAllKeeps
  <2>5. ASSUME NEW x \in Polls
        PROVE  ReadyQueued(polls'[x]) /\ (<<t, x>> \notin Uses => Keeps(polls[x], polls'[x]))
    <3>1. ReadyQueued(polls'[x])
      BY <2>4 DEF Keeps
    <3>2. ASSUME <<t, x>> \notin Uses PROVE Keeps(polls[x], polls'[x])
      <4>1. x # p
        BY <3>2
      <4> QED
        BY <2>3, <2>4, <4>1
    <3> QED
      BY <3>1, <3>2
  <2> QED
    BY <2>5 DEF PollsKept
<1> QED
  BY <1>4, <1>5 DEF TryWaitReady

LEMMA PollAddKept ==
  ASSUME EventInv, NEW t \in Threads, NEW p \in Polls, NEW id \in Ids, NEW m \in Masks,
         PollAdd(t, p, id, m)
  PROVE  PollsKept(t)
<1> DEFINE ev == m \cap latest[Object[id]]
           q  == Register(polls[p], id)
           q2 == IF ev = {} THEN q ELSE Notify(q, id, ev)
<1>1. polls[p] \in PollState /\ ReadyQueued(polls[p])
  BY EventFacts
<1>2. q \in PollState /\ ReadyQueued(q)
  <2>1. /\ q \in PollState
        /\ q.objects = polls[p].objects \cup {id}
        /\ q.ready = [polls[p].ready EXCEPT ![id] = {}]
        /\ q.ready_queue = polls[p].ready_queue
    BY <1>1, RegisterFields
  <2>2. polls[p].ready \in [Ids -> SUBSET Readiness] /\ polls[p].objects \in SUBSET Ids
    BY <1>1 DEF PollState
  <2> HIDE DEF q
  <2> QED
    BY <1>1, <2>1, <2>2 DEF ReadyQueued
<1>3. ev \in SUBSET Readiness
  BY PollAssumption
<1> HIDE DEF q, ev
<1>4. ReadyQueued(q2)
  <2>1. CASE ev = {}
    BY <1>2, <2>1
  <2>2. CASE ev # {}
    <3>1. q2 = Notify(q, id, ev)
      BY <2>2
    <3> QED
      BY <1>2, <1>3, <3>1, NotifyKeeps DEF Keeps
  <2> QED
    BY <2>1, <2>2
<1>5. <<t, p>> \in Uses /\ polls' = [polls EXCEPT ![p] = q2]
  BY DEF PollAdd, q, ev
<1> HIDE DEF q2
<1> QED
  BY <1>4, <1>5, OwnPollKept

LEMMA PollUpdateKept ==
  ASSUME EventInv, NEW t \in Threads, NEW p \in Polls, NEW id \in Ids,
         NEW or_mask \in SUBSET Readiness, NEW and_mask \in SUBSET Readiness,
         PollUpdate(t, p, id, or_mask, and_mask)
  PROVE  PollsKept(t)
<1> DEFINE o   == Object[id]
           lis == listeners[o][p]
           new == UpdateListener(lis, or_mask, and_mask)
           ev  == new.interests \cap latest[o]
           q2  == IF ev = {} THEN polls[p] ELSE Notify(polls[p], new.id, ev)
<1>1. polls[p] \in PollState /\ ReadyQueued(polls[p])
  BY EventFacts
<1>2. ev \in SUBSET Readiness
  <2>1. o \in Objects
    BY PollAssumption
  <2> QED
    BY <2>1, EventFacts
<1>3. <<t, p>> \in Uses /\ polls' = [polls EXCEPT ![p] = q2]
  BY EventFacts DEF PollUpdate
<1> HIDE DEF ev, new
<1>4. ReadyQueued(q2)
  <2>1. CASE ev = {}
    BY <1>1, <2>1
  <2>2. CASE ev # {}
    <3>1. q2 = Notify(polls[p], new.id, ev)
      BY <2>2
    <3> QED
      BY <1>1, <1>2, <3>1, NotifyKeeps DEF Keeps
  <2> QED
    BY <2>1, <2>2
<1> HIDE DEF q2
<1> QED
  BY <1>3, <1>4, OwnPollKept

LEMMA PollRemoveKept ==
  ASSUME EventInv, NEW t \in Threads, NEW p \in Polls, NEW id \in Ids, PollRemove(t, p, id)
  PROVE  PollsKept(t)
<1> DEFINE q2 == Unregister(polls[p], id)
<1>1. polls[p] \in PollState /\ ReadyQueued(polls[p])
  BY EventFacts
<1>2. /\ q2.objects = polls[p].objects \ {id}
      /\ q2.ready = [polls[p].ready EXCEPT ![id] = {}]
      /\ q2.ready_queue = polls[p].ready_queue
  BY <1>1, UnregisterFields
<1>3. polls[p].ready \in [Ids -> SUBSET Readiness] /\ polls[p].objects \in SUBSET Ids
  BY <1>1 DEF PollState
<1>4. <<t, p>> \in Uses /\ polls' = [polls EXCEPT ![p] = q2]
  BY EventFacts DEF PollRemove
<1> HIDE DEF q2
<1>5. ReadyQueued(q2)
  BY <1>1, <1>2, <1>3 DEF ReadyQueued
<1> QED
  BY <1>4, <1>5, OwnPollKept

(* do_try_wait that finds no live id drops only stale ones. *)
LEMMA DropStaleQueued ==
  ASSUME NEW q \in PollState, ReadyQueued(q), LiveAt(q) = {}
  PROVE  ReadyQueued(DropStale(q)) /\ ~Live(DropStale(q))
<1>1. \A id \in q.objects : q.ready[id] = {}
  BY LiveIff DEF ReadyQueued, Live
<1>2. /\ DropStale(q).objects = q.objects
      /\ DropStale(q).ready = q.ready
      /\ DropStale(q).ready_queue = <<>>
  BY DropStaleFields
<1>3. ReadyQueued(DropStale(q))
  BY <1>1, <1>2 DEF ReadyQueued
<1>4. ~Live(DropStale(q))
  BY <1>2, LiveIff DEF InSeq
<1> QED
  BY <1>3, <1>4

LEMMA PollWaitBlockKept ==
  ASSUME EventInv, NEW t \in Threads, NEW p \in Polls, PollWaitBlock(t, p)
  PROVE  PollsKept(t) /\ ~Live(polls'[p])
<1> DEFINE q1 == DropStale(polls[p])
           q2 == JoinWaiters(q1, t)
<1>1. polls[p] \in PollState /\ ReadyQueued(polls[p]) /\ LiveAt(polls[p]) = {}
  BY EventFacts DEF PollWaitBlock
<1>2. q1 \in PollState /\ ReadyQueued(q1) /\ ~Live(q1)
  BY <1>1, DropStaleFields, DropStaleQueued
<1> HIDE DEF q1
<1>3. q2.objects = q1.objects /\ q2.ready = q1.ready /\ q2.ready_queue = q1.ready_queue
  BY <1>2, JoinWaitersFields
<1>4. <<t, p>> \in Uses /\ polls' = [polls EXCEPT ![p] = q2]
  BY EventFacts DEF PollWaitBlock, q1
<1> HIDE DEF q2
<1>5. ReadyQueued(q2) /\ ~Live(q2)
  BY <1>2, <1>3, LiveIff DEF ReadyQueued
<1>6. polls'[p] = q2
  BY <1>4, EventFacts
<1> QED
  BY <1>4, <1>5, <1>6, OwnPollKept

-----------------------------------------------------------------------------
(* Steps by actor                                                          *)

(* A step of thread t, which does not block: t waits nowhere, it wakes the *)
(* threads of W, and it leaves the other threads that are blocked, and the *)
(* polls that t does not use, as they can rely on.                         *)
ActorStep(t, W, rq, held) ==
  /\ PollsKept(t)
  /\ WakeStep(W, rq, held)
  /\ promise' = promise
  /\ \A u \in Threads : state'[u] = "Blocked" => u # t /\ state[u] = "Blocked"
  /\ \A p \in Polls : ~Waiting(t, p)
  /\ NoDuplicates(rq)
  /\ \A u \in Threads, p \in Polls : InSeq(u, rq) => ~Waiting(u, p)
  /\ \A u \in Threads \ {t} :
       /\ Queued(u) => InSeq(u, rq)
       /\ InSeq(u, rq) /\ state[u] = "Blocked" => Queued(u)

LEMMA SyscallActs ==
  ASSUME EventInv, NEW t \in Threads, Syscall(t), NEW W, NEW held,
         WakeStep(W, runqueue, held), PollsKept(t), promise' = promise,
         \A u \in Threads : state'[u] = "Blocked" => state[u] = "Blocked"
  PROVE  ActorStep(t, W, runqueue, held)
<1>1. OnePlace /\ RunnableScheduled
  BY DEF EventInv, ThreadInv
<1>2. OnCpu(t)
  BY DEF Syscall, OnCpu
<1>3. state[t] = "Runnable" /\ \A p \in Polls : ~Waiting(t, p)
  BY <1>1, <1>2 DEF RunnableScheduled, OnePlace
<1>4. /\ NoDuplicates(runqueue)
      /\ \A u \in Threads, p \in Polls : InSeq(u, runqueue) => ~Waiting(u, p)
  BY <1>1 DEF OnePlace, Queued
<1>5. \A u \in Threads : state'[u] = "Blocked" => u # t /\ state[u] = "Blocked"
  BY <1>3
<1> QED
  BY <1>3, <1>4, <1>5 DEF ActorStep, Queued

LEMMA ScheduleActs ==
  ASSUME EventInv, NEW t \in Threads, Schedule(t), NEW W,
         WakeStep(W, PopNext, {t}), PollsKept(t), promise' = promise,
         state' = state \/ state' = [state EXCEPT ![t] = "Runnable"],
         state'[t] # "Blocked"
  PROVE  ActorStep(t, W, PopNext, {t})
<1>1. ThreadInv /\ OnePlace
  BY DEF EventInv, ThreadInv
<1>2. /\ NoDuplicates(PopNext)
      /\ \A u \in Threads : InSeq(u, PopNext) <=> Queued(u) /\ u # t
      /\ \A p \in Polls : ~Waiting(t, p)
  BY <1>1, PopNextMoves
<1>3. \A u \in Threads, p \in Polls : InSeq(u, PopNext) => ~Waiting(u, p)
  BY <1>1, <1>2 DEF OnePlace
<1>4. \A u \in Threads : state'[u] = "Blocked" => u # t /\ state[u] = "Blocked"
  BY EventFacts DEF TypeOK
<1> QED
  BY <1>2, <1>3, <1>4 DEF ActorStep

(* Interrupts and idling have no actor: the idle thread stands in. *)
LEMMA IdleActs ==
  ASSUME EventInv, NEW W, WakeStep(W, runqueue, {}), PollsKept(IdleThread),
         UNCHANGED <<promise, state>>
  PROVE  ActorStep(IdleThread, W, runqueue, {})
<1>1. OnePlace /\ TypeOK
  BY EventFacts DEF EventInv, ThreadInv
<1>2. ASSUME NEW p \in Polls PROVE ~Waiting(IdleThread, p)
  <2>1. polls[p].waiters \in Seq(Threads)
    BY <1>1 DEF TypeOK, PollState
  <2>2. \A i \in DOMAIN polls[p].waiters : polls[p].waiters[i] \in Threads
    BY <2>1
  <2> QED
    BY <2>2, PollAssumption DEF Waiting, InSeq
<1>3. /\ NoDuplicates(runqueue)
      /\ \A u \in Threads, p \in Polls : InSeq(u, runqueue) => ~Waiting(u, p)
  BY <1>1 DEF OnePlace, Queued
<1>4. \A u \in Threads : u # IdleThread
  BY PollAssumption
<1> QED
  BY <1>2, <1>3, <1>4 DEF ActorStep, Queued

(* A handler that wakes nobody. *)
LEMMA NobodyWoken ==
  ASSUME EventInv, polls' \in [Polls -> PollState],
         \A p \in Polls : polls'[p].waiters = polls[p].waiters,
         runqueue' \in Seq(Threads), halted' = halted
  PROVE  WakeStep({}, runqueue', {})
<1>1. halted' \in Halts \ {"ScheduleDeadlock", "ExitDeadlock"}
  BY EventFacts DEF EventInv, ThreadInv, NoSelfDeadlock, TypeOK
<1> QED
  BY <1>1, EventFacts, NoWake

(* Somebody acts; all steps but two are of this kind. *)
SomeActorStep ==
  \E t \in Threads \cup {IdleThread} : \E W, rq, held : ActorStep(t, W, rq, held)

LEMMA StepKinds ==
  ASSUME EventInv, [Next]_vars
  PROVE  \/ \E t \in Threads, p \in Polls : PollWaitBlock(t, p)
         \/ \E t \in Threads : SchedulePollNone(t)
         \/ SomeActorStep
<1> DEFINE Goal == \/ \E t \in Threads, p \in Polls : PollWaitBlock(t, p)
                   \/ \E t \in Threads : SchedulePollNone(t)
                   \/ SomeActorStep
<1>0. /\ TypeOK /\ TypeOK' /\ TypeInv /\ ThreadInv
      /\ runqueue' \in Seq(Threads)
      /\ polls' \in [Polls -> PollState]
  BY TypeStep DEF EventInv, ThreadInv, TypeInv, TypeOK
<1>1. ASSUME NEW t \in Threads, NEW p \in Polls, NEW id \in Ids, NEW m \in Masks,
             PollAdd(t, p, id, m)
      PROVE  Goal
  <2>1. PICK W : WakeStep(W, runqueue, {})
    BY <1>0, <1>1, PollAddWakes
  <2>2. Syscall(t) /\ UNCHANGED <<state, promise>>
    BY <1>1 DEF PollAdd
  <2>3. ActorStep(t, W, runqueue, {})
    BY <1>1, <2>1, <2>2, PollAddKept, SyscallActs
  <2> QED
    BY <2>3 DEF SomeActorStep
<1>2. ASSUME NEW t \in Threads, NEW p \in Polls, NEW id \in Ids,
             NEW a \in SUBSET Readiness, NEW b \in SUBSET Readiness,
             PollUpdate(t, p, id, a, b)
      PROVE  Goal
  <2>1. PICK W : WakeStep(W, runqueue, {})
    BY <1>0, <1>2, PollUpdateWakes
  <2>2. Syscall(t) /\ UNCHANGED <<state, promise>>
    BY <1>2 DEF PollUpdate
  <2>3. ActorStep(t, W, runqueue, {})
    BY <1>2, <2>1, <2>2, PollUpdateKept, SyscallActs
  <2> QED
    BY <2>3 DEF SomeActorStep
<1>3. ASSUME NEW t \in Threads, NEW p \in Polls, NEW id \in Ids, PollRemove(t, p, id)
      PROVE  Goal
  <2>1. /\ polls' = [polls EXCEPT ![p] = Unregister(polls[p], id)]
        /\ Syscall(t)
        /\ UNCHANGED <<runqueue, state, promise, halted>>
    BY <1>0, <1>3 DEF PollRemove, TypeOK
  <2>2. Unregister(polls[p], id).waiters = polls[p].waiters
    BY <1>0, UnregisterFields DEF TypeOK
  <2>3. \A r \in Polls : polls'[r].waiters = polls[r].waiters
    BY <1>0, <2>1, <2>2 DEF TypeOK
  <2>4. WakeStep({}, runqueue', {})
    BY <1>0, <2>1, <2>3, NobodyWoken
  <2>5. WakeStep({}, runqueue, {})
    BY <2>1, <2>4 DEF WakeStep
  <2>6. ActorStep(t, {}, runqueue, {})
    BY <1>3, <2>1, <2>5, PollRemoveKept, SyscallActs
  <2> QED
    BY <2>6 DEF SomeActorStep
<1>4. ASSUME NEW t \in Threads, NEW p \in Polls, PollWaitReturn(t, p)
      PROVE  Goal
  <2>1. PICK i \in LiveAt(polls[p]) : TryWaitReady(t, p, i, runqueue, {})
    BY <1>4 DEF PollWaitReturn
  <2>2. Syscall(t) /\ <<t, p>> \in Uses /\ UNCHANGED <<state, promise>>
    BY <1>4 DEF PollWaitReturn
  <2>3. PICK W : WakeStep(W, runqueue, {})
    BY <1>0, <2>1, <2>2, TryWaitWakes DEF Syscall, TypeOK
  <2>4. PollsKept(t)
    BY <2>1, <2>2, TryWaitKept
  <2>5. ActorStep(t, W, runqueue, {})
    BY <2>2, <2>3, <2>4, SyscallActs
  <2> QED
    BY <2>5 DEF SomeActorStep
<1>5. ASSUME NEW t \in Threads, NEW p \in Polls, PollWaitBlock(t, p)
      PROVE  Goal
  BY <1>5
<1>6. ASSUME NEW t \in Threads, NEW id \in Ids, ThreadSpawn(t, id)
      PROVE  Goal
  <2> DEFINE n == Object[id]
  <2>1. /\ Syscall(t)
        /\ n \in Threads
        /\ state[n] = "Unborn"
        /\ state' = [state EXCEPT ![n] = "Runnable"]
        /\ runqueue' = Append(runqueue, n)
        /\ UNCHANGED <<polls, promise, halted>>
    BY <1>6 DEF ThreadSpawn, Push
  <2>2. WakeStep({}, runqueue', {})
    BY <1>0, <2>1, NobodyWoken
  <2> HIDE DEF n
  <2>3. \A u \in Threads : InSeq(u, runqueue') <=> u = n \/ Queued(u)
    BY <1>0, <2>1, AppendHolds DEF TypeOK, Queued
  <2>4. /\ OnePlace /\ QueuedStates /\ RunnableScheduled /\ OnePlace'
    BY <1>0, ThreadStep DEF ThreadInv
  <2>5. OnCpu(t)
    BY <2>1 DEF Syscall, OnCpu
  <2>6. state[t] = "Runnable" /\ \A p \in Polls : ~Waiting(t, p)
    BY <2>4, <2>5 DEF RunnableScheduled, OnePlace
  <2>7. /\ NoDuplicates(runqueue')
        /\ \A u \in Threads, p \in Polls : InSeq(u, runqueue') => ~Waiting(u, p)
    BY <2>1, <2>4 DEF OnePlace, Queued, Waiting
  <2>8. \A u \in Threads : state'[u] = "Blocked" => u # t /\ state[u] = "Blocked"
    BY <1>0, <2>1, <2>6 DEF TypeOK
  <2>9. PollsKept(t)
    BY <2>1, SamePollsKept
  <2>10. ActorStep(t, {}, runqueue', {})
    BY <2>1, <2>2, <2>3, <2>6, <2>7, <2>8, <2>9 DEF ActorStep
  <2> QED
    BY <2>10 DEF SomeActorStep
<1>7. ASSUME NEW t \in Threads, ThreadExit(t)
      PROVE  Goal
  <2> DEFINE l == latest[t] \cup {"PEER_CLOSED"}
  <2>1. t \in Objects /\ l \in SUBSET Readiness /\ "ExitDeadlock" \in Halts
    BY <1>0 DEF Objects, TypeOK, Readiness, Halts
  <2>2. /\ Syscall(t)
        /\ halted = "No"
        /\ Emit(t, l, {t}, "ExitDeadlock")
        /\ state' = [state EXCEPT ![t] = "Exited"]
        /\ promise' = promise
    BY <1>7 DEF ThreadExit, Syscall
  <2> HIDE DEF l
  <2>3. PICK W : WakeStep(W, runqueue, {t})
    BY <1>0, <2>1, <2>2, EmitWakes
  <2>4. PollsKept(t)
    BY <2>1, <2>2, EmitKept
  <2>5. \A u \in Threads : state'[u] = "Blocked" => state[u] = "Blocked"
    BY <1>0, <2>2 DEF TypeOK
  <2>6. ActorStep(t, W, runqueue, {t})
    BY <2>2, <2>3, <2>4, <2>5, SyscallActs
  <2> QED
    BY <2>6 DEF SomeActorStep
<1>8. ASSUME NEW t \in Threads, NEW id \in Ids, ThreadClose(t, id)
      PROVE  Goal
  <2> DEFINE c == Object[id]
             l == latest[c] \cup {"PEER_CLOSED"}
  <2>1. /\ c \in Objects
        /\ c \in Threads
        /\ l \in SUBSET Readiness
        /\ "CloseDeadlock" \in Halts
    BY <1>0, <1>8 DEF ThreadClose, Objects, TypeOK, Readiness, Halts
  <2>2. /\ Syscall(t)
        /\ halted = "No"
        /\ Emit(c, l, {c}, "CloseDeadlock")
        /\ state' = [state EXCEPT ![c] = "Destroyed"]
        /\ promise' = promise
    BY <1>8 DEF ThreadClose, Syscall
  <2> HIDE DEF c, l
  <2>3. PICK W : WakeStep(W, runqueue, {c})
    BY <1>0, <2>1, <2>2, EmitWakes
  <2>4. PollsKept(t)
    BY <2>1, <2>2, EmitKept
  <2>5. \A u \in Threads : state'[u] = "Blocked" => state[u] = "Blocked"
    BY <1>0, <2>1, <2>2 DEF TypeOK
  <2>6. ActorStep(t, W, runqueue, {c})
    BY <2>2, <2>3, <2>4, <2>5, SyscallActs
  <2> QED
    BY <2>6 DEF SomeActorStep
<1>9. ASSUME NEW t \in Threads, NEW id \in Ids, HandleClose(t, id)
      PROVE  Goal
  <2>1. Syscall(t) /\ UNCHANGED <<polls, runqueue, state, promise, halted>>
    BY <1>9 DEF HandleClose
  <2>2. WakeStep({}, runqueue', {})
    BY <1>0, <2>1, NobodyWoken
  <2>3. WakeStep({}, runqueue, {})
    BY <2>1, <2>2 DEF WakeStep
  <2>4. PollsKept(t)
    BY <2>1, SamePollsKept
  <2>5. ActorStep(t, {}, runqueue, {})
    BY <2>1, <2>3, <2>4, SyscallActs
  <2> QED
    BY <2>5 DEF SomeActorStep
<1>10. ASSUME NEW t \in Threads, NEW o \in Sources, NEW bit \in Readiness,
              SourceSet(t, o, bit) \/ SourceClear(t, o, bit)
       PROVE  Goal
  <2>1. PICK l \in SUBSET Readiness : Emit(o, l, {}, "No")
    BY <1>0, <1>10 DEF SourceSet, SourceClear, TypeOK, Objects
  <2>2. Syscall(t) /\ halted = "No" /\ UNCHANGED <<state, promise>>
    BY <1>10 DEF SourceSet, SourceClear, Syscall
  <2>3. o \in Objects /\ "No" \in Halts
    BY DEF Objects, Halts
  <2>4. PICK W : WakeStep(W, runqueue, {})
    BY <1>0, <2>1, <2>2, <2>3, EmitWakes
  <2>5. PollsKept(t)
    BY <2>1, <2>3, EmitKept
  <2>6. ActorStep(t, W, runqueue, {})
    BY <2>2, <2>4, <2>5, SyscallActs
  <2> QED
    BY <2>6 DEF SomeActorStep
<1>11. ASSUME NEW o \in Timers \cup Irqs, Interrupt(o) \/ TimerFire(o)
       PROVE  Goal
  <2>1. o \in Objects /\ "No" \in Halts
    BY DEF Objects, Sources, Halts
  <2>2. PICK l \in SUBSET Readiness : Emit(o, l, {}, "No")
    BY <1>0, <1>11, <2>1 DEF Interrupt, TimerFire, TypeOK, Readiness
  <2>3. halted = "No" /\ UNCHANGED <<state, promise>>
    BY <1>11 DEF Interrupt, TimerFire
  <2>4. PICK W : WakeStep(W, runqueue, {})
    BY <1>0, <2>1, <2>2, <2>3, EmitWakes
  <2>5. PollsKept(IdleThread)
    BY <2>1, <2>2, EmitKept
  <2>6. ActorStep(IdleThread, W, runqueue, {})
    BY <2>3, <2>4, <2>5, IdleActs
  <2> QED
    BY <2>6 DEF SomeActorStep
<1>12. ASSUME NEW t \in Threads, ScheduleRunnable(t) \/ ScheduleDestroyed(t)
       PROVE  Goal
  <2>1. /\ Schedule(t)
        /\ state[t] # "Blocked"
        /\ runqueue' = PopNext
        /\ UNCHANGED <<polls, state, promise, halted>>
    BY <1>12 DEF ScheduleRunnable, ScheduleDestroyed
  <2>2. WakeStep({}, runqueue', {})
    BY <1>0, <2>1, NobodyWoken
  <2>3. WakeStep({}, PopNext, {t})
    BY <2>1, <2>2 DEF WakeStep
  <2>4. PollsKept(t)
    BY <2>1, SamePollsKept
  <2>5. ActorStep(t, {}, PopNext, {t})
    BY <2>1, <2>3, <2>4, ScheduleActs
  <2> QED
    BY <2>5 DEF SomeActorStep
<1>13. ASSUME NEW t \in Threads, SchedulePollReady(t)
       PROVE  Goal
  <2>1. /\ Schedule(t)
        /\ halted = "No"
        /\ state' = [state EXCEPT ![t] = "Runnable"]
        /\ state'[t] = "Runnable"
        /\ promise' = promise
        /\ promise[t] \in Polls
    BY <1>0, <1>13 DEF SchedulePollReady, Schedule, TypeInv, TypeOK
  <2>2. <<t, promise[t]>> \in Uses
    BY <2>1, PollAssumption DEF EventInv, UsesOwn
  <2>3. PICK i \in LiveAt(polls[promise[t]]) :
          TryWaitReady(t, promise[t], i, PopNext, {t})
    BY <1>13 DEF SchedulePollReady
  <2>4. PICK W : WakeStep(W, PopNext, {t})
    BY <1>0, <2>1, <2>3, PopNextMoves, TryWaitWakes
  <2>5. PollsKept(t)
    BY <2>1, <2>2, <2>3, TryWaitKept
  <2>6. ActorStep(t, W, PopNext, {t})
    BY <2>1, <2>4, <2>5, ScheduleActs
  <2> QED
    BY <2>6 DEF SomeActorStep
<1>14. ASSUME NEW t \in Threads, SchedulePollNone(t)
       PROVE  Goal
  BY <1>14
<1>15. ASSUME ScheduleIdle \/ UNCHANGED vars
       PROVE  Goal
  <2>1. UNCHANGED <<polls, runqueue, state, promise, halted>>
    BY <1>15 DEF ScheduleIdle, vars
  <2>2. WakeStep({}, runqueue', {})
    BY <1>0, <2>1, NobodyWoken
  <2>3. WakeStep({}, runqueue, {})
    BY <2>1, <2>2 DEF WakeStep
  <2>4. PollsKept(IdleThread)
    BY <2>1, SamePollsKept
  <2>5. ActorStep(IdleThread, {}, runqueue, {})
    BY <2>1, <2>3, <2>4, IdleActs
  <2> QED
    BY <2>5 DEF SomeActorStep
<1> HIDE DEF Goal
<1>16. ASSUME NEW t \in Threads, PollSyscall(t)
       PROVE  Goal
  <2>1. \A m \in Masks : m \in SUBSET Readiness /\ Readiness \ m \in SUBSET Readiness
    BY PollAssumption
  <2>2. {} \in SUBSET Readiness /\ Readiness \in SUBSET Readiness
    OBVIOUS
  <2> QED
    BY <1>1, <1>2, <1>3, <1>4, <1>5, <1>16, <2>1, <2>2 DEF PollSyscall
<1>17. ASSUME NEW t \in Threads, ThreadSyscall(t)
       PROVE  Goal
  BY <1>6, <1>7, <1>8, <1>9, <1>17 DEF ThreadSyscall
<1>18. ASSUME NEW t \in Threads, SourceSyscall(t)
       PROVE  Goal
  BY <1>10, <1>18 DEF SourceSyscall, Sources, Readiness
<1>19. ASSUME ScheduleStep
       PROVE  Goal
  BY <1>12, <1>13, <1>14, <1>15, <1>19 DEF ScheduleStep
<1>20. Goal
  BY <1>11, <1>15, <1>16, <1>17, <1>18, <1>19 DEF Next
<1> QED
  BY <1>20 DEF Goal
-----------------------------------------------------------------------------
(* Pending events are queued                                               *)

LEMMA EventInit == Init => EventInv
<1> SUFFICES ASSUME Init PROVE EventInv
  OBVIOUS
<1>1. ThreadInv
  BY ThreadInit
<1>2. ReadyIsQueued
  BY DEF Init, NewPoll, ReadyIsQueued
<1>3. UsesOwn
  BY DEF Init, UsesOwn
<1> QED
  BY <1>1, <1>2, <1>3 DEF EventInv

(* A blocked thread that schedule() polls in vain only sheds stale ids. *)
LEMMA SchedulePollNoneKept ==
  ASSUME EventInv, NEW t \in Threads, SchedulePollNone(t)
  PROVE  PollsKept(t)
<1>1. promise[t] \in Polls /\ <<t, promise[t]>> \in Uses
  BY PollAssumption DEF SchedulePollNone, EventInv, ThreadInv, TypeInv, UsesOwn
<1>2. ReadyQueued(DropStale(polls[promise[t]]))
  BY <1>1, EventFacts, DropStaleQueued DEF SchedulePollNone
<1>3. polls' = [polls EXCEPT ![promise[t]] = DropStale(polls[promise[t]])]
  BY <1>1, EventFacts DEF SchedulePollNone
<1> QED
  BY <1>1, <1>2, <1>3, OwnPollKept

LEMMA EventStep == EventInv /\ [Next]_vars => EventInv'
<1> SUFFICES ASSUME EventInv, [Next]_vars PROVE EventInv'
  OBVIOUS
<1>1. ThreadInv'
  BY ThreadStep DEF EventInv
<1>2. UsesOwn
  BY DEF EventInv
<1>3. (\A p \in Polls : ReadyQueued(polls'[p])) => ReadyIsQueued'
  BY DEF ReadyQueued, ReadyIsQueued
<1>4. ASSUME NEW t \in Threads, NEW p \in Polls, PollWaitBlock(t, p)
      PROVE  ReadyIsQueued' /\ UsesOwn'
  <2>1. ReadyIsQueued'
    BY <1>3, <1>4, PollWaitBlockKept DEF PollsKept
  <2>2. <<t, p>> \in Uses /\ promise' = [promise EXCEPT ![t] = p]
    BY <1>4 DEF PollWaitBlock
  <2>3. promise \in [Threads -> Polls \cup {NoPoll}]
    BY EventFacts DEF TypeOK
  <2>4. UsesOwn'
    BY <1>2, <2>2, <2>3 DEF UsesOwn
  <2> QED
    BY <2>1, <2>4
<1>5. ASSUME NEW t \in Threads, SchedulePollNone(t)
      PROVE  ReadyIsQueued' /\ UsesOwn'
  <2>1. ReadyIsQueued'
    BY <1>3, <1>5, SchedulePollNoneKept DEF PollsKept
  <2>2. UsesOwn'
    BY <1>2, <1>5 DEF UsesOwn, SchedulePollNone
  <2> QED
    BY <2>1, <2>2
<1>6. ASSUME SomeActorStep
      PROVE  ReadyIsQueued' /\ UsesOwn'
  <2>1. PICK t \in Threads \cup {IdleThread} : PollsKept(t) /\ promise' = promise
    BY <1>6 DEF SomeActorStep, ActorStep
  <2> QED
    BY <1>2, <1>3, <2>1 DEF PollsKept, UsesOwn
<1> QED
  BY <1>1, <1>4, <1>5, <1>6, StepKinds DEF EventInv

(* An object with pending events stays in the ready queue through every    *)
(* sequence of add, update, remove, wait and emit: do_try_wait finds what  *)
(* Poll::notify has recorded.                                              *)
THEOREM EventsAreQueued == Spec => []ReadyIsQueued
<1>1. Init => EventInv
  BY EventInit
<1>2. EventInv /\ [Next]_vars => EventInv'
  BY EventStep
<1>3. EventInv => ReadyIsQueued
  BY DEF EventInv
<1> QED
  BY <1>1, <1>2, <1>3, PTL DEF Spec

-----------------------------------------------------------------------------
(* No lost wakeup                                                          *)

(* With one user per poll: whoever waits has no event pending, and whoever *)
(* was woken still has one, because nobody else can take it.               *)
ProgressInv ==
  /\ EventInv
  /\ BlockedCanProgress
  /\ \A t \in Threads, p \in Polls : Waiting(t, p) => ~Live(polls[p])
  /\ \A t \in Threads : state[t] = "Blocked" /\ Queued(t) => Live(polls[promise[t]])

LEMMA ProgressInit == Init => ProgressInv
<1> SUFFICES ASSUME Init PROVE ProgressInv
  OBVIOUS
<1>1. EventInv
  BY EventInit
<1>2. \A t \in Threads, p \in Polls : ~Waiting(t, p)
  BY DEF Init, NewPoll, Waiting, InSeq
<1>3. \A t \in Threads : state[t] # "Blocked"
  BY DEF Init
<1> QED
  BY <1>1, <1>2, <1>3 DEF ProgressInv, BlockedCanProgress

(* A waiter uses the poll, and is its only user. *)
LEMMA WaiterUses ==
  ASSUME ExclusivePolls, EventInv, NEW u \in Threads, NEW r \in Polls, Waiting(u, r)
  PROVE  /\ promise[u] = r
         /\ \A t : t # u => <<t, r>> \notin Uses
<1>1. promise[u] = r
  BY DEF EventInv, ThreadInv, QueuedStates
<1>2. <<u, r>> \in Uses
  BY <1>1, PollAssumption DEF EventInv, UsesOwn
<1>3. \A t : <<t, r>> \in Uses => t \in Threads
  BY PollAssumption
<1> QED
  BY <1>1, <1>2, <1>3 DEF ExclusivePolls

LEMMA ActorProgress ==
  ASSUME ExclusivePolls, ProgressInv, NEW t, NEW W, NEW rq, NEW held,
         ActorStep(t, W, rq, held), EventInv'
  PROVE  ProgressInv'
<1>1. EventInv /\ ThreadInv /\ TypeInv
  BY DEF ProgressInv, EventInv, ThreadInv
<1>2. /\ \A u \in Threads : InSeq(u, runqueue') <=> InSeq(u, rq) \/ u \in W
      /\ \A u \in Threads, p \in Polls :
           InSeq(u, polls'[p].waiters) <=> Waiting(u, p) /\ u \notin W
  BY <1>1, WakeMoves DEF ActorStep
<1>3. ASSUME NEW r \in Polls
      PROVE  polls[r].waiters \in Seq(Threads) /\ NoDuplicates(polls[r].waiters)
  BY <1>1 DEF ThreadInv, TypeInv, TypeOK, PollState, OnePlace
<1>4. ASSUME NEW u \in Threads, state'[u] = "Blocked"
      PROVE  /\ u # t
             /\ state[u] = "Blocked"
             /\ promise'[u] = promise[u]
             /\ promise[u] \in Polls
             /\ Keeps(polls[promise[u]], polls'[promise[u]])
  <2>1. u # t /\ state[u] = "Blocked" /\ promise' = promise /\ PollsKept(t)
    BY <1>4 DEF ActorStep
  <2>2. promise[u] \in Polls
    BY <1>1, <2>1 DEF TypeInv
  <2>3. <<u, promise[u]>> \in Uses
    BY <1>1, <2>2, PollAssumption DEF EventInv, UsesOwn
  <2>4. <<t, promise[u]>> \notin Uses
    BY <2>1, <2>2, <2>3, PollAssumption DEF ExclusivePolls
  <2> QED
    BY <2>1, <2>2, <2>4 DEF PollsKept
<1>5. ASSUME NEW u \in Threads, state'[u] = "Blocked"
      PROVE  InSeq(u, runqueue') \/ InSeq(u, polls'[promise'[u]].waiters)
  <2>1. Queued(u) \/ Waiting(u, promise[u])
    BY <1>4, <1>5 DEF ProgressInv, BlockedCanProgress
  <2>2. Queued(u) => InSeq(u, rq)
    BY <1>4, <1>5 DEF ActorStep
  <2> QED
    BY <1>2, <1>4, <1>5, <2>1, <2>2
<1>6. ASSUME NEW u \in Threads, NEW r \in Polls, InSeq(u, polls'[r].waiters)
      PROVE  ~Live(polls'[r])
  <2>1. Waiting(u, r) /\ u # t
    BY <1>2, <1>6 DEF ActorStep
  <2>2. <<t, r>> \notin Uses
    BY <1>1, <2>1, WaiterUses
  <2>3. Keeps(polls[r], polls'[r])
    BY <2>2 DEF ActorStep, PollsKept
  <2>4. ~Live(polls[r])
    BY <2>1 DEF ProgressInv
  <2>5. polls[r].waiters # <<>>
    BY <2>1 DEF Waiting, InSeq
  <2>6. ASSUME polls'[r].waiters = Tail(polls[r].waiters)
        PROVE  FALSE
    <3> DEFINE h == Head(polls[r].waiters)
    <3>1. h \in Threads /\ Waiting(h, r) /\ ~InSeq(h, polls'[r].waiters)
      BY <1>3, <2>5, <2>6, TailHolds DEF Waiting
    <3> HIDE DEF h
    <3>2. <<h, r>> \in Uses
      BY <1>1, <3>1, WaiterUses, PollAssumption DEF EventInv, UsesOwn
    <3>3. h = u
      BY <1>1, <2>1, <3>2, WaiterUses
    <3> QED
      BY <1>6, <3>1, <3>3
  <2> QED
    BY <2>3, <2>4, <2>5, <2>6 DEF Keeps
<1>7. ASSUME NEW u \in Threads, state'[u] = "Blocked", InSeq(u, runqueue')
      PROVE  Live(polls'[promise'[u]])
  <2> DEFINE r == promise[u]
  <2>1. /\ u # t
        /\ state[u] = "Blocked"
        /\ promise'[u] = r
        /\ r \in Polls
        /\ Keeps(polls[r], polls'[r])
    BY <1>4, <1>7
  <2>2. CASE InSeq(u, rq)
    <3>1. Queued(u)
      BY <2>1, <2>2 DEF ActorStep
    <3>2. Live(polls[r])
      BY <2>1, <3>1 DEF ProgressInv
    <3> QED
      BY <2>1, <3>2 DEF Keeps
  <2>3. CASE u \in W
    <3>1. PICK p \in Polls : /\ polls[p].waiters # <<>>
                             /\ polls'[p].waiters = Tail(polls[p].waiters)
                             /\ u = Head(polls[p].waiters)
      BY <2>3 DEF ActorStep, WakeStep, Wakes
    <3>2. Waiting(u, p) /\ ~InSeq(u, polls'[p].waiters)
      BY <1>3, <3>1, TailHolds DEF Waiting
    <3>3. p = r
      BY <1>1, <3>2, WaiterUses
    <3>4. polls'[r].waiters # polls[r].waiters
      BY <3>2, <3>3 DEF Waiting
    <3> QED
      BY <2>1, <3>4 DEF Keeps
  <2> QED
    BY <1>2, <1>7, <2>1, <2>2, <2>3
<1> QED
  BY <1>5, <1>6, <1>7 DEF ProgressInv, BlockedCanProgress, Queued, Waiting

LEMMA BlockProgress ==
  ASSUME ExclusivePolls, ProgressInv, NEW t \in Threads, NEW p \in Polls,
         PollWaitBlock(t, p), EventInv'
  PROVE  ProgressInv'
<1>1. EventInv /\ ThreadInv /\ TypeInv
  BY DEF ProgressInv, EventInv, ThreadInv
<1>2. /\ ~Queued(t)
      /\ runqueue' = runqueue
      /\ state' = [state EXCEPT ![t] = "Blocked"]
      /\ promise' = [promise EXCEPT ![t] = p]
      /\ \A r \in Polls \ {p} : polls'[r] = polls[r]
      /\ \A u \in Threads, r \in Polls :
           InSeq(u, polls'[r].waiters) <=> (u = t /\ r = p) \/ Waiting(u, r)
  BY <1>1, BlockMoves
<1>3. /\ state \in [Threads -> ThreadState]
      /\ promise \in [Threads -> Polls \cup {NoPoll}]
  BY <1>1 DEF TypeInv, TypeOK
<1>4. ~Live(polls'[p]) /\ <<t, p>> \in Uses
  BY <1>1, PollWaitBlockKept DEF PollWaitBlock
<1>5. ASSUME NEW u \in Threads, u # t, state'[u] = "Blocked"
      PROVE  /\ state[u] = "Blocked"
             /\ promise'[u] = promise[u]
             /\ promise[u] \in Polls \ {p}
  <2>1. state[u] = "Blocked" /\ promise'[u] = promise[u]
    BY <1>2, <1>3, <1>5
  <2>2. promise[u] \in Polls
    BY <1>1, <2>1 DEF TypeInv
  <2>3. <<u, promise[u]>> \in Uses
    BY <1>1, <2>2, PollAssumption DEF EventInv, UsesOwn
  <2> QED
    BY <1>4, <1>5, <2>1, <2>2, <2>3 DEF ExclusivePolls
<1>6. ASSUME NEW u \in Threads, state'[u] = "Blocked"
      PROVE  InSeq(u, runqueue') \/ InSeq(u, polls'[promise'[u]].waiters)
  <2>1. CASE u = t
    BY <1>2, <1>3, <2>1
  <2>2. CASE u # t
    BY <1>2, <1>5, <1>6, <2>2 DEF ProgressInv, BlockedCanProgress, Queued
  <2> QED
    BY <2>1, <2>2
<1>7. ASSUME NEW u \in Threads, NEW r \in Polls, InSeq(u, polls'[r].waiters)
      PROVE  ~Live(polls'[r])
  <2>1. CASE r = p
    BY <1>4, <2>1
  <2>2. CASE r # p
    BY <1>2, <1>7, <2>2 DEF ProgressInv
  <2> QED
    BY <2>1, <2>2
<1>8. ASSUME NEW u \in Threads, state'[u] = "Blocked", InSeq(u, runqueue')
      PROVE  Live(polls'[promise'[u]])
  <2>1. Queued(u) /\ u # t
    BY <1>2, <1>8 DEF Queued
  <2> QED
    BY <1>2, <1>5, <1>8, <2>1 DEF ProgressInv
<1> QED
  BY <1>6, <1>7, <1>8 DEF ProgressInv, BlockedCanProgress, Queued, Waiting

LEMMA ProgressStep ==
  ASSUME ExclusivePolls
  PROVE  ProgressInv /\ [Next]_vars => ProgressInv'
<1> SUFFICES ASSUME ProgressInv, [Next]_vars PROVE ProgressInv'
  OBVIOUS
<1>1. EventInv
  BY DEF ProgressInv
<1>2. EventInv'
  BY <1>1, EventStep
<1>3. ASSUME NEW t \in Threads, NEW p \in Polls, PollWaitBlock(t, p)
      PROVE  ProgressInv'
  BY <1>2, <1>3, BlockProgress
<1>4. ASSUME NEW t \in Threads, SchedulePollNone(t)
      PROVE  FALSE
  <2>1. Queued(t)
    BY <1>1, <1>4, PopNextMoves DEF EventInv, SchedulePollNone
  <2>2. Live(polls[promise[t]])
    BY <1>4, <2>1 DEF ProgressInv, SchedulePollNone
  <2> QED
    BY <1>4, <2>2 DEF SchedulePollNone, Live
<1>5. ASSUME SomeActorStep
      PROVE  ProgressInv'
  <2>1. PICK t \in Threads \cup {IdleThread} : \E W, rq, held : ActorStep(t, W, rq, held)
    BY <1>5 DEF SomeActorStep
  <2>2. PICK W, rq, held : ActorStep(t, W, rq, held)
    BY <2>1
  <2> QED
    BY <1>2, <2>2, ActorProgress
<1> QED
  BY <1>1, <1>3, <1>4, <1>5, StepKinds

(* If every poll has one user, as the poll of an EventLoop has, a thread   *)
(* never sleeps in poll_wait while an event is pending, and a blocked      *)
(* thread is always where notify() or schedule() finds it.  With two users *)
(* one can take the event another was woken for, and that one then stays   *)
(* Blocked in no queue: the assumption cannot be dropped.                  *)
THEOREM NoWakeupIsLost ==
  ASSUME ExclusivePolls
  PROVE  Spec => [](NoLostWakeup /\ BlockedCanProgress)
<1>1. Init => ProgressInv
  BY ProgressInit
<1>2. ProgressInv /\ [Next]_vars => ProgressInv'
  BY ProgressStep
<1>3. ProgressInv => NoLostWakeup /\ BlockedCanProgress
  BY DEF ProgressInv, NoLostWakeup, Pending, Live
<1> QED
  BY <1>1, <1>2, <1>3, PTL DEF Spec

(* With one user per poll, a blocked thread is always a waiter of the poll *)
(* it blocked on or in the run queue, so the next event or the next turn   *)
(* of schedule() gets it going.                                            *)
THEOREM BlockedMakeProgress ==
  ASSUME ExclusivePolls
  PROVE  Spec => []BlockedCanProgress
BY NoWakeupIsLost, PTL

-----------------------------------------------------------------------------
(* The ready queue of one poll                                             *)

Once(id, s) == \A i, j \in DOMAIN s : s[i] = id /\ s[j] = id => i = j

(* ReadyQueueExact for one id of one poll. *)
Exact(q, id) ==
  /\ InSeq(id, q.ready_queue) <=> id \in q.objects /\ q.ready[id] # {}
  /\ Once(id, q.ready_queue)

(* Appending an id leaves the others where they are. *)
LEMMA AppendOnce ==
  ASSUME NEW s \in Seq(Ids), NEW x \in Ids, NEW id \in Ids, Once(id, s),
         id = x => ~InSeq(x, s)
  PROVE  /\ Once(id, Append(s, x))
         /\ InSeq(id, Append(s, x)) <=> id = x \/ InSeq(id, s)
<1>1. /\ DOMAIN s = 1..Len(s) /\ Len(s) \in Nat
      /\ DOMAIN Append(s, x) = 1..(Len(s) + 1)
      /\ \A i \in 1..Len(s) : Append(s, x)[i] = s[i]
      /\ Append(s, x)[Len(s) + 1] = x
  OBVIOUS
<1> DEFINE r == Append(s, x)
<1> HIDE DEF r
<1>2. ASSUME NEW i \in DOMAIN r, NEW j \in DOMAIN r, r[i] = id, r[j] = id
      PROVE  i = j
  <2>1. ASSUME NEW k \in DOMAIN r
        PROVE  k \in DOMAIN s \/ k = Len(s) + 1
    BY <1>1 DEF r
  <2>2. CASE i \in DOMAIN s /\ j \in DOMAIN s
    BY <1>1, <1>2, <2>2 DEF r, Once
  <2>3. CASE i = Len(s) + 1 /\ j = Len(s) + 1
    BY <2>3
  <2>4. CASE i \in DOMAIN s /\ j = Len(s) + 1
    BY <1>1, <1>2, <2>4 DEF r, InSeq
  <2>5. CASE i = Len(s) + 1 /\ j \in DOMAIN s
    BY <1>1, <1>2, <2>5 DEF r, InSeq
  <2> QED
    BY <2>1, <2>2, <2>3, <2>4, <2>5
<1>3. Once(id, r)
  BY <1>2 DEF Once
<1>4. InSeq(id, Append(s, x)) <=> id = x \/ InSeq(id, s)
  BY AppendHolds
<1> QED
  BY <1>3, <1>4 DEF r

(* Poll::notify queues an id only if it had nothing pending. *)
LEMMA NotifyExact ==
  ASSUME NEW q \in PollState, NEW x, NEW ev \in SUBSET Readiness, ev # {},
         NEW id \in Ids, Exact(q, id)
  PROVE  Exact(Notify(q, x, ev), id)
<1>1. CASE x \notin q.objects
  BY <1>1, NotifyUnknown
<1>2. CASE x \in q.objects
  <2> DEFINE q2 == Notify(q, x, ev)
  <2>1. /\ q2.objects = q.objects
        /\ q2.ready = [q.ready EXCEPT ![x] = @ \cup ev]
        /\ q2.ready_queue =
             IF q.ready[x] = {} THEN Append(q.ready_queue, x) ELSE q.ready_queue
    BY <1>2, NotifyFields
  <2>2. /\ q.ready_queue \in Seq(Ids)
        /\ q.ready \in [Ids -> SUBSET Readiness]
        /\ x \in Ids
    BY <1>2 DEF PollState
  <2> HIDE DEF q2
  <2>3. CASE q.ready[x] = {}
    <3>1. id = x => ~InSeq(x, q.ready_queue)
      BY <2>3 DEF Exact
    <3>2. /\ Once(id, q2.ready_queue)
          /\ InSeq(id, q2.ready_queue) <=> id = x \/ InSeq(id, q.ready_queue)
      BY <2>1, <2>2, <2>3, <3>1, AppendOnce DEF Exact
    <3>3. id = x => id \in q2.objects /\ q2.ready[id] # {}
      BY <1>2, <2>1, <2>2
    <3>4. id # x => q2.ready[id] = q.ready[id]
      BY <2>1, <2>2
    <3> QED
      BY <2>1, <3>2, <3>3, <3>4 DEF Exact, q2
  <2>4. CASE q.ready[x] # {}
    <3>1. q2.ready_queue = q.ready_queue
      BY <2>1, <2>4
    <3>2. q2.ready[id] # {} <=> q.ready[id] # {}
      BY <2>1, <2>2, <2>4
    <3> QED
      BY <2>1, <3>1, <3>2 DEF Exact, q2
  <2> QED
    BY <2>3, <2>4
<1> QED
  BY <1>1, <1>2

(* Between the poll states ps and ps2, objects stay registered and exact   *)
(* queues stay exact.                                                      *)
Agree(ps, ps2) ==
  \A p \in Polls :
    /\ ps2[p].objects = ps[p].objects
    /\ \A id \in Ids : Exact(ps[p], id) => Exact(ps2[p], id)

LEMMA NotifyAllAgrees ==
  ASSUME NEW ps \in [Polls -> PollState], NEW ls \in [Polls -> Listener],
         NEW l \in SUBSET Readiness
  PROVE  Agree(ps, NotifyAll(ls, l, ps))
<1>1. \A p \in Polls : NotifyAll(ls, l, ps)[p].objects = ps[p].objects
  BY NotifyAllWakes
<1>2. ASSUME NEW p \in Polls, NEW id \in Ids, Exact(ps[p], id)
      PROVE  Exact(NotifyAll(ls, l, ps)[p], id)
  <2> DEFINE ev == ls[p].interests \cap l
  <2>1. ps[p] \in PollState /\ ev \in SUBSET Readiness
    BY DEF Listener
  <2>2. NotifyAll(ls, l, ps)[p] = IF ev = {} THEN ps[p] ELSE Notify(ps[p], ls[p].id, ev)
    BY DEF NotifyAll
  <2>3. CASE ev = {}
    BY <1>2, <2>2, <2>3
  <2>4. CASE ev # {}
    <3> HIDE DEF ev
    <3>1. NotifyAll(ls, l, ps)[p] = Notify(ps[p], ls[p].id, ev)
      BY <2>2, <2>4
    <3> QED
      BY <1>2, <2>1, <2>4, <3>1, NotifyExact
  <2> QED
    BY <2>3, <2>4
<1> QED
  BY <1>1, <1>2 DEF Agree

(* do_try_wait pops up to the first registered id.  An exact id before it  *)
(* would be registered, so none is lost with the stale ones.               *)
LEMMA PopReadyExact ==
  ASSUME NEW q \in PollState, NEW i \in FirstLive(q), NEW id \in Ids, Exact(q, id)
  PROVE  Exact(PopReady(q, i), id)
<1> DEFINE s == q.ready_queue
           s2 == SubSeq(s, i + 1, Len(s))
           q2 == PopReady(q, i)
<1>1. i \in LiveAt(q) /\ \A j \in LiveAt(q) : i <= j
  BY DEF FirstLive
<1>2. /\ q2.objects = q.objects
      /\ q2.ready = [q.ready EXCEPT ![s[i]] = {}]
      /\ q2.ready_queue = s2
      /\ s[i] \in Ids
  BY <1>1, PopReadyFields
<1>3. /\ s \in Seq(Ids)
      /\ q.ready \in [Ids -> SUBSET Readiness]
      /\ i \in 1..Len(s)
      /\ DOMAIN s = 1..Len(s)
  BY <1>1 DEF PollState, LiveAt
<1>4. DOMAIN s2 = 1..(Len(s) - i) /\ \A j \in DOMAIN s2 : j + i \in DOMAIN s /\ s2[j] = s[j + i]
  <2>1. DOMAIN s2 = 1..(Len(s) - i)
    BY <1>3
  <2>2. ASSUME NEW j \in 1..(Len(s) - i)
        PROVE  j + i \in DOMAIN s /\ s2[j] = s[j + i]
    <3>1. s2[j] = s[(i + 1) + j - 1]
      BY <1>3
    <3> QED
      BY <1>3, <3>1
  <2> QED
    BY <2>1, <2>2
<1> HIDE DEF q2, s2, s
<1>5. Once(id, s2)
  <2>1. ASSUME NEW j \in DOMAIN s2, NEW k \in DOMAIN s2, s2[j] = id, s2[k] = id
        PROVE  j = k
    <3>1. j + i = k + i
      BY <1>4, <2>1 DEF Exact, Once, s
    <3> QED
      BY <1>3, <1>4, <3>1
  <2> QED
    BY <2>1 DEF Once
<1>6. CASE id = s[i]
  <2>1. ~InSeq(id, s2)
    <3> SUFFICES ASSUME NEW j \in DOMAIN s2, s2[j] = id PROVE FALSE
      BY DEF InSeq
    <3>1. j + i = i
      BY <1>3, <1>4, <1>6 DEF Exact, Once, s
    <3> QED
      BY <1>3, <1>4, <3>1
  <2>2. q2.ready[id] = {}
    BY <1>2, <1>3, <1>6
  <2> QED
    BY <1>2, <1>5, <2>1, <2>2 DEF Exact, q2
<1>7. CASE id # s[i]
  <2>1. q2.ready[id] = q.ready[id]
    BY <1>2, <1>3, <1>7
  <2>2. InSeq(id, s2) => InSeq(id, s)
    BY <1>4 DEF InSeq
  <2>3. ASSUME InSeq(id, s)
        PROVE  InSeq(id, s2)
    <3>1. PICK j \in DOMAIN s : s[j] = id
      BY <2>3 DEF InSeq
    <3>2. j \in LiveAt(q)
      BY <2>3, <3>1 DEF Exact, LiveAt, s
    <3>3. j > i
      BY <1>1, <1>3, <1>7, <3>1, <3>2
    <3>4. j - i \in DOMAIN s2 /\ s2[j - i] = s[j]
      BY <1>3, <1>4, <3>3
    <3> QED
      BY <3>1, <3>4 DEF InSeq
  <2> QED
    BY <1>2, <1>5, <2>1, <2>2, <2>3 DEF Exact, q2, s
<1> QED
  BY <1>6, <1>7

(* When nothing registered is queued, nothing exact is dropped. *)
LEMMA DropStaleExact ==
  ASSUME NEW q \in PollState, LiveAt(q) = {}, NEW id \in Ids, Exact(q, id)
  PROVE  Exact(DropStale(q), id)
<1>1. /\ DropStale(q).objects = q.objects
      /\ DropStale(q).ready = q.ready
      /\ DropStale(q).ready_queue = <<>>
  BY DropStaleFields
<1>2. ~InSeq(id, q.ready_queue)
  BY DEF Exact, LiveAt, InSeq
<1>3. ~InSeq(id, <<>>) /\ Once(id, <<>>)
  BY DEF InSeq, Once
<1> QED
  BY <1>1, <1>2, <1>3 DEF Exact

(* Poll::notify on the objects. *)
LEMMA NotifyObjects ==
  ASSUME NEW q \in PollState, NEW x, NEW ev \in SUBSET Readiness
  PROVE  Notify(q, x, ev).objects = q.objects
<1>1. CASE x \in q.objects
  BY <1>1, NotifyFields
<1>2. CASE x \notin q.objects
  BY <1>2, NotifyUnknown
<1> QED
  BY <1>1, <1>2

(* Poll::add starts an id with nothing pending.  If its queue was exact,   *)
(* the id is not queued yet.                                               *)
LEMMA RegisterExact ==
  ASSUME NEW q \in PollState, NEW x \in Ids, x \notin q.objects,
         NEW id \in Ids, Exact(q, id)
  PROVE  Exact(Register(q, x), id)
<1> DEFINE q2 == Register(q, x)
<1>1. /\ q2.objects = q.objects \cup {x}
      /\ q2.ready = [q.ready EXCEPT ![x] = {}]
      /\ q2.ready_queue = q.ready_queue
  BY RegisterFields
<1>2. q.ready \in [Ids -> SUBSET Readiness]
  BY DEF PollState
<1> HIDE DEF q2
<1>3. id = x => q2.ready[id] = {} /\ ~InSeq(id, q.ready_queue)
  BY <1>1, <1>2 DEF Exact
<1>4. id # x => q2.ready[id] = q.ready[id]
  BY <1>1, <1>2
<1> QED
  BY <1>1, <1>3, <1>4 DEF Exact, q2

(* Poll::remove does not touch the other ids. *)
LEMMA UnregisterExact ==
  ASSUME NEW q \in PollState, NEW x \in Ids, NEW id \in Ids, id # x, Exact(q, id)
  PROVE  Exact(Unregister(q, x), id)
<1> DEFINE q2 == Unregister(q, x)
<1>1. /\ q2.objects = q.objects \ {x}
      /\ q2.ready = [q.ready EXCEPT ![x] = {}]
      /\ q2.ready_queue = q.ready_queue
  BY UnregisterFields
<1>2. q.ready \in [Ids -> SUBSET Readiness]
  BY DEF PollState
<1> HIDE DEF q2
<1>3. q2.ready[id] = q.ready[id]
  BY <1>1, <1>2
<1> QED
  BY <1>1, <1>3 DEF Exact, q2

(* One poll changes. *)
LEMMA OneAgrees ==
  ASSUME TypeOK, NEW p \in Polls, NEW q2, polls' = [polls EXCEPT ![p] = q2],
         q2.objects = polls[p].objects,
         \A id \in Ids : Exact(polls[p], id) => Exact(q2, id)
  PROVE  Agree(polls, polls')
<1>1. \A x \in Polls : polls'[x] = IF x = p THEN q2 ELSE polls[x]
  BY DEF TypeOK
<1> QED
  BY <1>1 DEF Agree

-----------------------------------------------------------------------------
(* The steps that change no registration                                   *)

(* The event that a step returns had been queued with what is reported. *)
EventFrom(p, id) ==
  /\ p \in Polls
  /\ id \in polls[p].objects
  /\ InSeq(id, polls[p].ready_queue)
  /\ event'.poll = p
  /\ event'.id = id
  /\ event'.readiness = polls[p].ready[id]

EventSound ==
  \/ event' = NoEvent
  \/ \E p, id : EventFrom(p, id)

RegistrationsKept ==
  /\ UNCHANGED <<listeners, removed>>
  /\ Agree(polls, polls')

LEMMA EmitAgrees ==
  ASSUME TypeOK, NEW o \in Objects, NEW l \in SUBSET Readiness, NEW held, NEW d,
         Emit(o, l, held, d)
  PROVE  Agree(polls, polls')
BY NotifyAllAgrees DEF Emit, TypeOK

LEMMA SameAgrees ==
  ASSUME UNCHANGED polls
  PROVE  Agree(polls, polls')
BY DEF Agree

LEMMA TryWaitAgrees ==
  ASSUME TypeOK, NEW t, NEW p \in Polls, NEW i, NEW rq, NEW held,
         TryWaitReady(t, p, i, rq, held)
  PROVE  Agree(polls, polls') /\ EventSound
<1> DEFINE q  == polls[p]
           id == q.ready_queue[i]
           r  == q.ready[id]
           o  == Object[id]
           l  == latest[o] \ r
           ps == [polls EXCEPT ![p] = PopReady(q, i)]
<1>1. i \in FirstLive(q) /\ i \in LiveAt(q)
  BY DEF TryWaitReady, FirstLive
<1>2. /\ q \in PollState
      /\ polls \in [Polls -> PollState]
      /\ latest \in [Objects -> SUBSET Readiness]
      /\ listeners \in [Objects -> [Polls -> Listener]]
  BY DEF TypeOK
<1>3. /\ PopReady(q, i) \in PollState
      /\ PopReady(q, i).objects = q.objects
      /\ id \in Ids
      /\ id \in q.objects
  BY <1>1, <1>2, PopReadyFields
<1>4. EventSound
  <2>1. event' = [thread |-> t, poll |-> p, id |-> id, readiness |-> r]
    BY DEF TryWaitReady
  <2>2. InSeq(id, q.ready_queue)
    BY <1>1 DEF InSeq, LiveAt
  <2>3. event'.poll = p /\ event'.id = id /\ event'.readiness = r
    BY <2>1
  <2>4. EventFrom(p, id)
    BY <1>3, <2>2, <2>3 DEF EventFrom
  <2> QED
    BY <2>4 DEF EventSound
<1>5. /\ ps \in [Polls -> PollState]
      /\ \A x \in Polls : /\ ps[x].objects = polls[x].objects
                          /\ \A k \in Ids : Exact(polls[x], k) => Exact(ps[x], k)
  <2>1. ps \in [Polls -> PollState]
    BY <1>2, <1>3
  <2>2. \A x \in Polls : ps[x] = IF x = p THEN PopReady(q, i) ELSE polls[x]
    BY <1>2
  <2>3. \A k \in Ids : Exact(q, k) => Exact(PopReady(q, i), k)
    BY <1>1, <1>2, PopReadyExact
  <2> HIDE DEF ps
  <2> QED
    BY <1>3, <2>1, <2>2, <2>3
<1>6. CASE polls' = ps
  <2> HIDE DEF ps
  <2> QED
    BY <1>4, <1>5, <1>6 DEF Agree
<1>7. CASE polls' = NotifyAll(listeners[o], l, ps)
  <2>1. o \in Objects
    BY <1>3, PollAssumption
  <2>2. listeners[o] \in [Polls -> Listener] /\ l \in SUBSET Readiness
    BY <1>2, <2>1
  <2> HIDE DEF ps, l, o
  <2>3. Agree(ps, polls')
    BY <1>5, <1>7, <2>2, NotifyAllAgrees
  <2> QED
    BY <1>4, <1>5, <2>3 DEF Agree
<1> QED
  BY <1>6, <1>7 DEF TryWaitReady

(* PollUpdate notifies at most one id of its poll. *)
LEMMA PollUpdateAgrees ==
  ASSUME TypeOK, NEW t, NEW p \in Polls, NEW id \in Ids,
         NEW or_mask \in SUBSET Readiness, NEW and_mask \in SUBSET Readiness,
         PollUpdate(t, p, id, or_mask, and_mask)
  PROVE  Agree(polls, polls')
<1> DEFINE o   == Object[id]
           new == UpdateListener(listeners[o][p], or_mask, and_mask)
           ev  == new.interests \cap latest[o]
           q2  == IF ev = {} THEN polls[p] ELSE Notify(polls[p], new.id, ev)
<1>1. o \in Objects
  BY PollAssumption
<1>2. polls[p] \in PollState /\ ev \in SUBSET Readiness
  BY <1>1 DEF TypeOK
<1>3. polls' = [polls EXCEPT ![p] = q2]
  BY DEF PollUpdate, TypeOK
<1> HIDE DEF ev, new
<1>4. q2.objects = polls[p].objects
  BY <1>2, NotifyObjects
<1>5. \A k \in Ids : Exact(polls[p], k) => Exact(q2, k)
  <2>1. CASE ev = {}
    BY <2>1
  <2>2. CASE ev # {}
    BY <1>2, <2>2, NotifyExact
  <2> QED
    BY <2>1, <2>2
<1> HIDE DEF q2
<1> QED
  BY <1>3, <1>4, <1>5, OneAgrees

LEMMA PollWaitBlockAgrees ==
  ASSUME TypeOK, NEW t \in Threads, NEW p \in Polls, PollWaitBlock(t, p)
  PROVE  Agree(polls, polls')
<1> DEFINE d  == DropStale(polls[p])
           q2 == JoinWaiters(d, t)
<1>1. polls[p] \in PollState /\ LiveAt(polls[p]) = {}
  BY DEF TypeOK, PollWaitBlock
<1>2. d \in PollState /\ d.objects = polls[p].objects
  BY <1>1, DropStaleFields
<1>3. \A k \in Ids : Exact(polls[p], k) => Exact(d, k)
  BY <1>1, DropStaleExact
<1> HIDE DEF d
<1>4. /\ q2.objects = d.objects
      /\ q2.ready = d.ready
      /\ q2.ready_queue = d.ready_queue
  BY <1>2, JoinWaitersFields
<1>5. polls' = [polls EXCEPT ![p] = q2]
  BY DEF PollWaitBlock, d, TypeOK
<1> HIDE DEF q2
<1>6. \A k \in Ids : Exact(polls[p], k) => Exact(q2, k)
  BY <1>3, <1>4 DEF Exact
<1> QED
  BY <1>2, <1>4, <1>5, <1>6, OneAgrees

LEMMA SchedulePollNoneAgrees ==
  ASSUME TypeInv, NEW t \in Threads, SchedulePollNone(t)
  PROVE  Agree(polls, polls')
<1> DEFINE p  == promise[t]
           q2 == DropStale(polls[p])
<1>1. p \in Polls
  BY DEF TypeInv, SchedulePollNone
<1>2. polls[p] \in PollState /\ LiveAt(polls[p]) = {} /\ TypeOK
  BY <1>1 DEF TypeInv, TypeOK, SchedulePollNone
<1>3. q2.objects = polls[p].objects
  BY <1>2, DropStaleFields
<1>4. \A k \in Ids : Exact(polls[p], k) => Exact(q2, k)
  BY <1>2, DropStaleExact
<1>5. polls' = [polls EXCEPT ![p] = q2]
  BY <1>1 DEF SchedulePollNone, TypeInv, TypeOK
<1> HIDE DEF q2, p
<1> QED
  BY <1>1, <1>2, <1>3, <1>4, <1>5, OneAgrees

-----------------------------------------------------------------------------
(* Registrations and queues under every step                               *)

(* The other actions change neither a listener nor a registration. *)
LEMMA RegistrationSteps ==
  ASSUME TypeInv, [Next]_vars
  PROVE  \/ UNCHANGED vars
         \/ RegistrationsKept /\ EventSound
         \/ \E t \in Threads, p \in Polls, id \in Ids :
              \/ \E m \in Masks : PollAdd(t, p, id, m)
              \/ \E a, b \in SUBSET Readiness : PollUpdate(t, p, id, a, b)
              \/ PollRemove(t, p, id)
<1> DEFINE Kept == RegistrationsKept /\ EventSound
<1> TypeOK
  BY DEF TypeInv
<1>1. ASSUME NEW t \in Threads, NEW p \in Polls, PollWaitReturn(t, p)
      PROVE  Kept
  <2>1. PICK i \in LiveAt(polls[p]) : TryWaitReady(t, p, i, runqueue, {})
    BY <1>1 DEF PollWaitReturn
  <2>2. Agree(polls, polls') /\ EventSound
    BY <2>1, TryWaitAgrees
  <2> QED
    BY <1>1, <2>2 DEF PollWaitReturn, RegistrationsKept
<1>2. ASSUME NEW t \in Threads, NEW p \in Polls, PollWaitBlock(t, p)
      PROVE  Kept
  BY <1>2, PollWaitBlockAgrees DEF PollWaitBlock, RegistrationsKept, EventSound
<1>3. ASSUME NEW t \in Threads, NEW id \in Ids, ThreadSpawn(t, id) \/ HandleClose(t, id)
      PROVE  Kept
  BY <1>3, SameAgrees DEF ThreadSpawn, HandleClose, RegistrationsKept, EventSound
<1>4. ASSUME NEW t \in Threads, ThreadExit(t)
      PROVE  Kept
  <2>1. t \in Objects /\ latest[t] \cup {"PEER_CLOSED"} \in SUBSET Readiness
    BY DEF Objects, TypeOK, Readiness
  <2>2. Agree(polls, polls')
    BY <1>4, <2>1, EmitAgrees DEF ThreadExit
  <2> QED
    BY <1>4, <2>2 DEF ThreadExit, RegistrationsKept, EventSound
<1>5. ASSUME NEW t \in Threads, NEW id \in Ids, ThreadClose(t, id)
      PROVE  Kept
  <2> DEFINE c == Object[id]
  <2>1. c \in Objects /\ latest[c] \cup {"PEER_CLOSED"} \in SUBSET Readiness
    BY <1>5 DEF ThreadClose, Objects, TypeOK, Readiness
  <2>2. Agree(polls, polls')
    BY <1>5, <2>1, EmitAgrees DEF ThreadClose
  <2> QED
    BY <1>5, <2>2 DEF ThreadClose, RegistrationsKept, EventSound
<1>6. ASSUME NEW t \in Threads, NEW o \in Sources, NEW bit \in Readiness,
             SourceSet(t, o, bit) \/ SourceClear(t, o, bit)
      PROVE  Kept
  <2>1. /\ o \in Objects
        /\ latest[o] \cup {bit} \in SUBSET Readiness
        /\ latest[o] \ {bit} \in SUBSET Readiness
    BY DEF Objects, TypeOK
  <2>2. Agree(polls, polls')
    BY <1>6, <2>1, EmitAgrees DEF SourceSet, SourceClear
  <2> QED
    BY <1>6, <2>2 DEF SourceSet, SourceClear, RegistrationsKept, EventSound
<1>7. ASSUME NEW o \in Timers \cup Irqs, Interrupt(o) \/ TimerFire(o)
      PROVE  Kept
  <2>1. o \in Objects /\ latest[o] \cup {"READABLE"} \in SUBSET Readiness
    BY DEF Objects, Sources, TypeOK, Readiness
  <2>2. Agree(polls, polls')
    BY <1>7, <2>1, EmitAgrees DEF Interrupt, TimerFire
  <2> QED
    BY <1>7, <2>2 DEF Interrupt, TimerFire, RegistrationsKept, EventSound
<1>8. ASSUME NEW t \in Threads, ScheduleRunnable(t) \/ ScheduleDestroyed(t)
      PROVE  Kept
  BY <1>8, SameAgrees DEF ScheduleRunnable, ScheduleDestroyed, RegistrationsKept, EventSound
<1>9. ASSUME NEW t \in Threads, SchedulePollReady(t)
      PROVE  Kept
  <2>1. promise[t] \in Polls
    BY <1>9 DEF SchedulePollReady, TypeInv
  <2>2. PICK i \in LiveAt(polls[promise[t]]) :
          TryWaitReady(t, promise[t], i, PopNext, {t})
    BY <1>9 DEF SchedulePollReady
  <2>3. Agree(polls, polls') /\ EventSound
    BY <2>1, <2>2, TryWaitAgrees
  <2> QED
    BY <1>9, <2>3 DEF SchedulePollReady, RegistrationsKept
<1>10. ASSUME NEW t \in Threads, SchedulePollNone(t)
       PROVE  Kept
  BY <1>10, SchedulePollNoneAgrees DEF SchedulePollNone, RegistrationsKept, EventSound
<1>11. ASSUME ScheduleIdle
       PROVE  Kept
  BY <1>11, SameAgrees DEF ScheduleIdle, RegistrationsKept, EventSound
<1> HIDE DEF Kept
<1>12. ASSUME NEW t \in Threads, PollSyscall(t)
       PROVE  \/ Kept
              \/ \E p \in Polls, id \in Ids :
                   \/ \E m \in Masks : PollAdd(t, p, id, m)
                   \/ \E a, b \in SUBSET Readiness : PollUpdate(t, p, id, a, b)
                   \/ PollRemove(t, p, id)
  <2>1. \A m \in Masks : m \in SUBSET Readiness /\ Readiness \ m \in SUBSET Readiness
    BY PollAssumption
  <2>2. {} \in SUBSET Readiness /\ Readiness \in SUBSET Readiness
    OBVIOUS
  <2>3. ASSUME NEW p \in Polls, NEW id \in Ids, NEW m \in Masks,
               \/ PollUpdate(t, p, id, m, Readiness)
               \/ PollUpdate(t, p, id, {}, Readiness \ m)
        PROVE  \E a, b \in SUBSET Readiness : PollUpdate(t, p, id, a, b)
    BY <2>1, <2>2, <2>3
  <2> QED
    BY <1>1, <1>2, <1>12, <2>3 DEF PollSyscall
<1>13. ASSUME NEW t \in Threads, ThreadSyscall(t)
       PROVE  Kept
  BY <1>3, <1>4, <1>5, <1>13 DEF ThreadSyscall
<1>14. ASSUME NEW t \in Threads, SourceSyscall(t)
       PROVE  Kept
  BY <1>6, <1>14 DEF SourceSyscall, Sources, Readiness
<1>15. ASSUME ScheduleStep
       PROVE  Kept
  BY <1>8, <1>9, <1>10, <1>11, <1>15 DEF ScheduleStep
<1>16. CASE UNCHANGED vars
  BY <1>16
<1>17. CASE Next
  BY <1>7, <1>12, <1>13, <1>14, <1>15, <1>17 DEF Next, Kept
<1> QED
  BY <1>16, <1>17

RegisteredInv ==
  /\ TypeInv
  /\ ListenersRegistered
  /\ ReadyQueueExact

(* ReadyQueueExact speaks of Exact. *)
LEMMA ExactDef ==
  ReadyQueueExact <=>
    \A p \in Polls : \A id \in Ids : <<p, id>> \notin removed => Exact(polls[p], id)
BY DEF ReadyQueueExact, Exact, Once

LEMMA ExactDefNext ==
  ReadyQueueExact' <=>
    \A p \in Polls : \A id \in Ids : <<p, id>> \notin removed' => Exact(polls'[p], id)
BY DEF ReadyQueueExact, Exact, Once

LEMMA RegisteredInit == Init => RegisteredInv
<1> SUFFICES ASSUME Init PROVE RegisteredInv
  OBVIOUS
<1>1. TypeInv
  BY TypeInit
<1>2. ListenersRegistered
  BY DEF Init, ListenersRegistered
<1>3. ASSUME NEW p \in Polls, NEW id \in Ids
      PROVE  Exact(polls[p], id)
  BY DEF Init, NewPoll, Exact, Once, InSeq
<1> QED
  BY <1>1, <1>2, <1>3, ExactDef DEF RegisteredInv

(* poll_add: the new listener names the id just registered, which had      *)
(* nothing queued.                                                         *)
LEMMA PollAddRegisters ==
  ASSUME RegisteredInv, NEW t \in Threads, NEW p \in Polls, NEW id \in Ids, NEW m \in Masks,
         PollAdd(t, p, id, m)
  PROVE  ListenersRegistered' /\ ReadyQueueExact'
<1> DEFINE o  == Object[id]
           ev == m \cap latest[o]
           q  == Register(polls[p], id)
           q2 == IF ev = {} THEN q ELSE Notify(q, id, ev)
           new == [id |-> id, interests |-> m]
<1>1. /\ polls \in [Polls -> PollState]
      /\ listeners \in [Objects -> [Polls -> Listener]]
      /\ o \in Objects
      /\ ev \in SUBSET Readiness
      /\ id \notin polls[p].objects
  BY PollAssumption DEF RegisteredInv, TypeInv, TypeOK, PollAdd
<1>2. q \in PollState /\ q.objects = polls[p].objects \cup {id}
  BY <1>1, RegisterFields
<1>3. /\ polls' = [polls EXCEPT ![p] = q2]
      /\ listeners' = StoreListener(o, p, new)
      /\ removed' = removed
  BY DEF PollAdd
<1>4. new.id = id
  OBVIOUS
<1>5. ASSUME NEW k \in Ids, Exact(polls[p], k)
      PROVE  Exact(q2, k)
  <2>1. Exact(q, k)
    BY <1>1, <1>5, RegisterExact
  <2> HIDE DEF q, ev
  <2>2. CASE ev = {}
    BY <2>1, <2>2
  <2>3. CASE ev # {}
    BY <1>1, <1>2, <2>1, <2>3, NotifyExact
  <2> QED
    BY <2>2, <2>3
<1> HIDE DEF q, ev, o, new
<1>6. q2.objects = polls[p].objects \cup {id}
  BY <1>1, <1>2, NotifyObjects
<1> HIDE DEF q2
<1>7. \A x \in Polls : polls'[x] = IF x = p THEN q2 ELSE polls[x]
  BY <1>1, <1>3
<1>8. ReadyQueueExact'
  BY <1>3, <1>5, <1>7, ExactDef, ExactDefNext DEF RegisteredInv
<1>9. \A x \in Objects, y \in Polls :
        listeners'[x][y] = IF x = o /\ y = p THEN new ELSE listeners[x][y]
  BY <1>1, <1>3 DEF StoreListener
<1>10. ListenersRegistered'
  <2> SUFFICES ASSUME NEW x \in Objects, NEW y \in Polls, listeners'[x][y] # NoListener
               PROVE  /\ listeners'[x][y].id \in polls'[y].objects
                      /\ Object[listeners'[x][y].id] = x
    BY DEF ListenersRegistered
  <2>1. CASE x = o /\ y = p
    BY <1>4, <1>6, <1>7, <1>9, <2>1 DEF o
  <2>2. CASE ~(x = o /\ y = p)
    <3>1. /\ listeners[x][y].id \in polls[y].objects
          /\ Object[listeners[x][y].id] = x
      BY <1>9, <2>2 DEF RegisteredInv, ListenersRegistered
    <3> QED
      BY <1>6, <1>7, <1>9, <2>2, <3>1
  <2> QED
    BY <2>1, <2>2
<1> QED
  BY <1>8, <1>10

(* poll_update keeps the id of the listener. *)
LEMMA PollUpdateRegisters ==
  ASSUME RegisteredInv, NEW t \in Threads, NEW p \in Polls, NEW id \in Ids,
         NEW a \in SUBSET Readiness, NEW b \in SUBSET Readiness,
         PollUpdate(t, p, id, a, b)
  PROVE  ListenersRegistered' /\ ReadyQueueExact'
<1> DEFINE o   == Object[id]
           lis == listeners[o][p]
           new == UpdateListener(lis, a, b)
<1>1. /\ TypeOK
      /\ listeners \in [Objects -> [Polls -> Listener]]
      /\ o \in Objects
  BY PollAssumption DEF RegisteredInv, TypeInv, TypeOK
<1>2. Agree(polls, polls')
  BY <1>1, PollUpdateAgrees
<1>3. listeners' = StoreListener(o, p, new) /\ removed' = removed /\ lis # NoListener
  BY DEF PollUpdate
<1>4. new.id = lis.id
  <2>1. lis \in Listener
    BY <1>1
  <2> QED
    BY <2>1 DEF Listener, UpdateListener
<1>5. ReadyQueueExact'
  BY <1>2, <1>3, ExactDef, ExactDefNext DEF RegisteredInv, Agree
<1> HIDE DEF new, o
<1>6. \A x \in Objects, y \in Polls :
        listeners'[x][y] = IF x = o /\ y = p THEN new ELSE listeners[x][y]
  BY <1>1, <1>3 DEF StoreListener
<1>7. ListenersRegistered'
  BY <1>2, <1>3, <1>4, <1>6 DEF RegisteredInv, ListenersRegistered, Agree
<1> QED
  BY <1>5, <1>7

(* poll_remove forgets both halves: only one object has a listener with    *)
(* the id that goes.                                                       *)
LEMMA PollRemoveRegisters ==
  ASSUME RegisteredInv, NEW t \in Threads, NEW p \in Polls, NEW id \in Ids,
         PollRemove(t, p, id)
  PROVE  ListenersRegistered' /\ ReadyQueueExact'
<1> DEFINE o  == Object[id]
           q2 == Unregister(polls[p], id)
<1>1. /\ polls \in [Polls -> PollState]
      /\ listeners \in [Objects -> [Polls -> Listener]]
      /\ o \in Objects
  BY PollAssumption DEF RegisteredInv, TypeInv, TypeOK
<1>2. /\ polls' = [polls EXCEPT ![p] = q2]
      /\ listeners' = StoreListener(o, p, NoListener)
      /\ removed' = removed \cup {<<p, id>>}
  BY DEF PollRemove, RemoveListener
<1>3. q2.objects = polls[p].objects \ {id}
  BY <1>1, UnregisterFields
<1>4. \A k \in Ids : k # id /\ Exact(polls[p], k) => Exact(q2, k)
  BY <1>1, UnregisterExact
<1> HIDE DEF q2
<1>5. \A x \in Polls : polls'[x] = IF x = p THEN q2 ELSE polls[x]
  BY <1>1, <1>2
<1>6. ReadyQueueExact'
  BY <1>2, <1>4, <1>5, ExactDef, ExactDefNext DEF RegisteredInv
<1>7. \A x \in Objects, y \in Polls :
        listeners'[x][y] = IF x = o /\ y = p THEN NoListener ELSE listeners[x][y]
  BY <1>1, <1>2 DEF StoreListener
<1>8. ListenersRegistered'
  <2> SUFFICES ASSUME NEW x \in Objects, NEW y \in Polls, listeners'[x][y] # NoListener
               PROVE  /\ listeners'[x][y].id \in polls'[y].objects
                      /\ Object[listeners'[x][y].id] = x
    BY DEF ListenersRegistered
  <2>1. listeners'[x][y] = listeners[x][y] /\ ~(x = o /\ y = p)
    BY <1>7
  <2>2. /\ listeners[x][y].id \in polls[y].objects
        /\ Object[listeners[x][y].id] = x
    BY <2>1 DEF RegisteredInv, ListenersRegistered
  <2>3. y = p => listeners[x][y].id # id
    BY <2>1, <2>2
  <2> QED
    BY <1>3, <1>5, <2>1, <2>2, <2>3
<1> QED
  BY <1>6, <1>8

LEMMA RegisteredStep == RegisteredInv /\ [Next]_vars => RegisteredInv'
<1> SUFFICES ASSUME RegisteredInv, [Next]_vars PROVE RegisteredInv'
  OBVIOUS
<1>1. TypeInv /\ TypeInv'
  BY TypeStep DEF RegisteredInv
<1>2. CASE UNCHANGED vars
  BY <1>1, <1>2 DEF vars, RegisteredInv, ListenersRegistered, ReadyQueueExact
<1>3. CASE RegistrationsKept
  <2>1. ListenersRegistered'
    BY <1>3 DEF RegistrationsKept, RegisteredInv, ListenersRegistered, Agree
  <2>2. ReadyQueueExact'
    BY <1>3, ExactDef, ExactDefNext DEF RegistrationsKept, RegisteredInv, Agree
  <2> QED
    BY <1>1, <2>1, <2>2 DEF RegisteredInv
<1>4. ASSUME NEW t \in Threads, NEW p \in Polls, NEW id \in Ids,
             \/ \E m \in Masks : PollAdd(t, p, id, m)
             \/ \E a, b \in SUBSET Readiness : PollUpdate(t, p, id, a, b)
             \/ PollRemove(t, p, id)
      PROVE  RegisteredInv'
  <2>1. ListenersRegistered' /\ ReadyQueueExact'
    BY <1>4, PollAddRegisters, PollUpdateRegisters, PollRemoveRegisters
  <2> QED
    BY <1>1, <2>1 DEF RegisteredInv
<1> QED
  BY <1>1, <1>2, <1>3, <1>4, RegistrationSteps

(* The two halves of a registration, PollEmitter.listeners and the objects *)
(* of the Poll, agree after any sequence of poll_add, poll_update and      *)
(* poll_remove, by any threads and with any ids for an object: the early   *)
(* return of Poll::notify is never taken.                                  *)
THEOREM ListenersAgree == Spec => []ListenersRegistered
<1>1. RegisteredInv => ListenersRegistered
  BY DEF RegisteredInv
<1> QED
  BY <1>1, RegisteredInit, RegisteredStep, PTL DEF Spec

(* For an id that poll_remove never removed, Poll.ready_queue is exact: it *)
(* holds the id once if events are pending for it, and else not at all.    *)
THEOREM ReadyQueueIsExact == Spec => []ReadyQueueExact
<1>1. RegisteredInv => ReadyQueueExact
  BY DEF RegisteredInv
<1> QED
  BY <1>1, RegisteredInit, RegisteredStep, PTL DEF Spec

LEMMA EventStepNotEmpty ==
  RegisteredInv /\ EventNotEmpty /\ [Next]_vars => EventNotEmpty'
<1> SUFFICES ASSUME RegisteredInv, EventNotEmpty, [Next]_vars PROVE EventNotEmpty'
  OBVIOUS
<1>1. CASE UNCHANGED vars
  BY <1>1 DEF vars, EventNotEmpty
<1>2. CASE event' = NoEvent
  BY <1>2 DEF EventNotEmpty
<1>3. ASSUME NEW p, NEW id, EventFrom(p, id), RegistrationsKept
      PROVE  EventNotEmpty'
  <2> SUFFICES ASSUME <<p, id>> \notin removed PROVE polls[p].ready[id] # {}
    BY <1>3 DEF EventFrom, EventNotEmpty, RegistrationsKept
  <2>1. id \in Ids
    BY <1>3 DEF EventFrom, RegisteredInv, TypeInv, TypeOK, PollState
  <2> QED
    BY <1>3, <2>1, ExactDef DEF EventFrom, RegisteredInv, Exact
<1>4. ASSUME NEW t \in Threads, NEW p \in Polls, NEW id \in Ids,
             \/ \E m \in Masks : PollAdd(t, p, id, m)
             \/ \E a, b \in SUBSET Readiness : PollUpdate(t, p, id, a, b)
             \/ PollRemove(t, p, id)
      PROVE  event' = NoEvent
  BY <1>4 DEF PollAdd, PollUpdate, PollRemove
<1> QED
  BY <1>1, <1>2, <1>3, <1>4, RegistrationSteps DEF RegisteredInv, EventSound

(* What poll_wait returns for an id that was never removed has a readiness *)
(* bit, as do_try_wait asserts.                                            *)
THEOREM EventsHaveReadiness == Spec => []EventNotEmpty
<1>1. Init => EventNotEmpty
  BY DEF Init, EventNotEmpty
<1> QED
  BY <1>1, RegisteredInit, RegisteredStep, EventStepNotEmpty, PTL DEF Spec
=============================================================================
