--------------------------- MODULE ReseaIpcProofs ---------------------------
(***************************************************************************)
(* Proofs about module ReseaIpc, for any number of processes, threads and  *)
(* channels and any sequence of system calls: the run queue, the sender    *)
(* queues and the receivers of channels agree with what the threads do.    *)
(* The invariant is stated about parameters (a heap H, the threads Th,     *)
(* their blocked flags B, places P, queues On and abort reasons A), since  *)
(* a system call passes through states that no variable holds: the lemmas  *)
(* follow it from one to the next.                                         *)
(***************************************************************************)
EXTENDS ReseaIpc, SequenceTheorems, FiniteSetTheorems, TLAPS

T == Users \cup {Ks}

(* There is a user thread; the threads, the processes and NULL differ; the *)
(* kernel server belongs to the kernel, and the channels of boot exist.    *)
IpcAssumption ==
  /\ IsFiniteSet(Users) /\ IsFiniteSet(Chans) /\ Users # {}
  /\ Ks \notin Users /\ Idle \notin T /\ None \notin T
  /\ Kernel \notin Procs /\ None \notin Procs \cup {Kernel} /\ IsFiniteSet(Procs)
  /\ \A t \in Users : ProcessOf[t] \in Procs
  /\ ProcessOf[Ks] = Kernel
  /\ ServerCh \in Chans /\ None \notin Chans
  /\ \A p \in Procs : KernelEnd[p] \in Chans /\ UserEnd[p] \in Chans
  /\ LinkMax \in Nat

ChannelType ==
  [owner : Procs \cup {Kernel}, ref : Nat, destructed : BOOLEAN, link : Chans, xfer : Chans,
   receiver : T \cup {None}, queue : Seq(T), notif : BOOLEAN]
Heaps == [Chans -> ChannelType \cup {Free}]

Receives == {"receiving", "fastpath"}
Takens == {"taken", "takenfast"}
InCall == Receives \cup Takens \cup {"sending", "filling", "filled"}
Places == {"user", "loop", "serve", "reply"} \cup InCall
PcType == {x \in [at : Places, ch : Chans \cup {None}, recv : BOOLEAN] :
             x.at \in InCall => x.ch \in Chans}
Reasons == {"OK", "NEEDS_RETRY", "CHANNEL_CLOSED"}
ChanCalls ==
  [op : {"destroy", "decref", "unlink", "selflink", "untransfer", "free"}, ch : Chans]
Irqs == [op : {"irq"}, ch : SUBSET Chans]
Calls == ChanCalls \cup Irqs
Kills == [op : {"kill"}, ch : T]

Typed ==
  /\ chan \in Heaps
  /\ threads \subseteq T
  /\ blocked \in [T -> BOOLEAN]
  /\ abort \in [T -> Reasons]
  /\ blockedOn \in [T -> Chans \cup {None}]
  /\ pc \in [T -> PcType]
  /\ buf = [t \in T |-> buf[t]]
  /\ current \in T \cup {Idle}
  /\ listeners \subseteq Chans
  /\ todo \in Seq(Calls \cup Kills)
  /\ links \in 0..LinkMax

(* The run queue Q while cur runs, and while thread_switch chooses.        *)
Ready(Q, Th, B) ==
  /\ Q \in Seq(T)
  /\ IsInjective(Q)
  /\ \A t \in T : t \in ToSet(Q) <=> t \in Th /\ ~B[t]
Scheduled(Q, Th, B, cur) ==
  /\ Q \in Seq(T)
  /\ IsInjective(Q)
  /\ \A t \in T : t \in ToSet(Q) <=> t \in Th /\ ~B[t] /\ t # cur
  /\ cur \in Th => ~B[cur]

(* The receiver of a channel is blocked in the receive phase on it. *)
Receivers(H, Th, B, P) ==
  \A c \in Chans, r \in Th :
    H[c] # Free /\ H[c].receiver = r => B[r] /\ P[r].at \in Receives /\ P[r].ch = c

(* The queue of a channel holds exactly the threads that wait to send on it. *)
Queues(H, Th, B, P, On) ==
  /\ \A c \in Chans : H[c] # Free =>
       /\ IsInjective(H[c].queue)
       /\ \A t \in ToSet(H[c].queue) : t \in Th /\ On[t] = c /\ B[t] /\ P[t].at = "sending"
  /\ \A t \in Th, c \in Chans :
       On[t] = c /\ B[t] /\ P[t].at = "sending" => H[c] # Free /\ t \in ToSet(H[c].queue)

(* A thread that waits in the receive phase is the receiver of its channel, *)
(* or is told of an error.                                                  *)
Found(H, Th, B, P, A) ==
  \A t \in Th : B[t] /\ P[t].at \in Receives /\ A[t] = "OK" =>
    H[P[t].ch] # Free /\ H[P[t].ch].receiver = t

(* The receiver of a channel of its own process is alive. *)
Lives(H, Th) ==
  \A c \in Chans, r \in T :
    H[c] # Free /\ H[c].receiver = r /\ ~H[c].destructed /\ H[c].owner = ProcessOf[r]
      => r \in Th

Waits(H, Th, B, P, On, A) ==
  /\ Receivers(H, Th, B, P)
  /\ Queues(H, Th, B, P, On)
  /\ Found(H, Th, B, P, A)
  /\ Lives(H, Th)

(* process_destroy: the threads go last, and every channel of theirs that  *)
(* is not destructed has its channel_destroy before.                       *)
KillsLast(H, td) ==
  /\ \A i, j \in DOMAIN td : i < j /\ td[i].op = "kill" => td[j].op = "kill"
  /\ \A j \in DOMAIN td, c \in Chans :
       td[j].op = "kill" /\ H[c] # Free /\ ~H[c].destructed
         /\ H[c].owner = ProcessOf[td[j].ch] =>
           \E i \in DOMAIN td : td[i].op = "destroy" /\ td[i].ch = c

ServerKept(H) ==
  H[ServerCh] # Free /\ H[ServerCh].owner = Kernel => H[ServerCh].xfer = ServerCh

Inv ==
  /\ Typed
  /\ Scheduled(runqueue, threads, blocked, current)
  /\ Waits(chan, threads, blocked, pc, blockedOn, abort)
  /\ KillsLast(chan, todo)
  /\ ServerKept(chan)

-----------------------------------------------------------------------------
(* Sequences. *)
LEMMA AppendSet ==
  ASSUME NEW Q \in Seq(T), NEW r \in T
  PROVE  /\ Append(Q, r) \in Seq(T)
         /\ ToSet(Append(Q, r)) = ToSet(Q) \cup {r}
         /\ IsInjective(Q) /\ r \notin ToSet(Q) => IsInjective(Append(Q, r))
<1>1. /\ Append(Q, r) \in Seq(T) /\ Len(Q) \in Nat /\ Len(Append(Q, r)) = Len(Q) + 1
      /\ \A i \in 1..Len(Q) : Append(Q, r)[i] = Q[i]
      /\ Append(Q, r)[Len(Q) + 1] = r
  OBVIOUS
<1>2. DOMAIN Append(Q, r) = 1..Len(Q) + 1 /\ DOMAIN Q = 1..Len(Q)
  BY <1>1
<1>3. ToSet(Append(Q, r)) = ToSet(Q) \cup {r}
  BY <1>1, <1>2 DEF ToSet
<1>4. IsInjective(Q) /\ r \notin ToSet(Q) => IsInjective(Append(Q, r))
  BY <1>1, <1>2 DEF ToSet, IsInjective
<1> QED
  BY <1>1, <1>3, <1>4

LEMMA TailSet ==
  ASSUME NEW Q \in Seq(T), IsInjective(Q), Q # <<>>
  PROVE  /\ Head(Q) \in ToSet(Q) /\ Head(Q) \in T
         /\ Tail(Q) \in Seq(T)
         /\ ToSet(Tail(Q)) = ToSet(Q) \ {Head(Q)}
         /\ IsInjective(Tail(Q))
<1>1. Head(Q) = Q[1] /\ Len(Q) \in Nat /\ Len(Q) > 0 /\ DOMAIN Q = 1..Len(Q)
  OBVIOUS
<1>2. Tail(Q) \in Seq(T) /\ Len(Tail(Q)) = Len(Q) - 1
        /\ \A i \in 1..Len(Tail(Q)) : Tail(Q)[i] = Q[i + 1]
  OBVIOUS
<1>3. DOMAIN Tail(Q) = 1..Len(Q) - 1
  BY <1>1, <1>2
<1>4. ToSet(Tail(Q)) \subseteq ToSet(Q) \ {Head(Q)}
  BY <1>1, <1>2, <1>3 DEF ToSet, IsInjective
<1>5. ASSUME NEW x \in ToSet(Q) \ {Head(Q)} PROVE x \in ToSet(Tail(Q))
  <2>1. PICK i \in 1..Len(Q) : x = Q[i]
    BY <1>1 DEF ToSet
  <2>2. i - 1 \in 1..Len(Tail(Q)) /\ Tail(Q)[i - 1] = x
    BY <1>1, <1>2, <2>1
  <2> QED
    BY <2>2, <1>2, <1>3 DEF ToSet
<1>6. IsInjective(Tail(Q))
  BY <1>1, <1>2, <1>3 DEF IsInjective
<1>7. ToSet(Tail(Q)) = ToSet(Q) \ {Head(Q)}
  BY <1>4, <1>5
<1>8. Head(Q) \in ToSet(Q) /\ Head(Q) \in T
  BY <1>1 DEF ToSet
<1> QED
  BY <1>2, <1>6, <1>7, <1>8

(* list_remove *)
LEMMA RemoveSet ==
  ASSUME NEW Q \in Seq(T), IsInjective(Q), NEW t
  PROVE  /\ ListRemove(Q, t) \in Seq(T)
         /\ ToSet(ListRemove(Q, t)) = ToSet(Q) \ {t}
         /\ IsInjective(ListRemove(Q, t))
<1>1. CASE t \notin ToSet(Q)
  BY <1>1 DEF ListRemove
<1>2. CASE t \in ToSet(Q)
  <2>1. \E i \in DOMAIN Q : Q[i] = t
    BY <1>2 DEF ToSet
  <2>2. PICK k : k = CHOOSE i \in DOMAIN Q : Q[i] = t
    OBVIOUS
  <2>3. k \in DOMAIN Q /\ Q[k] = t
    BY <2>1, <2>2
  <2>4. PICK S : S = RemoveAt(Q, k)
    OBVIOUS
  <2>5. ListRemove(Q, t) = S
    BY <1>2, <2>2, <2>4 DEF ListRemove
  <2>6. Len(Q) \in Nat /\ DOMAIN Q = 1..Len(Q) /\ k \in 1..Len(Q)
    BY <2>3
  <2>7. PICK U : U = SubSeq(Q, 1, k - 1)
    OBVIOUS
  <2>8. PICK V : V = SubSeq(Q, k + 1, Len(Q))
    OBVIOUS
  <2>14. U \in Seq(T) /\ Len(U) = k - 1 /\ \A i \in 1..k - 1 : U[i] = Q[i]
    BY <2>6, <2>7
  <2>15. \A i \in k + 1..Len(Q) : Q[i] \in T
    BY <2>6
  <2>16. V \in Seq(T) /\ Len(V) = Len(Q) - k /\ \A i \in 1..Len(Q) - k : V[i] = Q[i + k]
    <3>1. k + 1 \in Int /\ Len(Q) \in Int
      BY <2>6
    <3>2. /\ SubSeq(Q, k + 1, Len(Q)) \in Seq(T)
          /\ Len(SubSeq(Q, k + 1, Len(Q))) =
               IF k + 1 <= Len(Q) THEN Len(Q) - (k + 1) + 1 ELSE 0
          /\ \A i \in 1..Len(Q) - (k + 1) + 1 : SubSeq(Q, k + 1, Len(Q))[i] = Q[(k + 1) + i - 1]
      BY <2>15, <3>1, SubSeqProperties
    <3>3. \A i \in 1..Len(Q) - k : i \in 1..Len(Q) - (k + 1) + 1 /\ (k + 1) + i - 1 = i + k
      BY <2>6
    <3>6. Len(V) = IF k + 1 <= Len(Q) THEN Len(Q) - (k + 1) + 1 ELSE 0
      BY <2>8, <3>2, Zenon
    <3>7. \A l \in Nat : \A j \in 1..l :
            /\ j + 1 <= l => l - (j + 1) + 1 = l - j
            /\ ~(j + 1 <= l) => 0 = l - j
      OBVIOUS
    <3>4. Len(V) = Len(Q) - k
      BY <2>6, <3>6, <3>7, Zenon
    <3>5. \A i \in 1..Len(Q) - k : V[i] = Q[i + k]
      BY <2>8, <3>2, <3>3
    <3> QED
      BY <2>8, <3>2, <3>4, <3>5
  <2>17. S = U \o V
    BY <2>4, <2>7, <2>8 DEF RemoveAt
  <2>18. /\ S \in Seq(T) /\ Len(S) = Len(U) + Len(V)
         /\ \A i \in 1..Len(U) + Len(V) : S[i] = IF i <= Len(U) THEN U[i] ELSE V[i - Len(U)]
    BY <2>14, <2>16, <2>17, ConcatProperties
  <2>9. /\ S \in Seq(T) /\ Len(S) = Len(Q) - 1
        /\ \A i \in 1..Len(Q) - 1 : S[i] = IF i < k THEN Q[i] ELSE Q[i + 1]
    <3>1. Len(S) = Len(Q) - 1
      BY <2>6, <2>14, <2>16, <2>18
    <3>2. ASSUME NEW i \in 1..Len(Q) - 1 PROVE S[i] = IF i < k THEN Q[i] ELSE Q[i + 1]
      <4>1. S[i] = IF i <= Len(U) THEN U[i] ELSE V[i - Len(U)]
        BY <2>6, <2>14, <2>16, <2>18
      <4>2. CASE i < k
        BY <2>6, <2>14, <4>1, <4>2
      <4>3. CASE ~(i < k)
        <5>1. i - Len(U) \in 1..Len(Q) - k /\ (i - Len(U)) + k = i + 1 /\ ~(i <= Len(U))
          BY <2>6, <2>14, <4>3
        <5>2. S[i] = V[i - Len(U)]
          BY <4>1, <5>1
        <5> QED
          BY <2>16, <4>3, <5>1, <5>2
      <4> QED
        BY <4>2, <4>3
    <3> QED
      BY <2>18, <3>1, <3>2
  <2>10. DOMAIN S = 1..Len(Q) - 1
    BY <2>9, <2>6
  <2>11. ToSet(S) \subseteq ToSet(Q) \ {t}
    BY <2>3, <2>6, <2>9, <2>10 DEF ToSet, IsInjective
  <2>12. ASSUME NEW x \in ToSet(Q) \ {t} PROVE x \in ToSet(S)
    <3>1. PICK i \in 1..Len(Q) : x = Q[i] /\ i # k
      BY <2>3, <2>6 DEF ToSet
    <3>2. CASE i < k
      BY <3>1, <3>2, <2>6, <2>9, <2>10 DEF ToSet
    <3>3. CASE i > k
      <4>1. i - 1 \in 1..Len(Q) - 1 /\ S[i - 1] = x
        BY <3>1, <3>3, <2>6, <2>9
      <4> QED
        BY <4>1, <2>10 DEF ToSet
    <3> QED
      BY <3>1, <3>2, <3>3, <2>6
  <2>13. IsInjective(S)
    BY <2>6, <2>9, <2>10 DEF IsInjective
  <2> QED
    BY <2>5, <2>9, <2>11, <2>12, <2>13
<1> QED
  BY <1>1, <1>2

-----------------------------------------------------------------------------
(* The run queue. *)

(* thread_resume of a blocked thread. *)
LEMMA ResumeScheduled ==
  ASSUME NEW Q, NEW Th \in SUBSET T, NEW B \in [T -> BOOLEAN], NEW cur,
         Scheduled(Q, Th, B, cur), NEW r \in Th, B[r]
  PROVE  Scheduled(Resume(Q, B, r), Th, [B EXCEPT ![r] = FALSE], cur)
<1>1. r \notin ToSet(Q) /\ Resume(Q, B, r) = Append(Q, r) /\ r # cur
  BY DEF Scheduled, Resume
<1> QED
  BY <1>1, AppendSet DEF Scheduled

LEMMA ResumeReady ==
  ASSUME NEW Q, NEW Th \in SUBSET T, NEW B \in [T -> BOOLEAN],
         Ready(Q, Th, B), NEW r \in Th, B[r]
  PROVE  Ready(Resume(Q, B, r), Th, [B EXCEPT ![r] = FALSE])
<1>1. r \notin ToSet(Q) /\ Resume(Q, B, r) = Append(Q, r)
  BY DEF Ready, Resume
<1> QED
  BY <1>1, AppendSet DEF Ready

(* The current thread blocks itself. *)
LEMMA BlockReady ==
  ASSUME NEW Q, NEW Th \in SUBSET T, NEW B \in [T -> BOOLEAN], NEW cur \in Th,
         Scheduled(Q, Th, B, cur)
  PROVE  Ready(Q, Th, [B EXCEPT ![cur] = TRUE])
  BY DEF Scheduled, Ready

(* thread_switch_by_timeout: the current thread is queued, if it is not the idle one. *)
LEMMA TimeoutReady ==
  ASSUME IpcAssumption, NEW Q, NEW Th \in SUBSET T, NEW B \in [T -> BOOLEAN],
         NEW cur \in Th \cup {Idle}, Scheduled(Q, Th, B, cur)
  PROVE  Ready(IF cur = Idle THEN Q ELSE Append(Q, cur), Th, B)
<1>1. CASE cur = Idle
  BY <1>1 DEF Scheduled, Ready, IpcAssumption
<1>2. CASE cur # Idle
  <2>1. cur \in Th /\ cur \in T /\ cur \notin ToSet(Q) /\ ~B[cur]
    BY <1>2 DEF Scheduled
  <2> QED
    BY <1>2, <2>1, AppendSet DEF Scheduled, Ready
<1> QED
  BY <1>1, <1>2

(* thread_switch *)
LEMMA SwitchScheduled ==
  ASSUME IpcAssumption, NEW Q, NEW Th \in SUBSET T, NEW B \in [T -> BOOLEAN], Ready(Q, Th, B)
  PROVE  Scheduled(IF Q = <<>> THEN Q ELSE Tail(Q), Th, B, IF Q = <<>> THEN Idle ELSE Head(Q))
<1>1. CASE Q = <<>>
  <2>1. ToSet(Q) = {} /\ Idle \notin T
    BY <1>1 DEF ToSet, IpcAssumption
  <2> QED
    BY <1>1, <2>1 DEF Ready, Scheduled
<1>2. CASE Q # <<>>
  <2>1. Q \in Seq(T) /\ IsInjective(Q)
    BY DEF Ready
  <2>2. /\ Head(Q) \in ToSet(Q) /\ Head(Q) \in T
        /\ Tail(Q) \in Seq(T)
        /\ ToSet(Tail(Q)) = ToSet(Q) \ {Head(Q)}
        /\ IsInjective(Tail(Q))
    BY <1>2, <2>1, TailSet
  <2> QED
    BY <1>2, <2>1, <2>2 DEF Ready, Scheduled
<1> QED
  BY <1>1, <1>2

(* sys_ipc_fastpath switches to the receiver without the run queue. *)
LEMMA HandOverScheduled ==
  ASSUME NEW Q, NEW Th \in SUBSET T, NEW B \in [T -> BOOLEAN], NEW cur \in Th,
         Scheduled(Q, Th, B, cur), NEW r \in Th, B[r]
  PROVE  Scheduled(Q, Th, [B EXCEPT ![cur] = TRUE, ![r] = FALSE], r)
  BY DEF Scheduled

(* thread_destroy *)
LEMMA KillScheduled ==
  ASSUME NEW Q, NEW Th \in SUBSET T, NEW B \in [T -> BOOLEAN], NEW cur,
         Scheduled(Q, Th, B, cur), NEW t \in T
  PROVE  Scheduled(IF B[t] THEN Q ELSE ListRemove(Q, t), Th \ {t}, B, cur)
<1>1. Q \in Seq(T) /\ IsInjective(Q)
  BY DEF Scheduled
<1>2. CASE B[t]
  BY <1>2 DEF Scheduled
<1>3. CASE ~B[t]
  <2>1. /\ ListRemove(Q, t) \in Seq(T)
        /\ ToSet(ListRemove(Q, t)) = ToSet(Q) \ {t}
        /\ IsInjective(ListRemove(Q, t))
    BY <1>1, RemoveSet
  <2> QED
    BY <1>3, <2>1 DEF Scheduled
<1> QED
  BY <1>2, <1>3

-----------------------------------------------------------------------------
(* Heaps. *)

(* The fields that the invariant speaks of. *)
SameFields(x, y) ==
  x.owner = y.owner /\ x.destructed = y.destructed /\ x.receiver = y.receiver /\ x.queue = y.queue

(* G differs from H in the other fields only. *)
Alike(G, H) ==
  /\ G \in Heaps
  /\ \A c \in Chans : (G[c] = Free <=> H[c] = Free) /\ (H[c] # Free => SameFields(G[c], H[c]))

(* G differs from H at c only, where both have a channel of one owner. *)
SameBut(G, H, c) ==
  /\ G \in Heaps
  /\ H[c] # Free /\ G[c] # Free
  /\ G[c].owner = H[c].owner /\ G[c].xfer = H[c].xfer /\ G[c].link = H[c].link
  /\ \A d \in Chans \ {c} : G[d] = H[d]

(* Updates of one field. *)
WithChannel(H, n, p) == [H EXCEPT ![n] = NewChannel(n, p)]
WithReceiver(H, c, r) == [H EXCEPT ![c].receiver = r]
WithQueue(H, c, q) == [H EXCEPT ![c].queue = q]
WithNotif(H, c, n) == [H EXCEPT ![c].notif = n]
WithDestructed(H, c) == [H EXCEPT ![c].destructed = TRUE]
WithSelfLink(H, c) == [H EXCEPT ![c].link = c]
WithSelfXfer(H, c) == [H EXCEPT ![c].xfer = c]
WithLessRef(H, c) == [H EXCEPT ![c].ref = @ - 1]

LEMMA LiveType ==
  ASSUME NEW H \in Heaps, NEW c \in Chans, H[c] # Free
  PROVE  H[c] \in ChannelType
  BY DEF Heaps

LEMMA SetReceiver ==
  ASSUME IpcAssumption, NEW H \in Heaps, NEW c \in Chans, H[c] # Free, NEW r \in T \cup {None},
         NEW G, G = WithReceiver(H, c, r)
  PROVE  /\ SameBut(G, H, c)
         /\ G[c].receiver = r /\ G[c].queue = H[c].queue
         /\ G[c].destructed = H[c].destructed
  BY DEF WithReceiver, Heaps, ChannelType, Free, SameBut, IpcAssumption

LEMMA SetQueue ==
  ASSUME IpcAssumption, NEW H \in Heaps, NEW c \in Chans, H[c] # Free, NEW q \in Seq(T),
         NEW G, G = WithQueue(H, c, q)
  PROVE  /\ SameBut(G, H, c)
         /\ G[c].receiver = H[c].receiver /\ G[c].queue = q
         /\ G[c].destructed = H[c].destructed
  BY DEF WithQueue, Heaps, ChannelType, Free, SameBut, IpcAssumption

LEMMA SetNotif ==
  ASSUME IpcAssumption, NEW H \in Heaps, NEW c \in Chans, H[c] # Free, NEW n \in BOOLEAN,
         NEW G, G = WithNotif(H, c, n)
  PROVE  /\ SameBut(G, H, c)
         /\ G[c].receiver = H[c].receiver /\ G[c].queue = H[c].queue
         /\ G[c].destructed = H[c].destructed
  BY DEF WithNotif, Heaps, ChannelType, Free, SameBut, IpcAssumption

LEMMA SetDestructed ==
  ASSUME IpcAssumption, NEW H \in Heaps, NEW c \in Chans, H[c] # Free,
         NEW G, G = WithDestructed(H, c)
  PROVE  /\ SameBut(G, H, c)
         /\ G[c].receiver = H[c].receiver /\ G[c].queue = H[c].queue
         /\ G[c].destructed
  BY DEF WithDestructed, Heaps, ChannelType, Free, SameBut, IpcAssumption

LEMMA LinkAlike ==
  ASSUME IpcAssumption, NEW H \in Heaps, NEW x \in Chans, NEW y \in Chans, x # y,
         H[x] # Free, H[y] # Free
  PROVE  /\ Alike(Link(H, x, y), H)
         /\ \A c \in Chans : H[c] # Free => Link(H, x, y)[c].xfer = H[c].xfer
<1>0. None \notin Procs \cup {Kernel}
  BY DEF IpcAssumption
<1>1. Link(H, x, y) \in Heaps
  BY <1>0 DEF Heaps, ChannelType, Free, Link
<1>2. \A c \in Chans \ {x, y} : Link(H, x, y)[c] = H[c]
  BY DEF Heaps, Link
<1>3. \A c \in {x, y} : /\ Link(H, x, y)[c] # Free /\ SameFields(Link(H, x, y)[c], H[c])
                        /\ Link(H, x, y)[c].xfer = H[c].xfer
  BY DEF Heaps, ChannelType, Free, Link, IpcAssumption, SameFields
<1> QED
  BY <1>1, <1>2, <1>3 DEF Alike, SameFields

LEMMA TransferAlike ==
  ASSUME IpcAssumption, NEW H \in Heaps, NEW x \in Chans, NEW y \in Chans, x # y,
         H[x] # Free, H[y] # Free
  PROVE  /\ Alike(Transfer(H, x, y), H)
         /\ Transfer(H, x, y)[x].xfer = y
         /\ \A c \in Chans \ {x} : H[c] # Free => Transfer(H, x, y)[c].xfer = H[c].xfer
<1>1. Transfer(H, x, y) \in Heaps
  BY DEF Heaps, ChannelType, Free, Transfer, IpcAssumption
<1>2. \A c \in Chans \ {x, y} : Transfer(H, x, y)[c] = H[c]
  BY DEF Heaps, Transfer
<1>3. \A c \in {x, y} : /\ Transfer(H, x, y)[c] # Free /\ SameFields(Transfer(H, x, y)[c], H[c])
  BY DEF Heaps, ChannelType, Free, Transfer, IpcAssumption, SameFields
<1>4. Transfer(H, x, y)[x].xfer = y /\ Transfer(H, x, y)[y].xfer = H[y].xfer
  BY DEF Heaps, ChannelType, Free, Transfer, IpcAssumption
<1> QED
  BY <1>1, <1>2, <1>3, <1>4 DEF Alike, SameFields

LEMMA SetLink ==
  ASSUME IpcAssumption, NEW H \in Heaps, NEW c \in Chans, H[c] # Free,
         NEW G, G = WithSelfLink(H, c)
  PROVE  Alike(G, H) /\ G[c].xfer = H[c].xfer /\ \A d \in Chans \ {c} : G[d] = H[d]
  BY DEF WithSelfLink, Heaps, ChannelType, Free, Alike, SameFields, IpcAssumption

LEMMA SetXfer ==
  ASSUME IpcAssumption, NEW H \in Heaps, NEW c \in Chans, H[c] # Free,
         NEW G, G = WithSelfXfer(H, c)
  PROVE  Alike(G, H) /\ G[c].xfer = c /\ \A d \in Chans \ {c} : G[d] = H[d]
  BY DEF WithSelfXfer, Heaps, ChannelType, Free, Alike, SameFields, IpcAssumption

LEMMA DropRef ==
  ASSUME IpcAssumption, NEW H \in Heaps, NEW c \in Chans, H[c] # Free, H[c].ref # 0,
         NEW G, G = WithLessRef(H, c)
  PROVE  Alike(G, H) /\ G[c].xfer = H[c].xfer /\ \A d \in Chans \ {c} : G[d] = H[d]
  BY DEF WithLessRef, Heaps, ChannelType, Free, Alike, SameFields, IpcAssumption

LEMMA AddChannel ==
  ASSUME IpcAssumption, NEW H \in Heaps, NEW n \in Chans, NEW p \in Procs \cup {Kernel},
         NEW G, G = WithChannel(H, n, p)
  PROVE  /\ G \in Heaps
         /\ G[n] = NewChannel(n, p) /\ NewChannel(n, p) # Free
         /\ \A d \in Chans \ {n} : G[d] = H[d]
  BY DEF WithChannel, Heaps, ChannelType, Free, NewChannel, IpcAssumption

-----------------------------------------------------------------------------
(* What threads wait for. *)

(* Nothing is said about the place of a thread that is not blocked. *)
LEMMA RunningWaits ==
  ASSUME NEW H, NEW Th \in SUBSET T, NEW B \in [T -> BOOLEAN], NEW P, NEW P1, NEW On, NEW On1,
         NEW A, NEW A1, Waits(H, Th, B, P, On, A),
         NEW t \in T, ~B[t],
         \A u \in T \ {t} : P1[u] = P[u] /\ On1[u] = On[u] /\ A1[u] = A[u],
         \A c \in Chans : H[c] # Free => H[c].queue \in Seq(T)
  PROVE  Waits(H, Th, B, P1, On1, A1)
<1>1. Receivers(H, Th, B, P1)
  BY DEF Waits, Receivers
<1>2. Queues(H, Th, B, P1, On1)
  BY DEF Waits, Queues
<1>3. Found(H, Th, B, P1, A1)
  BY DEF Waits, Found
<1> QED
  BY <1>1, <1>2, <1>3 DEF Waits

(* Channels change in fields that threads do not wait on. *)
LEMMA AlikeWaits ==
  ASSUME NEW H \in Heaps, NEW G, Alike(G, H), NEW Th \in SUBSET T, NEW B, NEW P \in [T -> PcType],
         NEW On, NEW A, Waits(H, Th, B, P, On, A)
  PROVE  Waits(G, Th, B, P, On, A)
<1>1. Receivers(G, Th, B, P)
  BY DEF Waits, Receivers, Alike, SameFields
<1>2. Queues(G, Th, B, P, On)
  BY DEF Waits, Queues, Alike, SameFields
<1>3. Found(G, Th, B, P, A)
  BY DEF Waits, Found, Alike, SameFields, PcType, InCall
<1>4. Lives(G, Th)
  BY DEF Waits, Lives, Alike, SameFields
<1> QED
  BY <1>1, <1>2, <1>3, <1>4 DEF Waits

(* The receiver of a channel is woken, or left asleep with a reason. *)
LEMMA WakeWaits ==
  ASSUME IpcAssumption, NEW H \in Heaps, NEW G, NEW c \in Chans, SameBut(G, H, c),
         G[c].receiver = None, G[c].queue = H[c].queue, G[c].destructed = H[c].destructed,
         NEW Th \in SUBSET T, NEW B \in [T -> BOOLEAN], NEW B1 \in [T -> BOOLEAN],
         NEW P \in [T -> PcType], NEW On, NEW A, NEW A1,
         Waits(H, Th, B, P, On, A),
         NEW r \in Th, H[c].receiver = r,
         \A u \in T \ {r} : B1[u] = B[u] /\ A1[u] = A[u],
         B1[r] => A1[r] # "OK"
  PROVE  Waits(G, Th, B1, P, On, A1)
<1>0. B[r] /\ P[r].at \in Receives /\ P[r].ch = c /\ None \notin T /\ r # None
  BY DEF Waits, Receivers, IpcAssumption, SameBut
<1>1. Receivers(G, Th, B1, P)
  BY <1>0 DEF Waits, Receivers, SameBut
<1>2. Queues(G, Th, B1, P, On)
  <2>1. P[r].at # "sending"
    BY <1>0 DEF Receives
  <2>2. \A d \in Chans : (G[d] # Free <=> H[d] # Free) /\ (H[d] # Free => G[d].queue = H[d].queue)
    BY DEF SameBut
  <2> QED
    BY <2>1, <2>2 DEF Waits, Queues
<1>3. Found(G, Th, B1, P, A1)
  <2> SUFFICES ASSUME NEW t \in Th, B1[t], P[t].at \in Receives, A1[t] = "OK"
               PROVE  G[P[t].ch] # Free /\ G[P[t].ch].receiver = t
    BY DEF Found
  <2>1. t # r
    BY <1>0
  <2>2. H[P[t].ch] # Free /\ H[P[t].ch].receiver = t /\ P[t].ch \in Chans
    BY <2>1 DEF Waits, Found, PcType, InCall
  <2> QED
    BY <2>1, <2>2 DEF SameBut
<1>4. Lives(G, Th)
  BY <1>0 DEF Waits, Lives, SameBut
<1> QED
  BY <1>1, <1>2, <1>3, <1>4 DEF Waits

(* The receiver of a channel is taken by t, which goes to sleep. *)
LEMMA TakeWaits ==
  ASSUME IpcAssumption, NEW H \in Heaps, NEW G, NEW c \in Chans, SameBut(G, H, c),
         G[c].receiver = None, G[c].queue = H[c].queue, G[c].destructed = H[c].destructed,
         NEW Th \in SUBSET T, NEW B \in [T -> BOOLEAN], NEW B1 \in [T -> BOOLEAN],
         NEW P \in [T -> PcType], NEW P1 \in [T -> PcType], NEW On, NEW A,
         Waits(H, Th, B, P, On, A),
         NEW r \in Th, H[c].receiver = r, NEW t \in Th, ~B[t],
         P1[r].at \in Takens, P1[t].at = "filling",
         \A u \in T \ {t} : B1[u] = B[u],
         \A u \in T \ {r, t} : P1[u] = P[u]
  PROVE  Waits(G, Th, B1, P1, On, A)
<1>0. /\ B[r] /\ P[r].at \in Receives /\ P[r].ch = c /\ None \notin T /\ r # None
      /\ P1[r].at # "sending" /\ P1[r].at \notin Receives
      /\ P1[t].at # "sending" /\ P1[t].at \notin Receives /\ P[r].at # "sending"
  BY DEF Waits, Receivers, IpcAssumption, SameBut, Takens, Receives
<1>5. \A d \in Chans : H[d] # Free => t \notin ToSet(H[d].queue) /\ r \notin ToSet(H[d].queue)
  BY <1>0 DEF Waits, Queues
<1>1. Receivers(G, Th, B1, P1)
  <2> SUFFICES ASSUME NEW d \in Chans, NEW u \in Th, G[d] # Free, G[d].receiver = u
               PROVE  B1[u] /\ P1[u].at \in Receives /\ P1[u].ch = d
    BY DEF Receivers
  <2>1. d # c /\ H[d] # Free /\ H[d].receiver = u
    BY <1>0 DEF SameBut
  <2>2. B[u] /\ P[u].at \in Receives /\ P[u].ch = d
    BY <2>1 DEF Waits, Receivers
  <2>3. u # t /\ u # r
    BY <1>0, <2>1, <2>2
  <2> QED
    BY <2>2, <2>3
<1>2. Queues(G, Th, B1, P1, On)
  <2>2. \A d \in Chans : (G[d] # Free <=> H[d] # Free) /\ (H[d] # Free => G[d].queue = H[d].queue)
    BY DEF SameBut
  <2> QED
    BY <1>0, <1>5, <2>2 DEF Waits, Queues
<1>3. Found(G, Th, B1, P1, A)
  <2> SUFFICES ASSUME NEW u \in Th, B1[u], P1[u].at \in Receives, A[u] = "OK"
               PROVE  G[P1[u].ch] # Free /\ G[P1[u].ch].receiver = u
    BY DEF Found
  <2>1. u # r /\ u # t
    BY <1>0
  <2>2. H[P[u].ch] # Free /\ H[P[u].ch].receiver = u /\ P[u].ch \in Chans
    BY <2>1 DEF Waits, Found, PcType, InCall
  <2> QED
    BY <2>1, <2>2 DEF SameBut
<1>4. Lives(G, Th)
  BY <1>0 DEF Waits, Lives, SameBut
<1> QED
  BY <1>1, <1>2, <1>3, <1>4 DEF Waits

(* A taken receiver is let go: it is woken, or has been told of an error. *)
LEMMA UntakeWaits ==
  ASSUME NEW H, NEW Th \in SUBSET T, NEW B \in [T -> BOOLEAN], NEW B1 \in [T -> BOOLEAN],
         NEW P, NEW P1, NEW On, NEW A, NEW A1, Waits(H, Th, B, P, On, A),
         \A c \in Chans : H[c] # Free => H[c].queue \in Seq(T),
         NEW r \in Th, P[r].at \in Takens, P1[r].at \in Receives, B1[r] => A1[r] # "OK",
         \A u \in T \ {r} : B1[u] = B[u] /\ P1[u] = P[u] /\ A1[u] = A[u]
  PROVE  Waits(H, Th, B1, P1, On, A1)
<1>0. P[r].at # "sending" /\ P[r].at \notin Receives /\ P1[r].at # "sending"
  BY DEF Takens, Receives
<1>1. Receivers(H, Th, B1, P1)
  BY <1>0 DEF Waits, Receivers
<1>2. Queues(H, Th, B1, P1, On)
  BY <1>0 DEF Waits, Queues
<1>3. Found(H, Th, B1, P1, A1)
  BY <1>0 DEF Waits, Found
<1> QED
  BY <1>1, <1>2, <1>3 DEF Waits

(* A thread is woken at a place where it waits for no channel. *)
LEMMA WokenWaits ==
  ASSUME NEW H, NEW Th \in SUBSET T, NEW B \in [T -> BOOLEAN], NEW B1 \in [T -> BOOLEAN],
         NEW P, NEW On, NEW A, Waits(H, Th, B, P, On, A),
         \A c \in Chans : H[c] # Free => H[c].queue \in Seq(T),
         NEW t \in Th, P[t].at = "filling", ~B1[t], \A u \in T \ {t} : B1[u] = B[u]
  PROVE  Waits(H, Th, B1, P, On, A)
<1>0. P[t].at # "sending" /\ P[t].at \notin Receives
  BY DEF Receives
<1>1. Receivers(H, Th, B1, P)
  BY <1>0 DEF Waits, Receivers
<1>2. Queues(H, Th, B1, P, On)
  BY <1>0 DEF Waits, Queues
<1>3. Found(H, Th, B1, P, A)
  BY <1>0 DEF Waits, Found
<1> QED
  BY <1>1, <1>2, <1>3 DEF Waits

(* A thread goes to sleep in the receive phase. *)
LEMMA ListenWaits ==
  ASSUME IpcAssumption, NEW H \in Heaps, NEW G, NEW c \in Chans, SameBut(G, H, c),
         NEW t \in T, H[c].receiver = None, G[c].receiver = t, G[c].queue = H[c].queue,
         NEW Th \in SUBSET T, t \in Th, NEW B \in [T -> BOOLEAN], NEW B1 \in [T -> BOOLEAN],
         NEW P \in [T -> PcType], NEW P1 \in [T -> PcType], NEW On, NEW A,
         Waits(H, Th, B, P, On, A), ~B[t], B1[t],
         P1[t].at \in Receives, P1[t].ch = c,
         \A u \in T \ {t} : B1[u] = B[u] /\ P1[u] = P[u]
  PROVE  Waits(G, Th, B1, P1, On, A)
<1>0. P1[t].at # "sending" /\ t # None
  BY DEF Receives, IpcAssumption
<1>1. Receivers(G, Th, B1, P1)
  BY <1>0 DEF Waits, Receivers, SameBut
<1>2. Queues(G, Th, B1, P1, On)
  <2>2. \A d \in Chans : (G[d] # Free <=> H[d] # Free) /\ (H[d] # Free => G[d].queue = H[d].queue)
    BY DEF SameBut
  <2>3. \A d \in Chans : H[d] # Free => t \notin ToSet(H[d].queue)
    BY DEF Waits, Queues
  <2> QED
    BY <1>0, <2>2, <2>3 DEF Waits, Queues
<1>3. Found(G, Th, B1, P1, A)
  <2> SUFFICES ASSUME NEW u \in Th, B1[u], P1[u].at \in Receives, A[u] = "OK"
               PROVE  G[P1[u].ch] # Free /\ G[P1[u].ch].receiver = u
    BY DEF Found
  <2>1. CASE u = t
    BY <2>1 DEF SameBut
  <2>2. CASE u # t
    <3>1. H[P[u].ch] # Free /\ H[P[u].ch].receiver = u /\ P[u].ch \in Chans
      BY <2>2 DEF Waits, Found, PcType, InCall
    <3>2. P[u].ch # c
      BY <3>1 DEF IpcAssumption
    <3> QED
      BY <2>2, <3>1, <3>2 DEF SameBut
  <2> QED
    BY <2>1, <2>2
<1>4. Lives(G, Th)
  BY <1>0 DEF Waits, Lives, SameBut
<1> QED
  BY <1>1, <1>2, <1>3, <1>4 DEF Waits

(* The first waiting sender of a channel is resumed to try again. *)
LEMMA RetryWaits ==
  ASSUME NEW H \in Heaps, NEW G, NEW c \in Chans, SameBut(G, H, c),
         G[c].receiver = H[c].receiver, G[c].destructed = H[c].destructed,
         H[c].queue # <<>>, G[c].queue = Tail(H[c].queue),
         NEW Th \in SUBSET T, NEW B \in [T -> BOOLEAN], NEW B1 \in [T -> BOOLEAN],
         NEW P \in [T -> PcType], NEW On, NEW On1, NEW A,
         Waits(H, Th, B, P, On, A),
         NEW s \in Th, s = Head(H[c].queue), ~B1[s],
         \A u \in T \ {s} : B1[u] = B[u] /\ On1[u] = On[u]
  PROVE  Waits(G, Th, B1, P, On1, A)
<1>0. /\ H[c].queue \in Seq(T) /\ IsInjective(H[c].queue) /\ H[c] # Free
      /\ s \in ToSet(H[c].queue)
      /\ ToSet(G[c].queue) = ToSet(H[c].queue) \ {s}
      /\ IsInjective(G[c].queue)
  <2>1. H[c].queue \in Seq(T) /\ H[c] # Free
    BY LiveType DEF SameBut, ChannelType
  <2>2. IsInjective(H[c].queue)
    BY <2>1 DEF Waits, Queues
  <2> QED
    BY <2>1, <2>2, TailSet
<1>5. On[s] = c /\ B[s] /\ P[s].at = "sending"
  BY <1>0 DEF Waits, Queues
<1>1. Receivers(G, Th, B1, P)
  <2>1. P[s].at \notin Receives
    BY <1>5 DEF Receives
  <2> QED
    BY <2>1 DEF Waits, Receivers, SameBut
<1>2. Queues(G, Th, B1, P, On1)
  <2>1. ASSUME NEW d \in Chans, G[d] # Free
        PROVE  /\ IsInjective(G[d].queue)
               /\ \A t \in ToSet(G[d].queue) : t \in Th /\ On1[t] = d /\ B1[t] /\ P[t].at = "sending"
    <3>1. CASE d = c
      BY <1>0, <3>1 DEF Waits, Queues
    <3>2. CASE d # c
      <4>1. G[d] = H[d]
        BY <3>2 DEF SameBut
      <4>2. s \notin ToSet(H[d].queue)
        BY <1>5, <2>1, <3>2, <4>1 DEF Waits, Queues
      <4> QED
        BY <2>1, <4>1, <4>2 DEF Waits, Queues
    <3> QED
      BY <3>1, <3>2
  <2>2. ASSUME NEW t \in Th, NEW d \in Chans, On1[t] = d, B1[t], P[t].at = "sending"
        PROVE  G[d] # Free /\ t \in ToSet(G[d].queue)
    <3>1. t # s /\ H[d] # Free /\ t \in ToSet(H[d].queue)
      BY <2>2 DEF Waits, Queues
    <3> QED
      BY <1>0, <3>1 DEF SameBut
  <2> QED
    BY <2>1, <2>2 DEF Queues
<1>3. Found(G, Th, B1, P, A)
  <2>1. \A d \in Chans : (G[d] # Free <=> H[d] # Free) /\ (H[d] # Free => G[d].receiver = H[d].receiver)
    BY DEF SameBut
  <2> QED
    BY <2>1 DEF Waits, Found, PcType, InCall
<1>4. Lives(G, Th)
  BY DEF Waits, Lives, SameBut
<1> QED
  BY <1>1, <1>2, <1>3, <1>4 DEF Waits

(* A thread joins the senders of a channel. *)
LEMMA JoinWaits ==
  ASSUME NEW H \in Heaps, NEW G, NEW c \in Chans, SameBut(G, H, c),
         G[c].receiver = H[c].receiver, G[c].destructed = H[c].destructed,
         NEW t \in T, ToSet(G[c].queue) = ToSet(H[c].queue) \cup {t},
         IsInjective(H[c].queue) /\ t \notin ToSet(H[c].queue) => IsInjective(G[c].queue),
         NEW Th \in SUBSET T, t \in Th, NEW B \in [T -> BOOLEAN], NEW B1 \in [T -> BOOLEAN],
         NEW P \in [T -> PcType], NEW P1 \in [T -> PcType], NEW On, NEW On1, NEW A,
         Waits(H, Th, B, P, On, A), ~B[t], B1[t],
         P1[t].at = "sending", On1[t] = c,
         \A u \in T \ {t} : B1[u] = B[u] /\ On1[u] = On[u] /\ P1[u] = P[u]
  PROVE  Waits(G, Th, B1, P1, On1, A)
<1>0. H[c].queue \in Seq(T) /\ IsInjective(H[c].queue) /\ H[c] # Free
  <2>1. H[c].queue \in Seq(T) /\ H[c] # Free
    BY LiveType DEF SameBut, ChannelType
  <2> QED
    BY <2>1 DEF Waits, Queues
<1>5. \A d \in Chans : H[d] # Free => t \notin ToSet(H[d].queue)
  BY DEF Waits, Queues
<1>6. IsInjective(G[c].queue) /\ ToSet(G[c].queue) = ToSet(H[c].queue) \cup {t}
  BY <1>0, <1>5
<1>7. P1[t].at \notin Receives
  BY DEF Receives
<1>1. Receivers(G, Th, B1, P1)
  BY <1>7 DEF Waits, Receivers, SameBut
<1>2. Queues(G, Th, B1, P1, On1)
  <2>1. ASSUME NEW d \in Chans, G[d] # Free
        PROVE  /\ IsInjective(G[d].queue)
               /\ \A u \in ToSet(G[d].queue) : u \in Th /\ On1[u] = d /\ B1[u] /\ P1[u].at = "sending"
    <3>1. CASE d = c
      <4>1. \A u \in ToSet(H[c].queue) :
              u \in Th /\ u # t /\ On[u] = c /\ B[u] /\ P[u].at = "sending"
        BY <1>0, <1>5 DEF Waits, Queues
      <4> QED
        BY <1>6, <3>1, <4>1
    <3>2. CASE d # c
      <4>1. G[d] = H[d]
        BY <3>2 DEF SameBut
      <4> QED
        BY <1>5, <2>1, <4>1 DEF Waits, Queues
    <3> QED
      BY <3>1, <3>2
  <2>2. ASSUME NEW u \in Th, NEW d \in Chans, On1[u] = d, B1[u], P1[u].at = "sending"
        PROVE  G[d] # Free /\ u \in ToSet(G[d].queue)
    <3>1. CASE u = t
      BY <2>2, <3>1, <1>6 DEF SameBut
    <3>2. CASE u # t
      <4>1. H[d] # Free /\ u \in ToSet(H[d].queue)
        BY <2>2, <3>2 DEF Waits, Queues
      <4> QED
        BY <4>1, <1>6 DEF SameBut
    <3> QED
      BY <3>1, <3>2
  <2> QED
    BY <2>1, <2>2 DEF Queues
<1>3. Found(G, Th, B1, P1, A)
  <2>1. \A d \in Chans : (G[d] # Free <=> H[d] # Free) /\ (H[d] # Free => G[d].receiver = H[d].receiver)
    BY DEF SameBut
  <2> QED
    BY <1>7, <2>1 DEF Waits, Found, PcType, InCall
<1>4. Lives(G, Th)
  BY DEF Waits, Lives, SameBut
<1> QED
  BY <1>1, <1>2, <1>3, <1>4 DEF Waits

(* A new channel: nobody waits on it. *)
LEMMA CreateWaits ==
  ASSUME IpcAssumption, NEW H \in Heaps, NEW G \in Heaps, NEW n \in Chans, H[n] = Free,
         NEW p, G[n] = NewChannel(n, p), \A d \in Chans \ {n} : G[d] = H[d],
         NEW Th \in SUBSET T, NEW B, NEW P \in [T -> PcType], NEW On, NEW A,
         Waits(H, Th, B, P, On, A)
  PROVE  Waits(G, Th, B, P, On, A)
<1>0. G[n].receiver = None /\ G[n].queue = <<>> /\ None \notin T
  BY DEF NewChannel, IpcAssumption
<1>5. IsInjective(G[n].queue) /\ ToSet(G[n].queue) = {}
  BY <1>0 DEF IsInjective, ToSet
<1>1. Receivers(G, Th, B, P)
  BY <1>0 DEF Waits, Receivers
<1>2. Queues(G, Th, B, P, On)
  <2>1. ASSUME NEW d \in Chans, G[d] # Free
        PROVE  /\ IsInjective(G[d].queue)
               /\ \A t \in ToSet(G[d].queue) : t \in Th /\ On[t] = d /\ B[t] /\ P[t].at = "sending"
    BY <1>5, <2>1 DEF Waits, Queues
  <2>2. ASSUME NEW t \in Th, NEW d \in Chans, On[t] = d, B[t], P[t].at = "sending"
        PROVE  G[d] # Free /\ t \in ToSet(G[d].queue)
    BY <2>2 DEF Waits, Queues
  <2> QED
    BY <2>1, <2>2 DEF Queues
<1>3. Found(G, Th, B, P, A)
  BY DEF Waits, Found, PcType, InCall
<1>4. Lives(G, Th)
  BY <1>0 DEF Waits, Lives
<1> QED
  BY <1>1, <1>2, <1>3, <1>4 DEF Waits

(* A channel that nobody waits on is freed. *)
LEMMA FreeWaits ==
  ASSUME NEW H \in Heaps, NEW G, NEW c \in Chans, H[c] # Free, H[c].queue = <<>>,
         \A u \in T : H[c].receiver # u,
         G[c] = Free, \A d \in Chans \ {c} : G[d] = H[d],
         NEW Th \in SUBSET T, NEW B, NEW P \in [T -> PcType], NEW On, NEW A,
         Waits(H, Th, B, P, On, A)
  PROVE  Waits(G, Th, B, P, On, A)
<1>0. ToSet(H[c].queue) = {}
  BY DEF ToSet
<1>1. Receivers(G, Th, B, P)
  BY DEF Waits, Receivers
<1>2. Queues(G, Th, B, P, On)
  <2>1. ASSUME NEW d \in Chans, G[d] # Free
        PROVE  /\ IsInjective(G[d].queue)
               /\ \A t \in ToSet(G[d].queue) : t \in Th /\ On[t] = d /\ B[t] /\ P[t].at = "sending"
    BY <2>1 DEF Waits, Queues
  <2>2. ASSUME NEW t \in Th, NEW d \in Chans, On[t] = d, B[t], P[t].at = "sending"
        PROVE  G[d] # Free /\ t \in ToSet(G[d].queue)
    <3>1. H[d] # Free /\ t \in ToSet(H[d].queue)
      BY <2>2 DEF Waits, Queues
    <3> QED
      BY <1>0, <3>1
  <2> QED
    BY <2>1, <2>2 DEF Queues
<1>3. Found(G, Th, B, P, A)
  <2> SUFFICES ASSUME NEW t \in Th, B[t], P[t].at \in Receives, A[t] = "OK"
               PROVE  G[P[t].ch] # Free /\ G[P[t].ch].receiver = t
    BY DEF Found
  <2>1. H[P[t].ch] # Free /\ H[P[t].ch].receiver = t /\ P[t].ch \in Chans /\ t \in T
    BY DEF Waits, Found, PcType, InCall
  <2> QED
    BY <2>1
<1>4. Lives(G, Th)
  BY DEF Waits, Lives
<1> QED
  BY <1>1, <1>2, <1>3, <1>4 DEF Waits

(* channel_destroy marks a channel. *)
LEMMA DestructWaits ==
  ASSUME NEW H \in Heaps, NEW G, NEW c \in Chans, SameBut(G, H, c), G[c].destructed,
         G[c].receiver = H[c].receiver, G[c].queue = H[c].queue,
         NEW Th \in SUBSET T, NEW B, NEW P \in [T -> PcType], NEW On, NEW A,
         Waits(H, Th, B, P, On, A)
  PROVE  Waits(G, Th, B, P, On, A)
<1>0. \A d \in Chans : /\ (G[d] # Free <=> H[d] # Free)
                       /\ (H[d] # Free => G[d].receiver = H[d].receiver /\ G[d].queue = H[d].queue)
  BY DEF SameBut
<1>1. Receivers(G, Th, B, P)
  BY <1>0 DEF Waits, Receivers
<1>2. Queues(G, Th, B, P, On)
  BY <1>0 DEF Waits, Queues
<1>3. Found(G, Th, B, P, A)
  BY <1>0 DEF Waits, Found, PcType, InCall
<1>4. Lives(G, Th)
  BY DEF Waits, Lives, SameBut
<1> QED
  BY <1>1, <1>2, <1>3, <1>4 DEF Waits

(* thread_destroy, of a thread none of whose channels is open. *)
LEMMA KillWaits ==
  ASSUME NEW H \in Heaps, NEW G, NEW t \in T, NEW Th \in SUBSET T, NEW B,
         NEW P \in [T -> PcType], NEW On \in [T -> Chans \cup {None}], NEW A,
         Waits(H, Th, B, P, On, A),
         \A c \in Chans : H[c] # Free /\ H[c].owner = ProcessOf[t] => H[c].destructed,
         \A c \in Chans : H[c] = Free <=> G[c] = Free,
         \A c \in Chans : H[c] # Free =>
           /\ G[c].owner = H[c].owner /\ G[c].destructed = H[c].destructed
           /\ G[c].receiver = H[c].receiver
           /\ G[c].queue = IF c = On[t] THEN ListRemove(H[c].queue, t) ELSE H[c].queue
  PROVE  Waits(G, Th \ {t}, B, P, On, A)
<1>0. ASSUME NEW d \in Chans, H[d] # Free
      PROVE  IsInjective(G[d].queue) /\ ToSet(G[d].queue) = ToSet(H[d].queue) \ {t}
  <2>1. H[d].queue \in Seq(T) /\ IsInjective(H[d].queue)
    BY <1>0, LiveType DEF Waits, Queues, ChannelType
  <2>2. CASE d = On[t]
    BY <1>0, <2>1, <2>2, RemoveSet
  <2>3. CASE d # On[t]
    BY <1>0, <2>1, <2>3 DEF Waits, Queues
  <2> QED
    BY <2>2, <2>3
<1>1. Receivers(G, Th \ {t}, B, P)
  BY DEF Waits, Receivers
<1>2. Queues(G, Th \ {t}, B, P, On)
  <2>1. ASSUME NEW d \in Chans, G[d] # Free
        PROVE  /\ IsInjective(G[d].queue)
               /\ \A u \in ToSet(G[d].queue) :
                    u \in Th \ {t} /\ On[u] = d /\ B[u] /\ P[u].at = "sending"
    <3>1. H[d] # Free
      BY <2>1
    <3>2. IsInjective(G[d].queue) /\ ToSet(G[d].queue) = ToSet(H[d].queue) \ {t}
      BY <1>0, <3>1
    <3>3. \A u \in ToSet(H[d].queue) : u \in Th /\ On[u] = d /\ B[u] /\ P[u].at = "sending"
      BY <3>1 DEF Waits, Queues
    <3> QED
      BY <3>2, <3>3
  <2>2. ASSUME NEW u \in Th \ {t}, NEW d \in Chans, On[u] = d, B[u], P[u].at = "sending"
        PROVE  G[d] # Free /\ u \in ToSet(G[d].queue)
    <3>1. H[d] # Free /\ u \in ToSet(H[d].queue)
      BY <2>2 DEF Waits, Queues
    <3> QED
      BY <1>0, <3>1
  <2> QED
    BY <2>1, <2>2 DEF Queues
<1>3. Found(G, Th \ {t}, B, P, A)
  BY DEF Waits, Found, PcType, InCall
<1>4. Lives(G, Th \ {t})
  BY DEF Waits, Lives
<1> QED
  BY <1>1, <1>2, <1>3, <1>4 DEF Waits

-----------------------------------------------------------------------------
(* Nested calls. *)

LEMMA NoCalls ==
  ASSUME NEW H
  PROVE  KillsLast(H, <<>>)
  BY DEF KillsLast

LEMMA CallsOnly ==
  ASSUME NEW H, NEW td \in Seq(Calls)
  PROVE  KillsLast(H, td) /\ td \in Seq(Calls \cup Kills)
<1>1. \A i \in DOMAIN td : td[i] \in Calls
  OBVIOUS
<1>2. \A i \in DOMAIN td : td[i].op # "kill"
  BY <1>1 DEF Calls, ChanCalls, Irqs
<1> QED
  BY <1>2 DEF KillsLast

(* The open channels of G are those of H, without the one that a           *)
(* channel_destroy closes.                                                 *)
Closes(G, H, call) ==
  \A c \in Chans : G[c] # Free /\ ~G[c].destructed =>
    /\ H[c] # Free /\ ~H[c].destructed /\ H[c].owner = G[c].owner
    /\ call.op = "destroy" => call.ch # c

(* A call returns, with the calls pre that it makes. *)
LEMMA CallsLast ==
  ASSUME NEW H, NEW G, NEW td \in Seq(Calls \cup Kills), td # <<>>, KillsLast(H, td),
         NEW pre \in Seq(Calls), pre # <<>> => Head(td).op # "kill",
         Closes(G, H, Head(td))
  PROVE  KillsLast(G, pre \o Tail(td)) /\ pre \o Tail(td) \in Seq(Calls \cup Kills)
<1>1. Len(td) \in Nat /\ Len(td) > 0 /\ DOMAIN td = 1..Len(td) /\ Head(td) = td[1]
  OBVIOUS
<1>2. /\ Tail(td) \in Seq(Calls \cup Kills) /\ Len(Tail(td)) = Len(td) - 1
      /\ \A i \in 1..Len(td) - 1 : Tail(td)[i] = td[i + 1]
  BY HeadTailProperties
<1>3. PICK R : R = pre \o Tail(td)
  OBVIOUS
<1>4. pre \in Seq(Calls \cup Kills) /\ Len(pre) \in Nat
  OBVIOUS
<1>5. /\ R \in Seq(Calls \cup Kills) /\ Len(R) = Len(pre) + Len(Tail(td))
      /\ \A i \in 1..Len(pre) + Len(Tail(td)) :
           R[i] = IF i <= Len(pre) THEN pre[i] ELSE Tail(td)[i - Len(pre)]
  BY <1>2, <1>3, <1>4, ConcatProperties
<1>6. PICK m \in Nat : m = Len(pre)
  BY <1>4
<1>7. PICK l \in Nat : l = Len(td)
  BY <1>1
<1>8. DOMAIN R = 1..m + l - 1 /\ l > 0
  BY <1>1, <1>2, <1>5, <1>6, <1>7
<1>9. \A i \in 1..m : i \in DOMAIN R /\ R[i] = pre[i]
  BY <1>2, <1>5, <1>6, <1>7, <1>8
<1>10. \A i \in 2..l : m + i - 1 \in DOMAIN R /\ R[m + i - 1] = td[i]
  <2> SUFFICES ASSUME NEW i \in 2..l PROVE m + i - 1 \in DOMAIN R /\ R[m + i - 1] = td[i]
    OBVIOUS
  <2>1. m + i - 1 \in 1..m + l - 1 /\ ~(m + i - 1 <= m) /\ m + i - 1 - m = i - 1
          /\ i - 1 \in 1..l - 1 /\ i - 1 + 1 = i
    OBVIOUS
  <2>2. R[m + i - 1] = Tail(td)[i - 1]
    BY <1>2, <1>5, <1>6, <1>7, <2>1
  <2> QED
    BY <1>2, <1>7, <1>8, <2>1, <2>2
<1>17. \A j \in 1..m + l - 1 : j \in 1..m \/ (j - m + 1 \in 2..l /\ m + (j - m + 1) - 1 = j)
  OBVIOUS
<1>11. \A j \in DOMAIN R : j \in 1..m \/ (j - m + 1 \in 2..l /\ m + (j - m + 1) - 1 = j)
  BY <1>8, <1>17, Zenon
<1>12. \A i \in 1..m : pre[i].op # "kill"
  <2>1. \A i \in 1..m : pre[i] \in Calls
    BY <1>6
  <2> QED
    BY <2>1 DEF Calls, ChanCalls, Irqs
<1>13. \A j \in DOMAIN R : R[j].op = "kill" =>
          j - m + 1 \in 2..l /\ R[j] = td[j - m + 1] /\ m + (j - m + 1) - 1 = j
  BY <1>9, <1>10, <1>11, <1>12
<1>14. ASSUME NEW i \in DOMAIN R, NEW j \in DOMAIN R, i < j, R[i].op = "kill"
       PROVE  R[j].op = "kill"
  <2>1. i - m + 1 \in 2..l /\ td[i - m + 1].op = "kill"
    BY <1>13, <1>14
  <2>2. j - m + 1 \in 2..l /\ R[j] = td[j - m + 1] /\ i - m + 1 < j - m + 1
    <3>1. j \notin 1..m /\ i - m + 1 < j - m + 1
      BY <1>8, <1>14, <2>1
    <3> QED
      BY <1>10, <1>11, <3>1
  <2>3. i - m + 1 \in DOMAIN td /\ j - m + 1 \in DOMAIN td
    BY <1>1, <1>7, <2>1, <2>2
  <2> QED
    BY <2>1, <2>2, <2>3 DEF KillsLast
<1>15. ASSUME NEW j \in DOMAIN R, NEW c \in Chans, R[j].op = "kill", G[c] # Free,
              ~G[c].destructed, G[c].owner = ProcessOf[R[j].ch]
       PROVE  \E i \in DOMAIN R : R[i].op = "destroy" /\ R[i].ch = c
  <2>1. j - m + 1 \in DOMAIN td /\ td[j - m + 1] = R[j]
    BY <1>1, <1>7, <1>13, <1>15
  <2>2. H[c] # Free /\ ~H[c].destructed /\ H[c].owner = ProcessOf[td[j - m + 1].ch]
    BY <1>15, <2>1 DEF Closes
  <2>3. PICK i \in DOMAIN td : td[i].op = "destroy" /\ td[i].ch = c
    BY <1>15, <2>1, <2>2 DEF KillsLast
  <2>4. i # 1
    BY <1>1, <1>15, <2>3 DEF Closes
  <2>5. i \in 2..l
    BY <1>1, <1>7, <2>4
  <2> QED
    BY <1>10, <2>3, <2>5
<1>16. KillsLast(G, R)
  BY <1>14, <1>15 DEF KillsLast
<1> QED
  BY <1>3, <1>5, <1>16

(* When a thread is destroyed, the channels of its process are destructed. *)
LEMMA KillsAfterDestroys ==
  ASSUME NEW H, NEW td \in Seq(Calls \cup Kills), td # <<>>, KillsLast(H, td),
         Head(td).op = "kill"
  PROVE  \A c \in Chans : H[c] # Free /\ H[c].owner = ProcessOf[Head(td).ch] => H[c].destructed
<1>1. 1 \in DOMAIN td /\ Head(td) = td[1] /\ DOMAIN td \subseteq Nat
        /\ \A i \in DOMAIN td : i = 1 \/ i > 1
  OBVIOUS
<1>2. \A i \in DOMAIN td : td[i].op = "kill"
  BY <1>1 DEF KillsLast
<1>3. "kill" # "destroy"
  OBVIOUS
<1> QED
  BY <1>1, <1>2, <1>3 DEF KillsLast

-----------------------------------------------------------------------------
(* Steps. *)

(* An assertion fails: nothing else changes. *)
LEMMA HaltInv ==
  ASSUME Inv, NEW reason, Halt(reason)
  PROVE  Inv'
<1>1. UNCHANGED <<chan, threads, blocked, abort, blockedOn, pc, buf, runqueue, current,
                  listeners, todo, links>>
  BY DEF Halt
<1>2. Typed'
  BY <1>1 DEF Inv, Typed
<1> QED
  BY <1>1, <1>2 DEF Inv

(* The places a thread can be in. *)
LEMMA PcTypes ==
  ASSUME NEW t
  PROVE  /\ User \in PcType /\ Returned(t) \in PcType /\ Received(t) \in PcType
         /\ [User EXCEPT !.at = "reply"] \in PcType
         /\ \A c \in Chans : /\ [at |-> "receiving", ch |-> c, recv |-> TRUE] \in PcType
                             /\ [at |-> "fastpath", ch |-> c, recv |-> TRUE] \in PcType
                             /\ \A recv \in BOOLEAN :
                                  /\ [at |-> "sending", ch |-> c, recv |-> recv] \in PcType
                                  /\ [at |-> "filling", ch |-> c, recv |-> recv] \in PcType
<1>1. User \in PcType /\ Returned(t) \in PcType /\ Received(t) \in PcType
        /\ [User EXCEPT !.at = "reply"] \in PcType
  BY DEF User, Returned, Received, PcType, Places, InCall, Receives, Takens
<1> QED
  BY <1>1 DEF PcType, Places, InCall, Receives, Takens

(* thread_switch *)
LEMMA SwitchStep ==
  ASSUME IpcAssumption, NEW Q, NEW Th \in SUBSET T, NEW B \in [T -> BOOLEAN], Ready(Q, Th, B),
         SwitchFrom(Q)
  PROVE  Scheduled(runqueue', Th, B, current') /\ current' \in T \cup {Idle}
<1>1. /\ current' = IF Q = <<>> THEN Idle ELSE Head(Q)
      /\ runqueue' = IF Q = <<>> THEN Q ELSE Tail(Q)
  BY DEF SwitchFrom
<1>2. Scheduled(runqueue', Th, B, current')
  BY <1>1, SwitchScheduled
<1>3. Q # <<>> => Head(Q) \in T
  BY DEF Ready
<1> QED
  BY <1>1, <1>2, <1>3

(* The state between the send and the receive phase of the current thread. *)
Between(t, H, B, Q) ==
  /\ t \in threads /\ current = t
  /\ H \in Heaps
  /\ B \in [T -> BOOLEAN] /\ ~B[t]
  /\ Scheduled(Q, threads, B, current)
  /\ Waits(H, threads, B, pc, blockedOn, abort)
  /\ ServerKept(H)

(* What the steps of the send and the receive phase establish. *)
After ==
  /\ chan' \in Heaps
  /\ blocked' \in [T -> BOOLEAN]
  /\ pc' \in [T -> PcType]
  /\ blockedOn' \in [T -> Chans \cup {None}]
  /\ current' \in T \cup {Idle}
  /\ Scheduled(runqueue', threads, blocked', current')
  /\ Waits(chan', threads, blocked', pc', blockedOn', abort)
  /\ ServerKept(chan')

LEMMA QueueTypes ==
  ASSUME NEW H \in Heaps
  PROVE  \A c \in Chans : H[c] # Free => H[c].queue \in Seq(T)
  BY LiveType DEF ChannelType

(* The thread goes on without sleeping. *)
LEMMA ReturnAfter ==
  ASSUME Typed, NEW t \in T, NEW H, NEW B, NEW Q, Between(t, H, B, Q), NEW x \in PcType,
         chan' = H, blocked' = B, pc' = [pc EXCEPT ![t] = x], runqueue' = Q,
         UNCHANGED <<blockedOn, current>>
  PROVE  After
<1>1. pc' \in [T -> PcType] /\ \A u \in T \ {t} : pc'[u] = pc[u]
  BY DEF Typed
<1>2. threads \in SUBSET T
  BY DEF Typed
<1>3. Waits(H, threads, B, pc', blockedOn, abort)
  BY <1>1, <1>2, RunningWaits, QueueTypes DEF Between
<1> QED
  BY <1>1, <1>3 DEF After, Between, Typed

LEMMA ReceiveAfter ==
  ASSUME IpcAssumption, Typed, NEW t \in T, NEW H, NEW B, NEW Q, Between(t, H, B, Q),
         NEW c \in Chans, H[c] # Free, H[H[c].xfer] # Free,
         ReceivePhase(t, c, H, B, Q)
  PROVE  After
<1>3. H \in Heaps /\ H[c].xfer \in Chans
  BY LiveType DEF Between, ChannelType
<1>4. PICK rc \in Chans : rc = H[c].xfer
  BY <1>3
<1> DEFINE closed == H[rc].destructed \/ H[rc].receiver # None
<1>0. /\ H \in Heaps /\ threads \in SUBSET T /\ B \in [T -> BOOLEAN] /\ pc \in [T -> PcType]
      /\ Waits(H, threads, B, pc, blockedOn, abort) /\ t \in threads /\ ~B[t] /\ H[rc] # Free
  BY <1>4 DEF Between, Typed
<1>1. CASE closed
  <2>1. /\ chan' = H /\ blocked' = B /\ pc' = [pc EXCEPT ![t] = Received(t)] /\ runqueue' = Q
        /\ UNCHANGED <<blockedOn, current>>
    BY <1>1, <1>4 DEF ReceivePhase
  <2>2. Received(t) \in PcType
    BY PcTypes
  <2> QED
    BY <2>1, <2>2, ReturnAfter
<1>2. CASE ~closed
  <2>1. PICK B1 : B1 = [B EXCEPT ![t] = TRUE]
    OBVIOUS
  <2>2. PICK H1 : H1 = WithReceiver(H, rc, t)
    OBVIOUS
  <2>3. pc' = [pc EXCEPT ![t] = [at |-> "receiving", ch |-> rc, recv |-> TRUE]]
    BY <1>2, <1>4 DEF ReceivePhase
  <2>4. /\ pc' \in [T -> PcType] /\ \A u \in T \ {t} : pc'[u] = pc[u]
        /\ pc'[t].at \in Receives /\ pc'[t].ch = rc
    <3>1. [at |-> "receiving", ch |-> rc, recv |-> TRUE] \in PcType
      BY <1>0, PcTypes
    <3> QED
      BY <2>3, <3>1 DEF Typed, Receives
  <2>5. H[rc].receiver = None /\ H[rc].queue \in Seq(T)
    BY <1>0, <1>2, LiveType DEF ChannelType
  <2>6. /\ SameBut(H1, H, rc)
        /\ H1[rc].receiver = t /\ H1[rc].queue = H[rc].queue
        /\ H1[rc].destructed = H[rc].destructed
    BY <1>0, <2>2, SetReceiver
  <2>7. B1 \in [T -> BOOLEAN] /\ B1[t] /\ \A u \in T \ {t} : B1[u] = B[u]
    BY <1>0, <2>1
  <2>8. H1 \in Heaps
    BY <2>6 DEF SameBut
  <2>9. Waits(H1, threads, B1, pc', blockedOn, abort)
    <3>1. PICK P1 \in [T -> PcType] : P1 = pc'
      BY <2>4
    <3>2. P1[t].at \in Receives /\ P1[t].ch = rc /\ \A u \in T \ {t} : B1[u] = B[u] /\ P1[u] = pc[u]
      BY <2>4, <2>7, <3>1
    <3>3. H[rc].receiver = None
      BY <2>5
    <3>4. SameBut(H1, H, rc) /\ H1[rc].receiver = t /\ H1[rc].queue = H[rc].queue
      BY <2>6
    <3>5. B1 \in [T -> BOOLEAN] /\ B1[t]
      BY <2>7
    <3>6. Waits(H1, threads, B1, P1, blockedOn, abort)
      BY <1>0, <3>2, <3>3, <3>4, <3>5, ListenWaits
    <3> QED
      BY <3>1, <3>6
  <2>10. Ready(Q, threads, B1)
    BY <1>0, <2>1, BlockReady DEF Between
  <2>11. ServerKept(H1)
    BY <1>0, <2>6 DEF Between, ServerKept, SameBut, IpcAssumption
  <2>12. CASE H[rc].queue = <<>>
    <3>1. chan' = H1 /\ blocked' = B1 /\ SwitchFrom(Q) /\ UNCHANGED blockedOn
      BY <1>2, <1>4, <2>1, <2>2, <2>12 DEF ReceivePhase, WithReceiver
    <3>2. Scheduled(runqueue', threads, B1, current') /\ current' \in T \cup {Idle}
      BY <1>0, <2>7, <2>10, <3>1, SwitchStep
    <3> QED
      BY <2>4, <2>7, <2>8, <2>9, <2>11, <3>1, <3>2 DEF After, Typed
  <2>13. CASE H[rc].queue # <<>>
    <3>0. PICK s : s = Head(H[rc].queue)
      OBVIOUS
    <3>1. /\ chan' = [H EXCEPT ![rc].receiver = t, ![rc].queue = Tail(@)]
          /\ blocked' = [B1 EXCEPT ![s] = FALSE]
          /\ blockedOn' = [blockedOn EXCEPT ![s] = None]
          /\ SwitchFrom(Resume(Q, B1, s))
      BY <1>2, <1>4, <2>1, <2>13, <3>0 DEF ReceivePhase
    <3>2. H1[rc] # Free /\ H1[rc].queue # <<>> /\ Tail(H[rc].queue) \in Seq(T)
      BY <2>5, <2>6, <2>13 DEF SameBut
    <3>3. IsInjective(H[rc].queue) /\ s \in ToSet(H[rc].queue)
      <4>1. IsInjective(H[rc].queue)
        BY <1>0 DEF Between, Waits, Queues
      <4> QED
        BY <2>5, <2>13, <3>0, <4>1, TailSet
    <3>4. s \in threads /\ B[s] /\ s # t /\ s \in T
      BY <1>0, <3>3 DEF Between, Waits, Queues
    <3>5. B1[s]
      BY <2>7, <3>4
    <3>6. chan' = WithQueue(H1, rc, Tail(H[rc].queue))
      BY <1>0, <2>2, <2>6, <3>1 DEF Heaps, WithReceiver, WithQueue
    <3>14. /\ SameBut(chan', H1, rc)
           /\ chan'[rc].receiver = H1[rc].receiver /\ chan'[rc].queue = Tail(H[rc].queue)
           /\ chan'[rc].destructed = H1[rc].destructed
      <4>1. PICK q \in Seq(T) : q = Tail(H[rc].queue)
        BY <3>2
      <4>2. chan' = WithQueue(H1, rc, q) /\ H1[rc] # Free
        BY <3>2, <3>6, <4>1
      <4>3. /\ SameBut(chan', H1, rc)
            /\ chan'[rc].receiver = H1[rc].receiver /\ chan'[rc].queue = q
            /\ chan'[rc].destructed = H1[rc].destructed
        BY <2>8, <4>2, SetQueue
      <4> QED
        BY <4>1, <4>3
    <3>7. /\ SameBut(chan', H1, rc)
          /\ chan'[rc].receiver = H1[rc].receiver /\ chan'[rc].queue = Tail(H1[rc].queue)
          /\ chan'[rc].destructed = H1[rc].destructed
      BY <2>6, <3>14
    <3>8. /\ blocked' \in [T -> BOOLEAN] /\ ~blocked'[s]
          /\ blockedOn' \in [T -> Chans \cup {None}]
          /\ \A u \in T \ {s} : blocked'[u] = B1[u] /\ blockedOn'[u] = blockedOn[u]
      BY <2>7, <3>1, <3>4 DEF Typed
    <3>9. s = Head(H1[rc].queue)
      BY <2>6, <3>0
    <3>10. Waits(chan', threads, blocked', pc', blockedOn', abort)
      BY <1>0, <2>4, <2>7, <2>8, <2>9, <3>2, <3>4, <3>7, <3>8, <3>9, RetryWaits
    <3>11. Ready(Resume(Q, B1, s), threads, blocked')
      BY <1>0, <2>7, <2>10, <3>1, <3>4, <3>5, ResumeReady
    <3>12. Scheduled(runqueue', threads, blocked', current') /\ current' \in T \cup {Idle}
      BY <1>0, <3>1, <3>8, <3>11, SwitchStep
    <3>13. ServerKept(chan') /\ chan' \in Heaps
      BY <1>0, <2>11, <3>7 DEF ServerKept, SameBut, IpcAssumption
    <3> QED
      BY <2>4, <3>8, <3>10, <3>12, <3>13 DEF After
  <2> QED
    BY <2>12, <2>13
<1> QED
  BY <1>1, <1>2

LEMMA AfterInv ==
  ASSUME Inv, After, todo = <<>>, UNCHANGED <<abort, threads, listeners, todo, links>>,
         buf' = [u \in T |-> buf'[u]]
  PROVE  Inv'
<1>1. Typed'
  BY DEF Inv, Typed, After
<1>2. KillsLast(chan', todo')
  BY NoCalls
<1> QED
  BY <1>1, <1>2 DEF Inv, After

LEMMA SetBuf ==
  ASSUME Typed, NEW t, NEW m, buf' = [buf EXCEPT ![t] = m]
  PROVE  buf' = [u \in T |-> buf'[u]]
  BY DEF Typed

LEMMA SetBufs ==
  ASSUME Typed, NEW r, NEW x, NEW t, NEW m, buf' = [buf EXCEPT ![r] = x, ![t] = m]
  PROVE  buf' = [u \in T |-> buf'[u]]
  BY DEF Typed

LEMMA AfterSendAfter ==
  ASSUME IpcAssumption, Typed, NEW t \in T, NEW H, NEW B, NEW Q, Between(t, H, B, Q),
         NEW c \in Chans, NEW recv \in BOOLEAN, H[c] # Free, recv => H[H[c].xfer] # Free,
         AfterSend(t, c, recv, H, B, Q)
  PROVE  After
<1>1. CASE recv
  BY <1>1, ReceiveAfter DEF AfterSend
<1>2. CASE ~recv
  BY <1>2, ReturnAfter, PcTypes DEF AfterSend
<1> QED
  BY <1>1, <1>2

LEMMA FreshSlot ==
  ASSUME NEW H, FreeSlots(H) # {}
  PROVE  Fresh(H) \in Chans /\ H[Fresh(H)] = Free
  BY DEF FreeSlots, Fresh

(* A new channel changes nothing for the others. *)
LEMMA CreateHeap ==
  ASSUME IpcAssumption, NEW H \in Heaps, ServerKept(H), NEW n \in Chans, H[n] = Free,
         NEW p \in Procs \cup {Kernel}, NEW G, G = WithChannel(H, n, p),
         NEW Th \in SUBSET T, NEW B, NEW P \in [T -> PcType], NEW On, NEW A,
         Waits(H, Th, B, P, On, A)
  PROVE  /\ G \in Heaps /\ G[n] = NewChannel(n, p) /\ G[n] # Free
         /\ \A d \in Chans \ {n} : G[d] = H[d]
         /\ ServerKept(G)
         /\ Waits(G, Th, B, P, On, A)
<1>1. /\ G \in Heaps /\ G[n] = NewChannel(n, p) /\ G[n] # Free
      /\ \A d \in Chans \ {n} : G[d] = H[d]
  BY AddChannel
<1>2. ServerKept(G)
  BY <1>1 DEF ServerKept, NewChannel, IpcAssumption
<1> QED
  BY <1>1, <1>2, CreateWaits

(* channel_link keeps what the threads wait for. *)
LEMMA LinkHeap ==
  ASSUME IpcAssumption, NEW H \in Heaps, ServerKept(H), NEW x \in Chans, NEW y \in Chans, x # y,
         H[x] # Free, H[y] # Free, NEW G, G = Link(H, x, y),
         NEW Th \in SUBSET T, NEW B, NEW P \in [T -> PcType], NEW On, NEW A,
         Waits(H, Th, B, P, On, A)
  PROVE  /\ G \in Heaps
         /\ \A d \in Chans : (G[d] = Free <=> H[d] = Free) /\ (H[d] # Free => G[d].xfer = H[d].xfer)
         /\ ServerKept(G)
         /\ Waits(G, Th, B, P, On, A)
<1>1. Alike(G, H) /\ \A d \in Chans : H[d] # Free => G[d].xfer = H[d].xfer
  BY LinkAlike
<1>2. Waits(G, Th, B, P, On, A)
  BY <1>1, AlikeWaits
<1>3. ServerKept(G)
  BY <1>1 DEF ServerKept, Alike, SameFields, IpcAssumption
<1> QED
  BY <1>1, <1>2, <1>3 DEF Alike

LEMMA DeliverInv ==
  ASSUME IpcAssumption, Inv, NEW t \in T, t \in threads, current = t, todo = <<>>,
         NEW c \in Chans, Live(c), Live(chan[c].link), NEW recv \in BOOLEAN, NEW m,
         NEW dst, dst = chan[chan[c].link].xfer, Live(dst), chan[dst].receiver \in threads,
         Deliver(t, c, recv, m)
  PROVE  Inv'
<1>1. /\ Typed /\ chan \in Heaps /\ threads \in SUBSET T /\ blocked \in [T -> BOOLEAN]
      /\ pc \in [T -> PcType] /\ abort \in [T -> Reasons]
      /\ Scheduled(runqueue, threads, blocked, current)
      /\ Waits(chan, threads, blocked, pc, blockedOn, abort)
      /\ ServerKept(chan)
  BY DEF Inv, Typed
<1>2. chan[c].link \in Chans /\ dst \in Chans
  BY <1>1, LiveType DEF Live, ChannelType
<1>3. PICK r \in threads : r = chan[dst].receiver
  OBVIOUS
<1>4. r \in T /\ blocked[r] /\ chan[dst] # Free
  BY <1>1, <1>2, <1>3 DEF Waits, Receivers, Live
<1>5. ~blocked[t] /\ t # r
  BY <1>1, <1>4 DEF Scheduled
<1>6. PICK H : H = WithReceiver(chan, dst, None)
  OBVIOUS
<1>7. /\ SameBut(H, chan, dst)
      /\ H[dst].receiver = None /\ H[dst].queue = chan[dst].queue
      /\ H[dst].destructed = chan[dst].destructed
  BY <1>1, <1>2, <1>4, <1>6, SetReceiver
<1>8. H \in Heaps
  BY <1>7 DEF SameBut
<1>9. ServerKept(H)
  BY <1>1, <1>2, <1>7 DEF ServerKept, SameBut, IpcAssumption
<1>10. PICK B : B = [blocked EXCEPT ![r] = FALSE]
  OBVIOUS
<1>11. B \in [T -> BOOLEAN] /\ ~B[r] /\ ~B[t] /\ \A u \in T \ {r} : B[u] = blocked[u]
  BY <1>1, <1>4, <1>5, <1>10
<1>12. PICK Q : Q = Resume(runqueue, blocked, r)
  OBVIOUS
<1>13. Scheduled(Q, threads, B, current)
  BY <1>1, <1>4, <1>10, <1>12, ResumeScheduled
<1>14. Waits(H, threads, B, pc, blockedOn, abort)
  <2>1. \A u \in T \ {r} : B[u] = blocked[u] /\ abort[u] = abort[u]
    BY <1>11
  <2>2. chan[dst].receiver = r /\ dst \in Chans
    BY <1>2, <1>3
  <2>3. B \in [T -> BOOLEAN] /\ (B[r] => abort[r] # "OK")
    BY <1>11
  <2> QED
    BY <1>1, <1>7, <2>1, <2>2, <2>3, WakeWaits
<1>15. PICK bad : bad = (m.ch # None /\ (m.ch \notin Table(ProcessOf[t]) \/ FreeSlots(chan) = {}))
  OBVIOUS
<1>16. PICK lost : lost = (~bad /\ ~((m.ch # None => Live(chan[m.ch].link)) /\ (recv => Live(chan[c].xfer))))
  OBVIOUS
<1>17. \A d \in Chans : (H[d] = Free <=> chan[d] = Free) /\ H[d].xfer = chan[d].xfer
  BY <1>7 DEF SameBut
<1>18. chan[c].xfer \in Chans
  BY <1>1, LiveType DEF Live, ChannelType
<1>19. PICK arrived : arrived = [Empty EXCEPT !.hdr = m.hdr, !.from = chan[c].link]
  OBVIOUS
<1>20. ASSUME m.ch = None, ~lost,
              buf' = [buf EXCEPT ![r] = arrived, ![t] = Empty],
              AfterSend(t, c, recv, H, B, Q),
              UNCHANGED <<abort, threads, listeners, todo, links, halted>>
       PROVE  Inv'
  <2>1. Between(t, H, B, Q)
    BY <1>8, <1>9, <1>11, <1>13, <1>14 DEF Between
  <2>2. H[c] # Free /\ (recv => H[H[c].xfer] # Free)
    BY <1>15, <1>16, <1>17, <1>18, <1>20 DEF Live
  <2>3. After
    BY <1>1, <1>20, <2>1, <2>2, AfterSendAfter
  <2>4. buf' = [u \in T |-> buf'[u]]
    BY <1>1, <1>20, SetBufs
  <2> QED
    BY <1>20, <2>3, <2>4, AfterInv
<1>21. ASSUME abort' = [abort EXCEPT ![r] = "NEEDS_RETRY"],
              buf' = [buf EXCEPT ![r] = arrived, ![t] = Empty],
              chan' = H,
              pc' = [pc EXCEPT ![t] = Returned(t)],
              UNCHANGED <<blocked, runqueue, current, blockedOn, threads, listeners, todo,
                          links, halted>>
       PROVE  Inv'
  <2>1. /\ pc' \in [T -> PcType] /\ \A u \in T \ {t} : pc'[u] = pc[u]
    BY <1>1, <1>21, PcTypes
  <2>2. /\ abort' \in [T -> Reasons] /\ abort'[r] # "OK"
        /\ \A u \in T \ {r} : abort'[u] = abort[u]
    BY <1>1, <1>4, <1>21 DEF Reasons
  <2>3. chan[dst].receiver = r /\ dst \in Chans
    BY <1>2, <1>3
  <2>4. Waits(H, threads, blocked, pc, blockedOn, abort')
    <3>1. PICK A : A = abort'
      OBVIOUS
    <3>2. \A u \in T \ {r} : blocked[u] = blocked[u] /\ A[u] = abort[u]
      BY <2>2, <3>1
    <3>3. blocked[r] => A[r] # "OK"
      BY <2>2, <3>1
    <3>4. Waits(H, threads, blocked, pc, blockedOn, A)
      BY <1>1, <1>7, <2>3, <3>2, <3>3, WakeWaits
    <3> QED
      BY <3>1, <3>4
  <2>5. Waits(H, threads, blocked, pc', blockedOn, abort')
    BY <1>1, <1>5, <1>8, <2>1, <2>4, RunningWaits, QueueTypes
  <2>6. buf' = [u \in T |-> buf'[u]]
    BY <1>1, <1>21, SetBufs
  <2>7. Typed'
    BY <1>1, <1>8, <1>21, <2>1, <2>2, <2>6 DEF Typed
  <2>8. KillsLast(chan', todo')
    BY <1>21, NoCalls
  <2> QED
    BY <1>1, <1>9, <1>21, <2>5, <2>7, <2>8 DEF Inv
<1>22. ASSUME m.ch # None, ~bad, ~lost, NEW n, n = Fresh(chan), NEW x,
              buf' = [buf EXCEPT ![r] = x, ![t] = Empty],
              NEW G, G = Link([H EXCEPT ![n] = NewChannel(n, ProcessOf[r])], chan[m.ch].link, n),
              AfterSend(t, c, recv, G, B, Q),
              UNCHANGED <<abort, threads, listeners, todo, links, halted>>
       PROVE  Inv'
  <2>1. m.ch \in Chans /\ Live(m.ch) /\ FreeSlots(chan) # {}
    BY <1>15, <1>22 DEF Table
  <2>2. n \in Chans /\ chan[n] = Free
    BY <1>22, <2>1, FreshSlot
  <2>3. chan[m.ch].link \in Chans
    BY <1>1, <2>1, LiveType DEF Live, ChannelType
  <2>4. PICK k \in Chans : k = chan[m.ch].link
    BY <2>3
  <2>5. Live(k) /\ (recv => Live(chan[c].xfer))
    BY <1>16, <1>22, <2>4
  <2>6. ProcessOf[r] \in Procs \cup {Kernel}
    BY <1>4 DEF IpcAssumption, T
  <2>7. PICK p \in Procs \cup {Kernel} : p = ProcessOf[r]
    BY <2>6
  <2>8. PICK H1 : H1 = WithChannel(H, n, p)
    OBVIOUS
  <2>9. H[n] = Free
    BY <1>17, <2>2
  <2>10. /\ H1 \in Heaps /\ H1[n] = NewChannel(n, p) /\ H1[n] # Free
         /\ \A d \in Chans \ {n} : H1[d] = H[d]
         /\ ServerKept(H1)
         /\ Waits(H1, threads, B, pc, blockedOn, abort)
    BY <1>1, <1>8, <1>9, <1>14, <2>2, <2>8, <2>9, CreateHeap
  <2>11. G = Link(H1, k, n)
    BY <1>22, <2>4, <2>7, <2>8 DEF WithChannel
  <2>12. k # n /\ H1[k] # Free
    BY <1>17, <2>2, <2>5, <2>10 DEF Live
  <2>13. /\ G \in Heaps
         /\ \A d \in Chans : (G[d] = Free <=> H1[d] = Free) /\ (H1[d] # Free => G[d].xfer = H1[d].xfer)
         /\ ServerKept(G)
         /\ Waits(G, threads, B, pc, blockedOn, abort)
    BY <1>1, <2>2, <2>10, <2>11, <2>12, LinkHeap
  <2>14. Between(t, G, B, Q)
    BY <1>11, <1>13, <2>13 DEF Between
  <2>15. H1[c] = H[c] /\ H1[c] # Free /\ H[c].xfer = chan[c].xfer
    BY <1>17, <2>2, <2>10 DEF Live
  <2>16. G[c] # Free /\ G[c].xfer = chan[c].xfer
    BY <2>13, <2>15
  <2>17. recv => H1[chan[c].xfer] # Free
    BY <1>17, <1>18, <2>2, <2>5, <2>10 DEF Live
  <2>18. recv => G[G[c].xfer] # Free
    BY <1>18, <2>13, <2>16, <2>17
  <2>19. After
    BY <1>1, <1>22, <2>14, <2>16, <2>18, AfterSendAfter
  <2>20. buf' = [u \in T |-> buf'[u]]
    BY <1>1, <1>22, SetBufs
  <2> QED
    BY <1>22, <2>19, <2>20, AfterInv
<1>23. ASSUME NEW x, NEW y, buf' = [buf EXCEPT ![r] = x, ![t] = y],
              chan' = H,
              blocked' = [blocked EXCEPT ![t] = TRUE],
              pc' = [pc EXCEPT ![t] = [at |-> "filling", ch |-> c, recv |-> recv],
                               ![r].at = Taken(@)],
              SwitchFrom(runqueue),
              UNCHANGED <<abort, blockedOn, threads, listeners, todo, links, halted>>
       PROVE  Inv'
  <2>1. PICK B1 : B1 = [blocked EXCEPT ![t] = TRUE]
    OBVIOUS
  <2>2. B1 \in [T -> BOOLEAN] /\ B1[t] /\ \A u \in T \ {t} : B1[u] = blocked[u]
    BY <1>1, <2>1
  <2>3. pc[r].at \in Receives /\ pc[r] \in PcType
    BY <1>1, <1>2, <1>3, <1>4 DEF Waits, Receivers
  <2>4. /\ [pc[r] EXCEPT !.at = Taken(@)] \in PcType
        /\ [pc[r] EXCEPT !.at = Taken(@)].at \in Takens
    BY <2>3 DEF PcType, Places, InCall, Receives, Takens, Taken
  <2>5. PICK v : v = [pc[r] EXCEPT !.at = Taken(@)]
    OBVIOUS
  <2>6. PICK w \in PcType : w = [at |-> "filling", ch |-> c, recv |-> recv]
    BY PcTypes
  <2>7. pc' = [pc EXCEPT ![t] = w, ![r] = v]
    BY <1>1, <1>4, <1>5, <1>23, <2>5, <2>6
  <2>8. /\ pc' \in [T -> PcType] /\ pc'[r] = v /\ pc'[t] = w
        /\ \A u \in T \ {r, t} : pc'[u] = pc[u]
    BY <1>1, <1>4, <1>5, <2>4, <2>5, <2>7
  <2>9. PICK P1 \in [T -> PcType] : P1 = pc'
    BY <2>8
  <2>10. P1[r].at \in Takens /\ P1[t].at = "filling" /\ \A u \in T \ {r, t} : P1[u] = pc[u]
    <3>1. P1[r] = v /\ P1[t] = w /\ v.at \in Takens
      BY <2>4, <2>5, <2>8, <2>9
    <3>2. w.at = "filling"
      BY <2>6
    <3>3. \A u \in T \ {r, t} : P1[u] = pc[u]
      BY <2>8, <2>9
    <3> QED
      BY <3>1, <3>2, <3>3
  <2>11. chan[dst].receiver = r /\ dst \in Chans
    BY <1>2, <1>3
  <2>12. Waits(H, threads, B1, P1, blockedOn, abort)
    BY <1>1, <1>5, <1>7, <2>2, <2>10, <2>11, TakeWaits
  <2>13. Ready(runqueue, threads, B1)
    BY <1>1, <2>1, BlockReady
  <2>14. Scheduled(runqueue', threads, B1, current') /\ current' \in T \cup {Idle}
    BY <1>1, <1>23, <2>2, <2>13, SwitchStep
  <2>15. After
    BY <1>1, <1>8, <1>9, <1>23, <2>1, <2>2, <2>8, <2>9, <2>12, <2>14 DEF After, Typed
  <2>16. buf' = [u \in T |-> buf'[u]]
    BY <1>1, <1>23, SetBufs
  <2> QED
    BY <1>23, <2>15, <2>16, AfterInv
<1>24. PICK n : n = Fresh(chan)
  OBVIOUS
<1>25. PICK G : G = Link([H EXCEPT ![n] = NewChannel(n, ProcessOf[r])], chan[m.ch].link, n)
  OBVIOUS
<1>26. \/ /\ m.ch = None /\ ~lost
          /\ buf' = [buf EXCEPT ![r] = arrived, ![t] = Empty]
          /\ AfterSend(t, c, recv, H, B, Q)
          /\ UNCHANGED <<abort, threads, listeners, todo, links, halted>>
       \/ /\ abort' = [abort EXCEPT ![r] = "NEEDS_RETRY"]
          /\ buf' = [buf EXCEPT ![r] = arrived, ![t] = Empty]
          /\ chan' = H
          /\ pc' = [pc EXCEPT ![t] = Returned(t)]
          /\ UNCHANGED <<blocked, runqueue, current, blockedOn, threads, listeners, todo,
                         links, halted>>
       \/ /\ m.ch # None /\ ~bad /\ ~lost
          /\ buf' = [buf EXCEPT ![r] = [arrived EXCEPT !.ch = n], ![t] = Empty]
          /\ AfterSend(t, c, recv, G, B, Q)
          /\ UNCHANGED <<abort, threads, listeners, todo, links, halted>>
       \/ /\ buf' = [buf EXCEPT ![r] = arrived, ![t] = [m EXCEPT !.to = r]]
          /\ chan' = H
          /\ blocked' = [blocked EXCEPT ![t] = TRUE]
          /\ pc' = [pc EXCEPT ![t] = [at |-> "filling", ch |-> c, recv |-> recv],
                              ![r].at = Taken(@)]
          /\ SwitchFrom(runqueue)
          /\ UNCHANGED <<abort, blockedOn, threads, listeners, todo, links, halted>>
       \/ Halt("use after free")
  BY <1>3, <1>6, <1>10, <1>12, <1>15, <1>16, <1>19, <1>24, <1>25 DEF Deliver, WithReceiver
<1>27. CASE Halt("use after free")
  BY <1>27, HaltInv
<1> QED
  BY <1>20, <1>21, <1>22, <1>23, <1>24, <1>25, <1>26, <1>27

(* What the invariant says of the current thread. *)
LEMMA CurrentRuns ==
  ASSUME Inv, NEW t \in threads, current = t
  PROVE  /\ Typed /\ chan \in Heaps /\ threads \in SUBSET T /\ blocked \in [T -> BOOLEAN]
         /\ pc \in [T -> PcType] /\ abort \in [T -> Reasons]
         /\ blockedOn \in [T -> Chans \cup {None}]
         /\ Scheduled(runqueue, threads, blocked, current)
         /\ Waits(chan, threads, blocked, pc, blockedOn, abort)
         /\ ServerKept(chan)
         /\ t \in T /\ ~blocked[t]
  BY DEF Inv, Typed, Scheduled

(* A system call returns an error, or the kernel server goes on. *)
LEMMA ReturnInv ==
  ASSUME Inv, NEW t \in threads, current = t, todo = <<>>, NEW x \in PcType, NEW m,
         pc' = [pc EXCEPT ![t] = x], buf' = [buf EXCEPT ![t] = m],
         UNCHANGED <<chan, threads, blocked, abort, blockedOn, runqueue, current, listeners,
                     todo, links>>
  PROVE  Inv'
<1>1. /\ Typed /\ chan \in Heaps /\ blocked \in [T -> BOOLEAN] /\ t \in T /\ ~blocked[t]
      /\ Scheduled(runqueue, threads, blocked, current)
      /\ Waits(chan, threads, blocked, pc, blockedOn, abort)
      /\ ServerKept(chan)
  BY CurrentRuns
<1>2. Between(t, chan, blocked, runqueue)
  BY <1>1 DEF Between
<1>3. chan' = chan /\ blocked' = blocked /\ runqueue' = runqueue /\ UNCHANGED <<blockedOn, current>>
  OBVIOUS
<1>4. PICK H : H = chan
  OBVIOUS
<1>5. PICK B : B = blocked
  OBVIOUS
<1>6. PICK Q : Q = runqueue
  OBVIOUS
<1>7. Between(t, H, B, Q) /\ chan' = H /\ blocked' = B /\ runqueue' = Q
  BY <1>2, <1>3, <1>4, <1>5, <1>6
<1>8. After
  BY <1>1, <1>3, <1>7, ReturnAfter
<1>9. buf' = [u \in T |-> buf'[u]]
  BY <1>1, SetBuf
<1> QED
  BY <1>8, <1>9, AfterInv

LEMMA SendPhaseInv ==
  ASSUME IpcAssumption, Inv, NEW t \in threads, current = t, todo = <<>>,
         NEW c \in Chans, NEW recv \in BOOLEAN, NEW noblock \in BOOLEAN, NEW m,
         SendPhase(t, c, recv, noblock, m)
  PROVE  Inv'
<1>1. /\ Typed /\ chan \in Heaps /\ threads \in SUBSET T /\ blocked \in [T -> BOOLEAN]
      /\ pc \in [T -> PcType]
      /\ blockedOn \in [T -> Chans \cup {None}]
      /\ Scheduled(runqueue, threads, blocked, current)
      /\ Waits(chan, threads, blocked, pc, blockedOn, abort)
      /\ ServerKept(chan)
      /\ t \in T /\ ~blocked[t]
  BY CurrentRuns
<1>2. PICK lw : lw = chan[c].link
  OBVIOUS
<1>3. PICK dst : dst = chan[lw].xfer
  OBVIOUS
<1> DEFINE there == /\ Live(c) /\ Live(lw) /\ Live(dst)
                    /\ chan[dst].destructed \/ chan[dst].receiver \in threads \cup {None}
<1>4. CASE ~there
  <2>1. Halt("use after free")
    BY <1>2, <1>3, <1>4 DEF SendPhase
  <2> QED
    BY <2>1, HaltInv
<1>5. CASE there /\ (chan[dst].destructed \/ (chan[dst].receiver = None /\ noblock))
  <2>1. /\ pc' = [pc EXCEPT ![t] = Returned(t)]
        /\ buf' = [buf EXCEPT ![t] = Empty]
        /\ UNCHANGED <<chan, threads, blocked, abort, blockedOn, runqueue, current,
                       listeners, todo, links, halted>>
    BY <1>2, <1>3, <1>5 DEF SendPhase
  <2> QED
    BY <2>1, PcTypes, ReturnInv
<1>6. CASE there /\ ~chan[dst].destructed /\ chan[dst].receiver # None
  <2>1. Deliver(t, c, recv, m)
    BY <1>2, <1>3, <1>6 DEF SendPhase
  <2>2. Live(c) /\ Live(chan[c].link) /\ dst = chan[chan[c].link].xfer /\ Live(dst)
          /\ chan[dst].receiver \in threads
    BY <1>2, <1>3, <1>6
  <2> QED
    BY <1>1, <2>1, <2>2, DeliverInv
<1>7. CASE there /\ ~chan[dst].destructed /\ chan[dst].receiver = None /\ ~noblock
  <2>1. /\ chan' = [chan EXCEPT ![dst].queue = Append(@, t)]
        /\ blockedOn' = [blockedOn EXCEPT ![t] = dst]
        /\ blocked' = [blocked EXCEPT ![t] = TRUE]
        /\ pc' = [pc EXCEPT ![t] = [at |-> "sending", ch |-> c, recv |-> recv]]
        /\ buf' = [buf EXCEPT ![t] = m]
        /\ SwitchFrom(runqueue)
        /\ UNCHANGED <<threads, abort, listeners, todo, links, halted>>
    BY <1>2, <1>3, <1>7 DEF SendPhase
  <2>2. lw \in Chans /\ chan[lw] # Free
    BY <1>1, <1>2, <1>7, LiveType DEF Live, ChannelType
  <2>3. dst \in Chans /\ chan[dst] # Free
    BY <1>1, <1>3, <1>7, <2>2, LiveType DEF Live, ChannelType
  <2>4. chan[dst].queue \in Seq(T)
    BY <1>1, <2>3, QueueTypes
  <2>16. /\ Append(chan[dst].queue, t) \in Seq(T)
         /\ ToSet(Append(chan[dst].queue, t)) = ToSet(chan[dst].queue) \cup {t}
         /\ IsInjective(chan[dst].queue) /\ t \notin ToSet(chan[dst].queue) =>
              IsInjective(Append(chan[dst].queue, t))
    BY <1>1, <2>4, AppendSet
  <2>5. PICK q \in Seq(T) : q = Append(chan[dst].queue, t)
    BY <2>16
  <2>6. chan' = WithQueue(chan, dst, q)
    BY <2>1, <2>5 DEF WithQueue
  <2>7. /\ SameBut(chan', chan, dst)
        /\ chan'[dst].receiver = chan[dst].receiver /\ chan'[dst].queue = q
        /\ chan'[dst].destructed = chan[dst].destructed
    BY <1>1, <2>3, <2>6, SetQueue
  <2>8. /\ blocked' \in [T -> BOOLEAN] /\ blocked'[t]
        /\ blockedOn' \in [T -> Chans \cup {None}] /\ blockedOn'[t] = dst
        /\ \A u \in T \ {t} : blocked'[u] = blocked[u] /\ blockedOn'[u] = blockedOn[u]
    BY <1>1, <2>1, <2>3
  <2>9. pc' \in [T -> PcType] /\ pc'[t].at = "sending" /\ \A u \in T \ {t} : pc'[u] = pc[u]
    BY <1>1, <2>1, PcTypes
  <2>10. Waits(chan', threads, blocked', pc', blockedOn', abort)
    <3>1. /\ ToSet(chan'[dst].queue) = ToSet(chan[dst].queue) \cup {t}
          /\ IsInjective(chan[dst].queue) /\ t \notin ToSet(chan[dst].queue) =>
               IsInjective(chan'[dst].queue)
      BY <2>5, <2>7, <2>16
    <3>2. PICK P \in [T -> PcType] : P = pc'
      BY <2>9
    <3>3. PICK B \in [T -> BOOLEAN] : B = blocked'
      BY <2>8
    <3>4. PICK On : On = blockedOn'
      OBVIOUS
    <3>5. PICK G : G = chan'
      OBVIOUS
    <3>6. P[t].at = "sending" /\ On[t] = dst /\ B[t]
      BY <2>8, <2>9, <3>2, <3>3, <3>4
    <3>7. \A u \in T \ {t} : B[u] = blocked[u] /\ On[u] = blockedOn[u] /\ P[u] = pc[u]
      BY <2>8, <2>9, <3>2, <3>3, <3>4
    <3>8. /\ SameBut(G, chan, dst) /\ G[dst].receiver = chan[dst].receiver
          /\ G[dst].destructed = chan[dst].destructed
          /\ ToSet(G[dst].queue) = ToSet(chan[dst].queue) \cup {t}
          /\ IsInjective(chan[dst].queue) /\ t \notin ToSet(chan[dst].queue) =>
               IsInjective(G[dst].queue)
      BY <2>7, <3>1, <3>5
    <3>10. /\ chan \in Heaps /\ threads \in SUBSET T /\ blocked \in [T -> BOOLEAN]
           /\ pc \in [T -> PcType] /\ Waits(chan, threads, blocked, pc, blockedOn, abort)
           /\ t \in T /\ ~blocked[t] /\ dst \in Chans
      BY <1>1, <2>3
    <3>9. Waits(G, threads, B, P, On, abort)
      BY <3>6, <3>7, <3>8, <3>10, JoinWaits, SMTT(60)
    <3> QED
      BY <3>2, <3>3, <3>4, <3>5, <3>9
  <2>11. Ready(runqueue, threads, blocked')
    BY <1>1, <2>1, BlockReady
  <2>12. Scheduled(runqueue', threads, blocked', current') /\ current' \in T \cup {Idle}
    <3>1. PICK B \in [T -> BOOLEAN] : B = blocked'
      BY <2>8
    <3>2. PICK Q : Q = runqueue
      OBVIOUS
    <3>3. Ready(Q, threads, B) /\ SwitchFrom(Q)
      BY <2>1, <2>11, <3>1, <3>2 DEF SwitchFrom
    <3>4. PICK Th \in SUBSET T : Th = threads
      BY <1>1
    <3>5. Scheduled(runqueue', Th, B, current') /\ current' \in T \cup {Idle}
      BY <3>3, <3>4, SwitchStep
    <3> QED
      BY <3>1, <3>4, <3>5
  <2>13. ServerKept(chan') /\ chan' \in Heaps
    BY <1>1, <2>7 DEF ServerKept, SameBut, IpcAssumption
  <2>14. After
    BY <2>8, <2>9, <2>10, <2>12, <2>13 DEF After
  <2>15. buf' = [u \in T |-> buf'[u]]
    BY <1>1, <2>1, SetBuf
  <2> QED
    BY <2>1, <2>14, <2>15, AfterInv
<1> QED
  BY <1>4, <1>5, <1>6, <1>7

LEMMA FastpathInv ==
  ASSUME IpcAssumption, Inv, NEW t \in threads, current = t, todo = <<>>,
         NEW c \in Chans, Live(c), NEW m, FastpathOk(t, c, m), Fastpath(t, c, m)
  PROVE  Inv'
<1>1. /\ Typed /\ chan \in Heaps /\ threads \in SUBSET T /\ blocked \in [T -> BOOLEAN]
      /\ pc \in [T -> PcType]
      /\ Scheduled(runqueue, threads, blocked, current)
      /\ Waits(chan, threads, blocked, pc, blockedOn, abort)
      /\ ServerKept(chan)
      /\ t \in T /\ ~blocked[t]
  BY CurrentRuns
<1>2. /\ chan[c].link \in Chans /\ chan[c].xfer \in Chans /\ Live(chan[c].link)
      /\ Live(chan[chan[c].link].xfer) /\ Live(chan[c].xfer)
  BY <1>1, LiveType DEF FastpathOk, Live, ChannelType
<1>3. PICK rc \in Chans : rc = chan[c].xfer
  BY <1>2
<1>4. chan[chan[c].link].xfer \in Chans
  BY <1>1, <1>2, LiveType DEF Live, ChannelType
<1>5. PICK dst \in Chans : dst = chan[chan[c].link].xfer
  BY <1>4
<1>6. chan[rc] # Free /\ chan[dst] # Free /\ chan[rc].receiver = None /\ chan[dst].receiver \in threads
  BY <1>2, <1>3, <1>5 DEF FastpathOk, Live
<1>7. PICK r \in threads : r = chan[dst].receiver
  BY <1>6
<1>8. r \in T /\ blocked[r] /\ r # t /\ r # None /\ rc # dst
  BY <1>1, <1>6, <1>7 DEF Waits, Receivers, IpcAssumption
<1>9. PICK H : H = WithReceiver(chan, rc, t)
  OBVIOUS
<1>10. PICK G : G = WithReceiver(H, dst, None)
  OBVIOUS
<1>11. /\ chan' = G
       /\ blocked' = [blocked EXCEPT ![t] = TRUE, ![r] = FALSE]
       /\ pc' = [pc EXCEPT ![t] = [at |-> "fastpath", ch |-> rc, recv |-> TRUE]]
       /\ \E x : buf' = [buf EXCEPT ![r] = x, ![t] = Empty]
       /\ current' = r
       /\ UNCHANGED <<threads, abort, blockedOn, runqueue, listeners, todo, links, halted>>
  BY <1>3, <1>5, <1>7, <1>9, <1>10 DEF Fastpath, WithReceiver
<1>12. /\ SameBut(H, chan, rc) /\ H[rc].receiver = t /\ H[rc].queue = chan[rc].queue
       /\ H[rc].destructed = chan[rc].destructed
  BY <1>1, <1>6, <1>9, SetReceiver
<1>13. H \in Heaps /\ H[dst] = chan[dst] /\ H[dst].receiver = r /\ H[dst] # Free
  BY <1>6, <1>7, <1>8, <1>12 DEF SameBut
<1>14. /\ SameBut(G, H, dst) /\ G[dst].receiver = None /\ G[dst].queue = H[dst].queue
       /\ G[dst].destructed = H[dst].destructed
  BY <1>10, <1>13, SetReceiver
<1>15. G \in Heaps /\ ServerKept(H) /\ ServerKept(G)
  BY <1>1, <1>12, <1>14 DEF ServerKept, SameBut, IpcAssumption
<1>16. PICK B \in [T -> BOOLEAN] : B = [blocked EXCEPT ![t] = TRUE]
  BY <1>1
<1>17. B[t] /\ \A u \in T \ {t} : B[u] = blocked[u]
  BY <1>1, <1>16
<1>18. pc' \in [T -> PcType] /\ pc'[t].at \in Receives /\ pc'[t].ch = rc
         /\ \A u \in T \ {t} : pc'[u] = pc[u]
  <2>1. [at |-> "fastpath", ch |-> rc, recv |-> TRUE] \in PcType
    BY PcTypes
  <2> QED
    BY <1>1, <1>11, <2>1 DEF Receives
<1>19. PICK P \in [T -> PcType] : P = pc'
  BY <1>18
<1>20. Waits(H, threads, B, P, blockedOn, abort)
  <2>1. P[t].at \in Receives /\ P[t].ch = rc /\ \A u \in T \ {t} : B[u] = blocked[u] /\ P[u] = pc[u]
    BY <1>17, <1>18, <1>19
  <2>2. chan[rc].receiver = None /\ SameBut(H, chan, rc) /\ H[rc].receiver = t
          /\ H[rc].queue = chan[rc].queue /\ B[t]
    BY <1>6, <1>12, <1>17
  <2>3. /\ chan \in Heaps /\ threads \in SUBSET T /\ blocked \in [T -> BOOLEAN]
        /\ pc \in [T -> PcType] /\ Waits(chan, threads, blocked, pc, blockedOn, abort)
        /\ t \in T /\ ~blocked[t]
    BY <1>1
  <2> QED
    BY <2>1, <2>2, <2>3, ListenWaits
<1>21. blocked' = [B EXCEPT ![r] = FALSE]
  BY <1>1, <1>11, <1>16
<1>22. blocked' \in [T -> BOOLEAN] /\ ~blocked'[r] /\ \A u \in T \ {r} : blocked'[u] = B[u]
  BY <1>8, <1>21
<1>23. PICK B1 \in [T -> BOOLEAN] : B1 = blocked'
  BY <1>22
<1>24. Waits(G, threads, B1, P, blockedOn, abort)
  <2>1. \A u \in T \ {r} : B1[u] = B[u] /\ abort[u] = abort[u]
    BY <1>22, <1>23
  <2>2. B1[r] => abort[r] # "OK"
    BY <1>22, <1>23
  <2>3. threads \in SUBSET T
    BY <1>1
  <2> QED
    BY <1>13, <1>14, <1>20, <2>1, <2>2, <2>3, WakeWaits
<1>25. Scheduled(runqueue', threads, blocked', current')
  <2>1. Scheduled(runqueue, threads, [blocked EXCEPT ![t] = TRUE, ![r] = FALSE], r)
    BY <1>1, <1>8, HandOverScheduled
  <2> QED
    BY <1>11, <2>1
<1>26. After
  BY <1>1, <1>8, <1>11, <1>15, <1>18, <1>19, <1>22, <1>23, <1>24, <1>25 DEF After, Typed
<1>27. buf' = [u \in T |-> buf'[u]]
  BY <1>1, <1>11, SetBufs
<1> QED
  BY <1>11, <1>26, <1>27, AfterInv

LEMMA SysIpcSendInv ==
  ASSUME IpcAssumption, Inv, NEW t \in Users, SysIpcSend(t)
  PROVE  Inv'
<1>1. t \in threads /\ current = t /\ todo = <<>>
  BY DEF SysIpcSend, Running
<1>2. PICK c \in Table(ProcessOf[t]), recv \in BOOLEAN, noblock \in BOOLEAN, m \in Messages(t) :
        IF recv /\ FastpathOk(t, c, m)
        THEN Fastpath(t, c, m)
        ELSE SendPhase(t, c, recv, noblock, m)
  BY DEF SysIpcSend
<1>3. c \in Chans /\ Live(c)
  BY DEF Table
<1> QED
  BY <1>1, <1>2, <1>3, FastpathInv, SendPhaseInv

LEMMA ReceivePhaseInv ==
  ASSUME IpcAssumption, Inv, NEW t \in threads, current = t, todo = <<>>, NEW c \in Chans,
         Live(c), Live(chan[c].xfer), ReceivePhase(t, c, chan, blocked, runqueue),
         UNCHANGED <<threads, abort, buf, listeners, todo, links>>
  PROVE  Inv'
<1>1. /\ Typed /\ chan \in Heaps /\ blocked \in [T -> BOOLEAN] /\ t \in T /\ ~blocked[t]
      /\ Scheduled(runqueue, threads, blocked, current)
      /\ Waits(chan, threads, blocked, pc, blockedOn, abort)
      /\ ServerKept(chan)
  BY CurrentRuns
<1>2. Between(t, chan, blocked, runqueue)
  BY <1>1 DEF Between
<1>3. PICK H : H = chan
  OBVIOUS
<1>4. PICK B : B = blocked
  OBVIOUS
<1>5. PICK Q : Q = runqueue
  OBVIOUS
<1>6. Between(t, H, B, Q) /\ H[c] # Free /\ H[H[c].xfer] # Free
  BY <1>2, <1>3, <1>4, <1>5 DEF Live
<1>7. ReceivePhase(t, c, H, B, Q)
  BY <1>3, <1>4, <1>5 DEF ReceivePhase
<1>8. After
  BY <1>1, <1>6, <1>7, ReceiveAfter
<1>9. buf' = [u \in T |-> buf'[u]]
  BY <1>1 DEF Typed
<1> QED
  BY <1>8, <1>9, AfterInv

LEMMA SysIpcRecvInv ==
  ASSUME IpcAssumption, Inv, NEW t \in Users, SysIpcRecv(t)
  PROVE  Inv'
<1>1. t \in threads /\ current = t /\ todo = <<>>
  BY DEF SysIpcRecv, Running
<1>2. PICK c \in Table(ProcessOf[t]) :
        IF Live(chan[c].xfer)
        THEN /\ ReceivePhase(t, c, chan, blocked, runqueue)
             /\ UNCHANGED <<threads, abort, buf, listeners, todo, links, halted>>
        ELSE Halt("use after free")
  BY DEF SysIpcRecv
<1>3. c \in Chans /\ Live(c)
  BY DEF Table
<1>4. CASE Live(chan[c].xfer)
  <2>1. /\ ReceivePhase(t, c, chan, blocked, runqueue)
        /\ UNCHANGED <<threads, abort, buf, listeners, todo, links>>
    BY <1>2, <1>4
  <2> QED
    BY <1>1, <1>3, <1>4, <2>1, ReceivePhaseInv
<1>5. CASE ~Live(chan[c].xfer)
  BY <1>2, <1>5, HaltInv
<1> QED
  BY <1>4, <1>5

(* The current thread changes its own entries, and the heap in a way that  *)
(* nobody waits on.                                                        *)
LEMMA OwnInv ==
  ASSUME IpcAssumption, Inv, NEW t \in threads, current = t, todo = <<>>,
         chan' \in Heaps, Waits(chan', threads, blocked, pc, blockedOn, abort), ServerKept(chan'),
         pc' \in [T -> PcType], abort' \in [T -> Reasons], blockedOn' \in [T -> Chans \cup {None}],
         \A u \in T \ {t} : pc'[u] = pc[u] /\ abort'[u] = abort[u] /\ blockedOn'[u] = blockedOn[u],
         buf' = [u \in T |-> buf'[u]], links' \in 0..LinkMax, listeners' \subseteq Chans,
         KillsLast(chan', todo'), todo' \in Seq(Calls \cup Kills),
         UNCHANGED <<threads, blocked, runqueue, current>>
  PROVE  Inv'
<1>1. /\ Typed /\ threads \in SUBSET T /\ blocked \in [T -> BOOLEAN] /\ t \in T /\ ~blocked[t]
      /\ Scheduled(runqueue, threads, blocked, current)
  BY CurrentRuns
<1>2. Waits(chan', threads, blocked, pc', blockedOn', abort')
  <2>1. \A c \in Chans : chan'[c] # Free => chan'[c].queue \in Seq(T)
    BY QueueTypes
  <2> QED
    BY <1>1, <2>1, RunningWaits
<1>3. Typed'
  BY <1>1 DEF Typed
<1> QED
  BY <1>1, <1>2, <1>3 DEF Inv

LEMMA ResumeSendInv ==
  ASSUME IpcAssumption, Inv, NEW t \in T, ResumeSend(t)
  PROVE  Inv'
<1>1. t \in threads /\ current = t /\ todo = <<>> /\ pc[t].at = "sending"
  BY DEF ResumeSend, Running
<1>2. /\ Typed /\ chan \in Heaps /\ pc \in [T -> PcType] /\ abort \in [T -> Reasons]
      /\ blockedOn \in [T -> Chans \cup {None}]
      /\ Waits(chan, threads, blocked, pc, blockedOn, abort)
      /\ ServerKept(chan)
  BY <1>1, CurrentRuns
<1>3. CASE abort[t] # "OK"
  <2>1. /\ abort' = [abort EXCEPT ![t] = "OK"]
        /\ pc' = [pc EXCEPT ![t] = Returned(t)]
        /\ buf' = [buf EXCEPT ![t] = Empty]
        /\ blockedOn' = [blockedOn EXCEPT ![t] = None]
        /\ UNCHANGED <<chan, threads, blocked, runqueue, current, listeners, todo,
                       links, halted>>
    BY <1>3 DEF ResumeSend
  <2>2. pc' \in [T -> PcType] /\ abort' \in [T -> Reasons] /\ blockedOn' \in [T -> Chans \cup {None}]
          /\ \A u \in T \ {t} : pc'[u] = pc[u] /\ abort'[u] = abort[u] /\ blockedOn'[u] = blockedOn[u]
    <3>1. Returned(t) \in PcType /\ "OK" \in Reasons
      BY PcTypes DEF Reasons
    <3> QED
      BY <1>2, <2>1, <3>1
  <2>3. buf' = [u \in T |-> buf'[u]]
    BY <1>2, <2>1, SetBuf
  <2>4. KillsLast(chan', todo') /\ todo' \in Seq(Calls \cup Kills)
    BY <1>1, <2>1, NoCalls
  <2>5. links' \in 0..LinkMax /\ listeners' \subseteq Chans
    BY <1>2, <2>1 DEF Typed
  <2>6. chan' \in Heaps /\ Waits(chan', threads, blocked, pc, blockedOn, abort) /\ ServerKept(chan')
    BY <1>2, <2>1
  <2> QED
    BY <1>1, <2>1, <2>2, <2>3, <2>4, <2>5, <2>6, OwnInv
<1>4. CASE abort[t] = "OK"
  <2>1. SendPhase(t, pc[t].ch, pc[t].recv, FALSE, buf[t])
    BY <1>4 DEF ResumeSend
  <2>2. pc[t].ch \in Chans /\ pc[t].recv \in BOOLEAN
    BY <1>1, <1>2 DEF PcType, InCall
  <2>3. PICK c \in Chans : c = pc[t].ch
    BY <2>2
  <2>4. PICK recv \in BOOLEAN : recv = pc[t].recv
    BY <2>2
  <2>5. PICK m : m = buf[t]
    OBVIOUS
  <2>6. SendPhase(t, c, recv, FALSE, m)
    BY <2>1, <2>3, <2>4, <2>5
  <2> QED
    BY <1>1, <2>6, SendPhaseInv
<1> QED
  BY <1>3, <1>4

LEMMA ResumeReceiveInv ==
  ASSUME IpcAssumption, Inv, NEW t \in T, ResumeReceive(t)
  PROVE  Inv'
<1>1. t \in threads /\ current = t /\ todo = <<>> /\ pc[t].at \in Receives
  BY DEF ResumeReceive, Running, Receives
<1>2. /\ Typed /\ chan \in Heaps /\ pc \in [T -> PcType] /\ abort \in [T -> Reasons]
      /\ threads \in SUBSET T
      /\ blockedOn \in [T -> Chans \cup {None}]
      /\ Waits(chan, threads, blocked, pc, blockedOn, abort)
      /\ ServerKept(chan)
  BY <1>1, CurrentRuns
<1>3. pc[t].ch \in Chans
  BY <1>1, <1>2 DEF PcType, InCall
<1>4. PICK rc \in Chans : rc = pc[t].ch
  BY <1>3
<1>5. CASE Halt("use after free")
  BY <1>5, HaltInv
<1>6. ASSUME NEW takes \in BOOLEAN, NEW m, takes => Live(rc),
             abort' = [abort EXCEPT ![t] = "OK"],
             chan' = IF takes THEN WithNotif(chan, rc, FALSE) ELSE chan,
             pc' = [pc EXCEPT ![t] = Received(t)],
             buf' = [buf EXCEPT ![t] = m],
             UNCHANGED <<threads, blocked, blockedOn, runqueue, current, listeners, todo, links>>
      PROVE  Inv'
  <2>1. pc' \in [T -> PcType] /\ abort' \in [T -> Reasons] /\ blockedOn' \in [T -> Chans \cup {None}]
          /\ \A u \in T \ {t} : pc'[u] = pc[u] /\ abort'[u] = abort[u] /\ blockedOn'[u] = blockedOn[u]
    <3>1. Received(t) \in PcType /\ "OK" \in Reasons
      BY PcTypes DEF Reasons
    <3> QED
      BY <1>2, <1>6, <3>1
  <2>2. buf' = [u \in T |-> buf'[u]]
    BY <1>2, <1>6, SetBuf
  <2>6. todo' = <<>>
    BY <1>1, <1>6
  <2>3. KillsLast(chan', todo') /\ todo' \in Seq(Calls \cup Kills)
    BY <2>6, NoCalls
  <2>4. links' \in 0..LinkMax /\ listeners' \subseteq Chans
    BY <1>2, <1>6 DEF Typed
  <2>5. chan' \in Heaps /\ Waits(chan', threads, blocked, pc, blockedOn, abort) /\ ServerKept(chan')
    <3>1. CASE takes
      <4>1. chan' = WithNotif(chan, rc, FALSE) /\ chan[rc] # Free
        BY <1>6, <3>1 DEF Live
      <4>2. /\ SameBut(chan', chan, rc)
            /\ chan'[rc].receiver = chan[rc].receiver /\ chan'[rc].queue = chan[rc].queue
            /\ chan'[rc].destructed = chan[rc].destructed
        BY <1>2, <4>1, SetNotif
      <4>3. Alike(chan', chan)
        BY <4>2 DEF Alike, SameBut, SameFields
      <4>4. Waits(chan', threads, blocked, pc, blockedOn, abort)
        BY <1>2, <4>3, AlikeWaits
      <4> QED
        BY <1>2, <4>2, <4>4 DEF ServerKept, SameBut, IpcAssumption
    <3>2. CASE ~takes
      BY <1>2, <1>6, <3>2
    <3> QED
      BY <3>1, <3>2
  <2> QED
    BY <1>1, <1>6, <2>1, <2>2, <2>3, <2>4, <2>5, OwnInv
<1>7. CASE ~Halt("use after free")
  <2>1. PICK takes \in BOOLEAN : takes = (abort[t] = "OK" \/ pc[t].at = "fastpath")
    OBVIOUS
  <2>2. PICK m : m = IF t = Ks THEN (IF takes THEN [buf[t] EXCEPT !.notif = chan[rc].notif] ELSE buf[t])
                     ELSE Empty
    OBVIOUS
  <2>3. /\ takes => Live(rc)
        /\ abort' = [abort EXCEPT ![t] = "OK"]
        /\ chan' = IF takes THEN WithNotif(chan, rc, FALSE) ELSE chan
        /\ pc' = [pc EXCEPT ![t] = Received(t)]
        /\ UNCHANGED <<threads, blocked, blockedOn, runqueue, current, listeners, todo, links>>
    BY <1>4, <1>7, <2>1 DEF ResumeReceive, WithNotif
  <2>4. buf' = [buf EXCEPT ![t] = m]
    BY <1>4, <1>7, <2>1, <2>2 DEF ResumeReceive
  <2> QED
    BY <1>6, <2>3, <2>4
<1> QED
  BY <1>5, <1>7

(* System calls that only change channels or make nested calls. *)
LEMMA HeapInv ==
  ASSUME IpcAssumption, Inv, NEW t \in threads, current = t, todo = <<>>,
         chan' \in Heaps, Waits(chan', threads, blocked, pc, blockedOn, abort), ServerKept(chan'),
         todo' \in Seq(Calls), links' \in 0..LinkMax,
         UNCHANGED <<threads, blocked, abort, blockedOn, pc, buf, runqueue, current, listeners>>
  PROVE  Inv'
<1>1. /\ Typed /\ pc \in [T -> PcType] /\ abort \in [T -> Reasons]
      /\ blockedOn \in [T -> Chans \cup {None}] /\ listeners \subseteq Chans
      /\ buf = [u \in T |-> buf[u]]
  BY CurrentRuns DEF Typed
<1>2. KillsLast(chan', todo') /\ todo' \in Seq(Calls \cup Kills)
  BY CallsOnly
<1> QED
  BY <1>1, <1>2, OwnInv

LEMMA PagerRepliesInv ==
  ASSUME IpcAssumption, Inv, NEW t \in T, PagerReplies(t)
  PROVE  Inv'
<1>1. /\ Typed /\ chan \in Heaps /\ threads \in SUBSET T /\ blocked \in [T -> BOOLEAN]
      /\ Scheduled(runqueue, threads, blocked, current)
      /\ Waits(chan, threads, blocked, pc, blockedOn, abort)
      /\ KillsLast(chan, todo) /\ ServerKept(chan)
  BY DEF Inv, Typed
<1>2. /\ t \in threads /\ pc[t].at = "filling" /\ blocked[t]
      /\ blocked' = [blocked EXCEPT ![t] = FALSE]
      /\ runqueue' = Resume(runqueue, blocked, t)
      /\ UNCHANGED <<chan, threads, abort, blockedOn, pc, buf, current, listeners, todo, links>>
  BY DEF PagerReplies, Resume
<1>3. PICK B : B = [blocked EXCEPT ![t] = FALSE]
  OBVIOUS
<1>4. B \in [T -> BOOLEAN] /\ ~B[t] /\ \A u \in T \ {t} : B[u] = blocked[u]
  BY <1>1, <1>3
<1>5. Scheduled(runqueue', threads, B, current)
  BY <1>1, <1>2, <1>3, ResumeScheduled
<1>6. Waits(chan, threads, B, pc, blockedOn, abort)
  BY <1>1, <1>2, <1>4, WokenWaits, QueueTypes
<1>7. Typed'
  BY <1>1, <1>2, <1>3, <1>4 DEF Typed
<1> QED
  BY <1>1, <1>2, <1>3, <1>5, <1>6, <1>7 DEF Inv

(* The places after the page of t is there: t goes on at x, and r is let go. *)
LEMMA FillPlaces ==
  ASSUME Typed, NEW t \in T, NEW r \in threads, pc[r].at \in Takens, pc[t].at = "filling",
         NEW x \in PcType, NEW v, v = [pc[r] EXCEPT !.at = Untaken(@)],
         NEW P, P = [pc EXCEPT ![r] = v], pc' = [P EXCEPT ![t] = x]
  PROVE  /\ pc' \in [T -> PcType] /\ P[r].at \in Receives
         /\ \A u \in T \ {r} : P[u] = pc[u]
         /\ \A u \in T \ {t} : pc'[u] = P[u]
<1>1. pc \in [T -> PcType] /\ r \in T /\ r # t
  BY DEF Typed, Takens
<1>3. v \in PcType /\ v.at \in Receives
  BY <1>1 DEF PcType, Places, InCall, Receives, Takens, Untaken
<1>6. P \in [T -> PcType] /\ P[r] = v /\ \A u \in T \ {r} : P[u] = pc[u]
  BY <1>1, <1>3
<1>7. pc' \in [T -> PcType] /\ \A u \in T \ {t} : pc'[u] = P[u]
  BY <1>6
<1> QED
  BY <1>3, <1>6, <1>7

LEMMA ResumeFillInv ==
  ASSUME IpcAssumption, Inv, NEW t \in T, ResumeFill(t)
  PROVE  Inv'
<1>1. t \in threads /\ current = t /\ todo = <<>> /\ pc[t].at = "filling"
  BY DEF ResumeFill, Running
<1>2. /\ Typed /\ chan \in Heaps /\ threads \in SUBSET T /\ blocked \in [T -> BOOLEAN]
      /\ pc \in [T -> PcType] /\ abort \in [T -> Reasons]
      /\ blockedOn \in [T -> Chans \cup {None}]
      /\ Scheduled(runqueue, threads, blocked, current)
      /\ Waits(chan, threads, blocked, pc, blockedOn, abort)
      /\ ServerKept(chan) /\ ~blocked[t]
  BY <1>1, CurrentRuns
<1>3. PICK r : r = buf[t].to
  OBVIOUS
<1>4. PICK P : P = [pc EXCEPT ![r].at = Untaken(@)]
  OBVIOUS
<1>9. PICK v : v = [pc[r] EXCEPT !.at = Untaken(@)]
  OBVIOUS
<1>10. r \in threads => P = [pc EXCEPT ![r] = v]
  BY <1>2, <1>4, <1>9
<1>5. \/ \E reason : Halt(reason)
      \/ /\ r \in threads /\ pc[r].at \in Takens
         /\ blocked' = [blocked EXCEPT ![r] = FALSE]
         /\ runqueue' = Resume(runqueue, blocked, r)
         /\ pc' = [P EXCEPT ![t].at = "filled"]
         /\ UNCHANGED <<chan, threads, abort, blockedOn, buf, current, listeners, todo, links>>
      \/ /\ r \in threads /\ pc[r].at \in Takens
         /\ abort' = [abort EXCEPT ![r] = "NEEDS_RETRY"]
         /\ pc' = [P EXCEPT ![t] = Returned(t)]
         /\ buf' = [buf EXCEPT ![t] = Empty]
         /\ UNCHANGED <<chan, threads, blocked, blockedOn, runqueue, current, listeners,
                        todo, links>>
  BY <1>3, <1>4 DEF ResumeFill, Takens
<1>6. CASE \E reason : Halt(reason)
  BY <1>6, HaltInv
<1>7. ASSUME r \in threads, pc[r].at \in Takens,
             blocked' = [blocked EXCEPT ![r] = FALSE],
             runqueue' = Resume(runqueue, blocked, r),
             pc' = [P EXCEPT ![t].at = "filled"],
             UNCHANGED <<chan, threads, abort, blockedOn, buf, current, listeners, todo, links>>
      PROVE  Inv'
  <2>1. PICK x : x = [pc[t] EXCEPT !.at = "filled"]
    OBVIOUS
  <2>2. x \in PcType
    BY <1>1, <1>2, <2>1 DEF PcType, Places, InCall
  <2>3. r \in T /\ r # t
    BY <1>1, <1>2, <1>7 DEF Takens
  <2>4. pc' = [P EXCEPT ![t] = x]
    BY <1>2, <1>4, <1>7, <2>1, <2>3
  <2>5. /\ pc' \in [T -> PcType] /\ P[r].at \in Receives
        /\ \A u \in T \ {r} : P[u] = pc[u]
        /\ \A u \in T \ {t} : pc'[u] = P[u]
    <3>1. /\ Typed /\ r \in threads /\ pc[r].at \in Takens /\ pc[t].at = "filling"
          /\ P = [pc EXCEPT ![r] = v]
      BY <1>1, <1>2, <1>7, <1>10
    <3> QED
      BY <1>9, <2>2, <2>4, <3>1, FillPlaces
  <2>6. PICK B : B = blocked'
    OBVIOUS
  <2>7. B \in [T -> BOOLEAN] /\ ~B[r] /\ ~B[t] /\ \A u \in T \ {r} : B[u] = blocked[u]
    BY <1>2, <1>7, <2>3, <2>6
  <2>8. Waits(chan, threads, B, P, blockedOn, abort)
    BY <1>2, <1>7, <2>5, <2>7, UntakeWaits, QueueTypes
  <2>9. Waits(chan, threads, B, pc', blockedOn, abort)
    BY <1>2, <2>5, <2>7, <2>8, RunningWaits, QueueTypes
  <2>10. Scheduled(runqueue', threads, B, current)
    <3>1. CASE blocked[r]
      BY <1>2, <1>7, <2>6, <3>1, ResumeScheduled
    <3>2. CASE ~blocked[r]
      <4>1. runqueue' = runqueue /\ B = blocked
        BY <1>2, <1>7, <2>3, <2>6, <3>2 DEF Resume
      <4> QED
        BY <1>2, <4>1
    <3> QED
      BY <3>1, <3>2
  <2>11. After
    BY <1>2, <1>7, <2>5, <2>6, <2>7, <2>9, <2>10 DEF After, Typed
  <2>12. buf' = [u \in T |-> buf'[u]]
    BY <1>2, <1>7 DEF Typed
  <2> QED
    BY <1>1, <1>7, <2>11, <2>12, AfterInv
<1>8. ASSUME r \in threads, pc[r].at \in Takens,
             abort' = [abort EXCEPT ![r] = "NEEDS_RETRY"],
             pc' = [P EXCEPT ![t] = Returned(t)],
             buf' = [buf EXCEPT ![t] = Empty],
             UNCHANGED <<chan, threads, blocked, blockedOn, runqueue, current, listeners,
                         todo, links>>
      PROVE  Inv'
  <2>1. PICK x \in PcType : x = Returned(t)
    BY PcTypes
  <2>2. pc' = [P EXCEPT ![t] = x]
    BY <1>8, <2>1
  <2>3. /\ pc' \in [T -> PcType] /\ P[r].at \in Receives
        /\ \A u \in T \ {r} : P[u] = pc[u]
        /\ \A u \in T \ {t} : pc'[u] = P[u]
    <3>1. /\ Typed /\ r \in threads /\ pc[r].at \in Takens /\ pc[t].at = "filling"
          /\ P = [pc EXCEPT ![r] = v]
      BY <1>1, <1>2, <1>8, <1>10
    <3> QED
      BY <1>9, <2>2, <3>1, FillPlaces
  <2>4. PICK A : A = abort'
    OBVIOUS
  <2>5. A \in [T -> Reasons] /\ A[r] # "OK" /\ \A u \in T \ {r} : A[u] = abort[u]
    BY <1>2, <1>8, <2>4 DEF Reasons
  <2>6. Waits(chan, threads, blocked, P, blockedOn, A)
    BY <1>2, <1>8, <2>3, <2>5, UntakeWaits, QueueTypes
  <2>7. Waits(chan, threads, blocked, pc', blockedOn, A)
    BY <1>2, <2>3, <2>6, RunningWaits, QueueTypes
  <2>8. buf' = [u \in T |-> buf'[u]]
    BY <1>2, <1>8, SetBuf
  <2>9. Typed'
    BY <1>2, <1>8, <2>3, <2>4, <2>5, <2>8 DEF Typed
  <2>10. KillsLast(chan', todo')
    BY <1>1, <1>8, NoCalls
  <2> QED
    BY <1>2, <1>8, <2>4, <2>7, <2>9, <2>10 DEF Inv
<1> QED
  BY <1>5, <1>6, <1>7, <1>8

LEMMA AfterFillInv ==
  ASSUME IpcAssumption, Inv, NEW t \in T, AfterFill(t)
  PROVE  Inv'
<1>1. t \in threads /\ current = t /\ todo = <<>> /\ pc[t].at = "filled"
  BY DEF AfterFill, Running
<1>2. /\ Typed /\ chan \in Heaps /\ blocked \in [T -> BOOLEAN] /\ pc \in [T -> PcType]
      /\ Scheduled(runqueue, threads, blocked, current)
      /\ Waits(chan, threads, blocked, pc, blockedOn, abort)
      /\ ServerKept(chan) /\ ~blocked[t]
  BY <1>1, CurrentRuns
<1>3. pc[t].ch \in Chans /\ pc[t].recv \in BOOLEAN
  BY <1>1, <1>2 DEF PcType, InCall
<1>4. PICK c \in Chans : c = pc[t].ch
  BY <1>3
<1>5. PICK recv \in BOOLEAN : recv = pc[t].recv
  BY <1>3
<1>6. \/ Halt("use after free")
      \/ /\ recv => Live(c) /\ Live(chan[c].xfer)
         /\ AfterSend(t, c, recv, chan, blocked, runqueue)
         /\ buf' = [buf EXCEPT ![t] = Empty]
         /\ UNCHANGED <<threads, abort, listeners, todo, links>>
  BY <1>4, <1>5 DEF AfterFill
<1>7. CASE Halt("use after free")
  BY <1>7, HaltInv
<1>8. ASSUME recv => Live(c) /\ Live(chan[c].xfer),
             AfterSend(t, c, recv, chan, blocked, runqueue),
             buf' = [buf EXCEPT ![t] = Empty],
             UNCHANGED <<threads, abort, listeners, todo, links>>
      PROVE  Inv'
  <2>1. PICK H : H = chan
    OBVIOUS
  <2>2. PICK B : B = blocked
    OBVIOUS
  <2>3. PICK Q : Q = runqueue
    OBVIOUS
  <2>4. Between(t, H, B, Q)
    BY <1>1, <1>2, <2>1, <2>2, <2>3 DEF Between
  <2>5. AfterSend(t, c, recv, H, B, Q)
    BY <1>8, <2>1, <2>2, <2>3
  <2>6. After
    <3>1. CASE recv
      BY <1>2, <1>8, <2>1, <2>4, <2>5, <3>1, AfterSendAfter DEF Live
    <3>2. CASE ~recv
      BY <1>2, <2>4, <2>5, <3>2, ReturnAfter, PcTypes DEF AfterSend
    <3> QED
      BY <3>1, <3>2
  <2>7. buf' = [u \in T |-> buf'[u]]
    BY <1>2, <1>8, SetBuf
  <2> QED
    BY <1>1, <1>8, <2>6, <2>7, AfterInv
<1> QED
  BY <1>6, <1>7, <1>8

LEMMA SysOpenInv ==
  ASSUME IpcAssumption, Inv, NEW t \in Users, SysOpen(t)
  PROVE  Inv'
<1>1. t \in threads /\ current = t /\ todo = <<>> /\ FreeSlots(chan) # {}
  BY DEF SysOpen, Running
<1>2. /\ Typed /\ chan \in Heaps /\ pc \in [T -> PcType] /\ threads \in SUBSET T
      /\ Waits(chan, threads, blocked, pc, blockedOn, abort)
      /\ ServerKept(chan)
  BY <1>1, CurrentRuns
<1>3. PICK n : n = Fresh(chan)
  OBVIOUS
<1>4. n \in Chans /\ chan[n] = Free
  BY <1>1, <1>3, FreshSlot
<1>5. PICK p \in Procs \cup {Kernel} : p = ProcessOf[t]
  BY DEF IpcAssumption
<1>6. chan' = WithChannel(chan, n, p)
  BY <1>3, <1>5 DEF SysOpen, WithChannel
<1>7. chan' \in Heaps /\ ServerKept(chan') /\ Waits(chan', threads, blocked, pc, blockedOn, abort)
  BY <1>2, <1>4, <1>6, CreateHeap
<1>8. todo' \in Seq(Calls) /\ links' \in 0..LinkMax
        /\ UNCHANGED <<threads, blocked, abort, blockedOn, pc, buf, runqueue, current, listeners>>
  BY <1>1, <1>2 DEF SysOpen, Typed
<1> QED
  BY <1>1, <1>7, <1>8, HeapInv

LEMMA SysCloseInv ==
  ASSUME IpcAssumption, Inv, NEW t \in Users, SysClose(t)
  PROVE  Inv'
<1>1. t \in threads /\ current = t /\ todo = <<>>
  BY DEF SysClose, Running
<1>2. /\ Typed /\ chan \in Heaps
      /\ Waits(chan, threads, blocked, pc, blockedOn, abort)
      /\ ServerKept(chan)
  BY <1>1, CurrentRuns
<1>3. PICK c \in Table(ProcessOf[t]) : todo' = <<[op |-> "destroy", ch |-> c]>>
  BY DEF SysClose
<1>4. c \in Chans
  BY DEF Table
<1>5. todo' \in Seq(Calls)
  BY <1>3, <1>4 DEF Calls, ChanCalls
<1>6. links' \in 0..LinkMax /\ chan' = chan
        /\ UNCHANGED <<threads, blocked, abort, blockedOn, pc, buf, runqueue, current, listeners>>
  BY <1>2 DEF SysClose, Typed
<1>7. chan' \in Heaps /\ ServerKept(chan') /\ Waits(chan', threads, blocked, pc, blockedOn, abort)
  BY <1>2, <1>6
<1> QED
  BY <1>1, <1>5, <1>6, <1>7, HeapInv

LEMMA CallTypes ==
  ASSUME NEW c \in Chans
  PROVE  /\ Unlink(c) \in Seq(Calls) /\ Untransfer(c) \in Seq(Calls)
         /\ \A op \in {"destroy", "decref", "free"} : <<[op |-> op, ch |-> c]>> \in Seq(Calls)
<1>1. \A op \in {"destroy", "decref", "free", "unlink", "selflink", "untransfer"} :
        [op |-> op, ch |-> c] \in Calls
  BY DEF Calls, ChanCalls
<1>2. \A x, y, z \in Calls : <<x>> \in Seq(Calls) /\ <<x, y, z>> \in Seq(Calls)
  OBVIOUS
<1> QED
  BY <1>1, <1>2 DEF Unlink, Untransfer

LEMMA SysLinkInv ==
  ASSUME IpcAssumption, Inv, NEW t \in Users, SysLink(t)
  PROVE  Inv'
<1>1. t \in threads /\ current = t /\ todo = <<>> /\ links < LinkMax /\ links' = links + 1
        /\ UNCHANGED <<threads, blocked, abort, blockedOn, pc, buf, runqueue, current, listeners>>
  BY DEF SysLink, Running
<1>2. /\ Typed /\ chan \in Heaps /\ pc \in [T -> PcType] /\ threads \in SUBSET T
      /\ Waits(chan, threads, blocked, pc, blockedOn, abort)
      /\ ServerKept(chan)
  BY <1>1, CurrentRuns
<1>3. PICK x \in Table(ProcessOf[t]), y \in Table(ProcessOf[t]) :
        IF x = y
        THEN todo' = Unlink(x) /\ UNCHANGED chan
        ELSE chan' = Link(chan, x, y) /\ UNCHANGED todo
  BY DEF SysLink
<1>4. x \in Chans /\ y \in Chans /\ chan[x] # Free /\ chan[y] # Free
  BY DEF Table, Live
<1>5. links' \in 0..LinkMax
  BY <1>1, <1>2 DEF Typed, IpcAssumption
<1>6. CASE x = y
  <2>1. todo' \in Seq(Calls) /\ chan' = chan
    BY <1>3, <1>4, <1>6, CallTypes
  <2>2. chan' \in Heaps /\ ServerKept(chan') /\ Waits(chan', threads, blocked, pc, blockedOn, abort)
    BY <1>2, <2>1
  <2> QED
    BY <1>1, <1>5, <2>1, <2>2, HeapInv
<1>7. CASE x # y
  <2>1. todo' \in Seq(Calls) /\ chan' = Link(chan, x, y)
    BY <1>1, <1>3, <1>7
  <2>2. chan' \in Heaps /\ ServerKept(chan') /\ Waits(chan', threads, blocked, pc, blockedOn, abort)
    BY <1>2, <1>4, <1>7, <2>1, LinkHeap
  <2> QED
    BY <1>1, <1>5, <2>1, <2>2, HeapInv
<1> QED
  BY <1>6, <1>7

LEMMA SysTransferInv ==
  ASSUME IpcAssumption, Inv, NEW t \in Users, SysTransfer(t)
  PROVE  Inv'
<1>1. t \in threads /\ current = t /\ todo = <<>> /\ links < LinkMax /\ links' = links + 1
        /\ UNCHANGED <<threads, blocked, abort, blockedOn, pc, buf, runqueue, current, listeners>>
  BY DEF SysTransfer, Running
<1>2. /\ Typed /\ chan \in Heaps /\ pc \in [T -> PcType] /\ threads \in SUBSET T
      /\ Waits(chan, threads, blocked, pc, blockedOn, abort)
      /\ ServerKept(chan)
  BY <1>1, CurrentRuns
<1>3. PICK x \in Table(ProcessOf[t]), y \in Table(ProcessOf[t]) :
        IF x = y
        THEN todo' = Untransfer(x) /\ UNCHANGED chan
        ELSE chan' = Transfer(chan, x, y) /\ UNCHANGED todo
  BY DEF SysTransfer
<1>4. x \in Chans /\ y \in Chans /\ chan[x] # Free /\ chan[y] # Free /\ chan[x].owner # Kernel
  BY DEF Table, Live, IpcAssumption
<1>5. links' \in 0..LinkMax
  BY <1>1, <1>2 DEF Typed, IpcAssumption
<1>6. CASE x = y
  <2>1. todo' \in Seq(Calls) /\ chan' = chan
    BY <1>3, <1>4, <1>6, CallTypes
  <2>2. chan' \in Heaps /\ ServerKept(chan') /\ Waits(chan', threads, blocked, pc, blockedOn, abort)
    BY <1>2, <2>1
  <2> QED
    BY <1>1, <1>5, <2>1, <2>2, HeapInv
<1>7. CASE x # y
  <2>1. todo' \in Seq(Calls) /\ chan' = Transfer(chan, x, y)
    BY <1>1, <1>3, <1>7
  <2>2. Alike(chan', chan) /\ \A c \in Chans \ {x} : chan[c] # Free => chan'[c].xfer = chan[c].xfer
    BY <1>2, <1>4, <1>7, <2>1, TransferAlike
  <2>3. ServerKept(chan')
    BY <1>2, <1>4, <2>2 DEF ServerKept, Alike, SameFields, IpcAssumption
  <2>4. Waits(chan', threads, blocked, pc, blockedOn, abort)
    BY <1>2, <2>2, AlikeWaits
  <2>5. chan' \in Heaps
    BY <2>2 DEF Alike
  <2> QED
    BY <1>1, <1>5, <2>1, <2>3, <2>4, <2>5, HeapInv
<1> QED
  BY <1>6, <1>7

LEMMA NotifyInv ==
  ASSUME IpcAssumption, Inv, NEW c \in Chans, NEW rest, Notify(c, rest),
         rest \in Seq(Calls \cup Kills),
         \A H : Closes(H, chan, [op |-> "irq"]) => KillsLast(H, rest)
  PROVE  Inv'
<1>1. /\ Typed /\ chan \in Heaps /\ threads \in SUBSET T /\ blocked \in [T -> BOOLEAN]
      /\ pc \in [T -> PcType] /\ abort \in [T -> Reasons]
      /\ Scheduled(runqueue, threads, blocked, current)
      /\ Waits(chan, threads, blocked, pc, blockedOn, abort)
      /\ ServerKept(chan)
  BY DEF Inv, Typed
<1>2. PICK lw : lw = chan[c].link
  OBVIOUS
<1>3. PICK dst : dst = chan[lw].xfer
  OBVIOUS
<1>4. PICK r : r = chan[dst].receiver
  OBVIOUS
<1>5. CASE ~(Live(c) /\ Live(lw) /\ Live(dst) /\ r \in threads \cup {None})
  <2>1. Halt("use after free")
    BY <1>1, <1>2, <1>3, <1>4, <1>5 DEF Notify, IpcAssumption
  <2> QED
    BY <2>1, HaltInv
<1>6. ASSUME Live(c), Live(lw), Live(dst), r \in threads \cup {None}
      PROVE  Inv'
  <2>1. lw \in Chans /\ chan[lw] # Free
    BY <1>1, <1>2, <1>6, LiveType DEF Live, ChannelType
  <2>2. dst \in Chans /\ chan[dst] # Free
    BY <1>1, <1>3, <1>6, <2>1, LiveType DEF Live, ChannelType
  <2>3. PICK H : H = WithNotif(chan, dst, TRUE)
    OBVIOUS
  <2>4. /\ SameBut(H, chan, dst)
        /\ H[dst].receiver = chan[dst].receiver /\ H[dst].queue = chan[dst].queue
        /\ H[dst].destructed = chan[dst].destructed
    BY <1>1, <2>2, <2>3, SetNotif
  <2>5. Alike(H, chan) /\ H \in Heaps /\ H[dst] # Free /\ H[dst].receiver = r
    BY <1>4, <2>4 DEF Alike, SameBut, SameFields
  <2>6. Waits(H, threads, blocked, pc, blockedOn, abort)
    BY <1>1, <2>5, AlikeWaits
  <2>7. ServerKept(H)
    BY <1>1, <2>4 DEF ServerKept, SameBut, IpcAssumption
  <2>8. CASE r = None
    <3>1. /\ chan' = H
          /\ todo' = rest
          /\ UNCHANGED <<threads, blocked, abort, blockedOn, pc, buf, runqueue, current,
                         listeners, links, halted>>
      <4>1. None \notin threads
        BY <1>1 DEF IpcAssumption
      <4> QED
        BY <1>2, <1>3, <1>4, <1>6, <2>3, <2>8, <4>1 DEF Notify, WithNotif
    <3>2. Typed'
      BY <1>1, <2>5, <3>1 DEF Typed
    <3>4. Closes(H, chan, [op |-> "irq"])
      BY <2>4 DEF Closes, SameBut
    <3>3. KillsLast(chan', todo')
      BY <3>1, <3>4
    <3> QED
      BY <1>1, <2>6, <2>7, <3>1, <3>2, <3>3 DEF Inv
  <2>9. CASE r \in threads
    <3>1. PICK G : G = WithReceiver(H, dst, None)
      OBVIOUS
    <3>2. r # None
      BY <1>1, <2>9 DEF IpcAssumption
    <3>3. /\ chan' = [chan EXCEPT ![dst].notif = TRUE, ![dst].receiver = None]
          /\ buf' = [buf EXCEPT ![r].hdr = "NOTIFICATION", ![r].from = None]
          /\ blocked' = [blocked EXCEPT ![r] = FALSE]
          /\ runqueue' = Resume(runqueue, blocked, r)
          /\ todo' = rest
          /\ UNCHANGED <<threads, abort, blockedOn, pc, current, listeners, links, halted>>
      BY <1>2, <1>3, <1>4, <1>6, <2>9, <3>2 DEF Notify
    <3>4. chan' = G
      BY <2>3, <3>1, <3>3 DEF WithNotif, WithReceiver
    <3>5. /\ SameBut(G, H, dst) /\ G[dst].receiver = None /\ G[dst].queue = H[dst].queue
          /\ G[dst].destructed = H[dst].destructed
      BY <2>2, <2>5, <3>1, SetReceiver
    <3>6. G \in Heaps /\ ServerKept(G)
      BY <2>7, <3>5 DEF ServerKept, SameBut, IpcAssumption
    <3>7. r \in T /\ blocked[r]
      BY <1>1, <1>4, <2>2, <2>9 DEF Waits, Receivers
    <3>8. PICK B : B = [blocked EXCEPT ![r] = FALSE]
      OBVIOUS
    <3>9. B \in [T -> BOOLEAN] /\ (B[r] => abort[r] # "OK")
            /\ \A u \in T \ {r} : B[u] = blocked[u] /\ abort[u] = abort[u]
      BY <1>1, <3>7, <3>8
    <3>10. Waits(G, threads, B, pc, blockedOn, abort)
      BY <1>1, <2>2, <2>5, <2>6, <2>9, <3>5, <3>9, WakeWaits
    <3>11. Scheduled(runqueue', threads, B, current)
      BY <1>1, <2>9, <3>3, <3>7, <3>8, ResumeScheduled
    <3>12. buf' = [u \in T |-> buf'[u]]
      BY <1>1, <3>3 DEF Typed
    <3>13. blocked' = B
      BY <3>3, <3>8
    <3>14. Typed'
      BY <1>1, <3>3, <3>4, <3>6, <3>9, <3>12, <3>13 DEF Typed
    <3>16. Closes(G, chan, [op |-> "irq"])
      BY <2>4, <3>5 DEF Closes, SameBut
    <3>15. KillsLast(chan', todo')
      BY <3>3, <3>4, <3>16
    <3> QED
      BY <3>3, <3>4, <3>6, <3>10, <3>11, <3>13, <3>14, <3>15 DEF Inv
  <2> QED
    BY <1>6, <2>8, <2>9
<1> QED
  BY <1>5, <1>6

LEMMA SysNotifyInv ==
  ASSUME IpcAssumption, Inv, NEW t \in Users, SysNotify(t)
  PROVE  Inv'
<1>1. PICK c \in Chans : Notify(c, <<>>)
  BY DEF SysNotify, Table
<1>4. <<>> \in Seq(Calls \cup Kills)
  OBVIOUS
<1>2. PICK rest : rest = <<>>
  OBVIOUS
<1>3. Notify(c, rest) /\ \A H : KillsLast(H, rest)
  BY <1>1, <1>2, NoCalls
<1> QED
  BY <1>2, <1>3, <1>4, NotifyInv

LEMMA InterruptInv ==
  ASSUME IpcAssumption, Inv, Interrupt
  PROVE  Inv'
<1>1. PICK S \in SUBSET listeners : todo' = <<[op |-> "irq", ch |-> S]>>
  BY DEF Interrupt
<1>2. listeners \subseteq Chans
  BY DEF Inv, Typed
<1>3. [op |-> "irq", ch |-> S] \in Calls
  BY <1>2 DEF Calls, Irqs
<1>4. todo' \in Seq(Calls)
  BY <1>1, <1>3
<1>5. KillsLast(chan, todo') /\ todo' \in Seq(Calls \cup Kills)
  BY <1>4, CallsOnly
<1>6. UNCHANGED <<chan, threads, blocked, abort, blockedOn, pc, buf, runqueue, current,
                  listeners, links>>
  BY DEF Interrupt
<1>7. Typed'
  BY <1>5, <1>6 DEF Inv, Typed
<1> QED
  BY <1>5, <1>6, <1>7 DEF Inv

LEMMA TimerSwitchInv ==
  ASSUME IpcAssumption, Inv, TimerSwitch
  PROVE  Inv'
<1>1. /\ Typed /\ threads \in SUBSET T /\ blocked \in [T -> BOOLEAN]
      /\ Scheduled(runqueue, threads, blocked, current)
      /\ Waits(chan, threads, blocked, pc, blockedOn, abort)
      /\ ServerKept(chan) /\ KillsLast(chan, todo)
  BY DEF Inv, Typed
<1>2. current \in threads \cup {Idle}
  BY DEF TimerSwitch, Interruptible
<1>3. PICK Q : Q = IF current = Idle THEN runqueue ELSE Append(runqueue, current)
  OBVIOUS
<1>4. Ready(Q, threads, blocked)
  BY <1>1, <1>2, <1>3, TimeoutReady
<1>5. SwitchFrom(Q) /\ UNCHANGED <<chan, threads, blocked, abort, blockedOn, pc, buf, listeners,
                                    todo, links, halted>>
  BY <1>3 DEF TimerSwitch, SwitchFrom
<1>6. PICK Th \in SUBSET T : Th = threads
  BY <1>1
<1>7. PICK B \in [T -> BOOLEAN] : B = blocked
  BY <1>1
<1>8. Scheduled(runqueue', Th, B, current') /\ current' \in T \cup {Idle}
  BY <1>4, <1>5, <1>6, <1>7, SwitchStep
<1>9. Typed'
  BY <1>1, <1>5, <1>8 DEF Typed
<1> QED
  BY <1>1, <1>5, <1>6, <1>7, <1>8, <1>9 DEF Inv

(* A nested call that leaves the threads alone. *)
LEMMA NestedHeapInv ==
  ASSUME IpcAssumption, Inv, todo # <<>>, Head(todo).op # "kill",
         chan' \in Heaps, Waits(chan', threads, blocked, pc, blockedOn, abort), ServerKept(chan'),
         NEW pre \in Seq(Calls), todo' = pre \o Tail(todo), Closes(chan', chan, Head(todo)),
         UNCHANGED <<threads, blocked, abort, blockedOn, pc, buf, runqueue, current, listeners,
                     links>>
  PROVE  Inv'
<1>1. /\ Typed /\ Scheduled(runqueue, threads, blocked, current)
      /\ KillsLast(chan, todo) /\ todo \in Seq(Calls \cup Kills)
  BY DEF Inv, Typed
<1>2. KillsLast(chan', pre \o Tail(todo)) /\ pre \o Tail(todo) \in Seq(Calls \cup Kills)
  BY <1>1, CallsLast
<1>3. KillsLast(chan', todo') /\ todo' \in Seq(Calls \cup Kills)
  BY <1>2
<1>4. Typed'
  BY <1>1, <1>3 DEF Typed
<1> QED
  BY <1>1, <1>3, <1>4 DEF Inv

(* Such a call that changes fields nobody waits on. *)
LEMMA NestedAlikeInv ==
  ASSUME IpcAssumption, Inv, todo # <<>>, Head(todo).op \notin {"kill", "destroy"},
         NEW c \in Chans, Alike(chan', chan), \A d \in Chans \ {c} : chan'[d] = chan[d],
         chan'[c].xfer \in {c, chan[c].xfer},
         NEW pre \in Seq(Calls), todo' = pre \o Tail(todo),
         UNCHANGED <<threads, blocked, abort, blockedOn, pc, buf, runqueue, current, listeners,
                     links>>
  PROVE  Inv'
<1>1. /\ Typed /\ chan \in Heaps /\ threads \in SUBSET T /\ pc \in [T -> PcType]
      /\ Waits(chan, threads, blocked, pc, blockedOn, abort)
      /\ ServerKept(chan)
  BY DEF Inv, Typed
<1>2. Waits(chan', threads, blocked, pc, blockedOn, abort)
  BY <1>1, AlikeWaits
<1>3. ServerKept(chan')
  BY <1>1 DEF ServerKept, Alike, SameFields, IpcAssumption
<1>4. chan' \in Heaps
  BY DEF Alike
<1>5. Closes(chan', chan, Head(todo))
  BY DEF Alike, SameFields, Closes
<1>6. Head(todo).op # "kill"
  OBVIOUS
<1> QED
  BY <1>2, <1>3, <1>4, <1>5, <1>6, NestedHeapInv

LEMMA NestedTypes ==
  ASSUME Inv, todo # <<>>
  PROVE  /\ Head(todo) \in Calls \cup Kills /\ Tail(todo) \in Seq(Calls \cup Kills)
         /\ <<>> \o Tail(todo) = Tail(todo) /\ <<>> \in Seq(Calls)
         /\ Head(todo).op \notin {"kill", "irq"} => Head(todo).ch \in Chans
         /\ Head(todo).op = "kill" => Head(todo).ch \in T
         /\ Head(todo).op = "irq" => Head(todo).ch \subseteq Chans
<1>1. todo \in Seq(Calls \cup Kills)
  BY DEF Inv, Typed
<1>2. Head(todo) \in Calls \cup Kills /\ Tail(todo) \in Seq(Calls \cup Kills)
  BY <1>1, HeadTailProperties
<1>3. <<>> \o Tail(todo) = Tail(todo)
  BY <1>2, ConcatEmptySeq
<1> QED
  BY <1>2, <1>3 DEF Calls, ChanCalls, Irqs, Kills

LEMMA DecrefInv ==
  ASSUME IpcAssumption, Inv, todo # <<>>, Head(todo).op = "decref",
         Decref(Head(todo).ch, Tail(todo))
  PROVE  Inv'
<1>1. Head(todo).ch \in Chans /\ chan \in Heaps /\ <<>> \o Tail(todo) = Tail(todo) /\ <<>> \in Seq(Calls)
  BY NestedTypes DEF Inv, Typed
<1>2. PICK c \in Chans : c = Head(todo).ch
  BY <1>1
<1>3. CASE ~Live(c)
  BY <1>2, <1>3, HaltInv DEF Decref
<1>4. CASE Live(c) /\ chan[c].ref = 0
  BY <1>2, <1>4, HaltInv DEF Decref
<1>5. CASE Live(c) /\ chan[c].ref # 0
  <2>1. /\ chan' = WithLessRef(chan, c)
        /\ todo' = IF chan[c].ref > 1 THEN Tail(todo)
                   ELSE Unlink(c) \o Untransfer(c) \o <<[op |-> "free", ch |-> c]>> \o Tail(todo)
        /\ UNCHANGED <<threads, blocked, abort, blockedOn, pc, buf, runqueue, current,
                       listeners, links, halted>>
    BY <1>2, <1>5 DEF Decref, WithLessRef
  <2>2. Alike(chan', chan) /\ chan'[c].xfer = chan[c].xfer /\ \A d \in Chans \ {c} : chan'[d] = chan[d]
    BY <1>1, <1>5, <2>1, DropRef DEF Live
  <2>3. Unlink(c) \o Untransfer(c) \o <<[op |-> "free", ch |-> c]>> \in Seq(Calls)
    BY CallTypes, ConcatProperties
  <2>4. PICK pre \in Seq(Calls) : todo' = pre \o Tail(todo)
    BY <1>1, <2>1, <2>3
  <2> QED
    BY <2>1, <2>2, <2>4, NestedAlikeInv
<1> QED
  BY <1>3, <1>4, <1>5

LEMMA DestroyInv ==
  ASSUME IpcAssumption, Inv, todo # <<>>, Head(todo).op = "destroy",
         Destroy(Head(todo).ch, Tail(todo))
  PROVE  Inv'
<1>1. Head(todo).ch \in Chans
  BY NestedTypes
<1>2. PICK c \in Chans : c = Head(todo).ch
  BY <1>1
<1>3. CASE ~Live(c)
  BY <1>2, <1>3, HaltInv DEF Destroy
<1>4. CASE Live(c) /\ chan[c].destructed
  BY <1>2, <1>4, HaltInv DEF Destroy
<1>5. CASE Live(c) /\ ~chan[c].destructed
  <2>1. /\ chan' = WithDestructed(chan, c)
        /\ todo' = <<[op |-> "decref", ch |-> c]>> \o Tail(todo)
        /\ UNCHANGED <<threads, blocked, abort, blockedOn, pc, buf, runqueue, current,
                       listeners, links, halted>>
    BY <1>2, <1>5 DEF Destroy, WithDestructed
  <2>2. /\ Typed /\ chan \in Heaps /\ threads \in SUBSET T /\ pc \in [T -> PcType]
        /\ Waits(chan, threads, blocked, pc, blockedOn, abort)
        /\ ServerKept(chan)
    BY DEF Inv, Typed
  <2>3. /\ SameBut(chan', chan, c)
        /\ chan'[c].receiver = chan[c].receiver /\ chan'[c].queue = chan[c].queue
        /\ chan'[c].destructed
    BY <1>5, <2>1, <2>2, SetDestructed DEF Live
  <2>4. Waits(chan', threads, blocked, pc, blockedOn, abort)
    BY <2>2, <2>3, DestructWaits
  <2>5. ServerKept(chan') /\ chan' \in Heaps
    BY <2>2, <2>3 DEF ServerKept, SameBut, IpcAssumption
  <2>6. PICK pre \in Seq(Calls) : pre = <<[op |-> "decref", ch |-> c]>>
    BY CallTypes
  <2>7. Closes(chan', chan, Head(todo))
    BY <1>2, <2>3 DEF SameBut, Closes
  <2>8. Head(todo).op # "kill" /\ todo' = pre \o Tail(todo)
    BY <2>1, <2>6
  <2> QED
    BY <2>1, <2>4, <2>5, <2>7, <2>8, NestedHeapInv
<1> QED
  BY <1>3, <1>4, <1>5

LEMMA ReleaseInv ==
  ASSUME IpcAssumption, Inv, todo # <<>>, Head(todo).op = "free",
         Release(Head(todo).ch, Tail(todo))
  PROVE  Inv'
<1>1. Head(todo).ch \in Chans /\ <<>> \o Tail(todo) = Tail(todo) /\ <<>> \in Seq(Calls)
  BY NestedTypes
<1>2. PICK c \in Chans : c = Head(todo).ch
  BY <1>1
<1>3. PICK r : r = chan[c].receiver
  OBVIOUS
<1>4. CASE ~Live(c)
  BY <1>2, <1>4, HaltInv DEF Release
<1>5. CASE Live(c) /\ (chan[c].queue # <<>> \/ r \notin threads \cup {None})
  BY <1>2, <1>3, <1>5, HaltInv DEF Release
<1>6. ASSUME Live(c), chan[c].queue = <<>>, r \in threads \cup {None}
      PROVE  Inv'
  <2>1. /\ chan' = [chan EXCEPT ![c] = Free]
        /\ todo' = Tail(todo)
        /\ IF r = None
           THEN UNCHANGED <<blocked, abort, runqueue>>
           ELSE /\ abort' = [abort EXCEPT ![r] = "CHANNEL_CLOSED"]
                /\ blocked' = [blocked EXCEPT ![r] = FALSE]
                /\ runqueue' = Resume(runqueue, blocked, r)
        /\ UNCHANGED <<threads, blockedOn, pc, buf, current, listeners, links, halted>>
    BY <1>2, <1>3, <1>6 DEF Release
  <2>2. /\ Typed /\ chan \in Heaps /\ threads \in SUBSET T /\ pc \in [T -> PcType]
        /\ blocked \in [T -> BOOLEAN] /\ abort \in [T -> Reasons]
        /\ Waits(chan, threads, blocked, pc, blockedOn, abort)
        /\ Scheduled(runqueue, threads, blocked, current)
        /\ ServerKept(chan)
        /\ KillsLast(chan, todo) /\ todo \in Seq(Calls \cup Kills)
    BY DEF Inv, Typed
  <2>3. chan' \in Heaps /\ chan'[c] = Free /\ \A d \in Chans \ {c} : chan'[d] = chan[d]
    BY <2>1, <2>2 DEF Heaps
  <2>4. ServerKept(chan')
    BY <2>2, <2>3 DEF ServerKept, IpcAssumption
  <2>5. Closes(chan', chan, Head(todo))
    BY <2>3 DEF Closes
  <2>6. CASE r = None
    <3>1. \A u \in T : chan[c].receiver # u
      BY <1>3, <2>6 DEF IpcAssumption
    <3>2. Waits(chan', threads, blocked, pc, blockedOn, abort)
      BY <1>6, <2>2, <2>3, <3>1, FreeWaits DEF Live
    <3>3. Head(todo).op # "kill" /\ todo' = <<>> \o Tail(todo) /\ <<>> \in Seq(Calls)
      BY <1>1, <2>1
    <3> QED
      BY <2>1, <2>3, <2>4, <2>5, <2>6, <3>2, <3>3, NestedHeapInv
  <2>7. CASE r \in threads
    <3>1. r # None /\ r \in T /\ blocked[r] /\ chan[c] # Free
      BY <1>3, <1>6, <2>2, <2>7 DEF IpcAssumption, Waits, Receivers, Live
    <3>2. /\ abort' = [abort EXCEPT ![r] = "CHANNEL_CLOSED"]
          /\ blocked' = [blocked EXCEPT ![r] = FALSE]
          /\ runqueue' = Resume(runqueue, blocked, r)
      BY <2>1, <3>1
    <3>3. Scheduled(runqueue', threads, blocked', current)
      BY <2>2, <2>7, <3>1, <3>2, ResumeScheduled
    <3>4. PICK H : H = WithReceiver(chan, c, None)
      OBVIOUS
    <3>5. /\ SameBut(H, chan, c)
          /\ H[c].receiver = None /\ H[c].queue = chan[c].queue
          /\ H[c].destructed = chan[c].destructed
      BY <2>2, <3>1, <3>4, SetReceiver
    <3>6. PICK B : B = blocked'
      OBVIOUS
    <3>7. PICK A : A = abort'
      OBVIOUS
    <3>8. /\ B \in [T -> BOOLEAN] /\ A \in [T -> Reasons] /\ (B[r] => A[r] # "OK")
          /\ \A u \in T \ {r} : B[u] = blocked[u] /\ A[u] = abort[u]
      BY <2>2, <3>1, <3>2, <3>6, <3>7 DEF Reasons
    <3>9. chan[c].receiver = r
      BY <1>3
    <3>10. Waits(H, threads, B, pc, blockedOn, A)
      BY <2>2, <2>7, <3>5, <3>8, <3>9, WakeWaits
    <3>11. H \in Heaps /\ H[c] # Free /\ H[c].queue = <<>> /\ (\A u \in T : H[c].receiver # u)
             /\ \A d \in Chans \ {c} : chan'[d] = H[d]
      BY <1>6, <2>3, <3>5 DEF SameBut, IpcAssumption
    <3>12. Waits(chan', threads, B, pc, blockedOn, A)
      BY <2>2, <2>3, <3>10, <3>11, FreeWaits
    <3>13. KillsLast(chan', todo') /\ todo' \in Seq(Calls \cup Kills)
      <4>1. <<>> # <<>> => Head(todo).op # "kill"
        OBVIOUS
      <4>2. KillsLast(chan', <<>> \o Tail(todo)) /\ <<>> \o Tail(todo) \in Seq(Calls \cup Kills)
        BY <1>1, <2>2, <2>5, <4>1, CallsLast
      <4> QED
        BY <1>1, <2>1, <4>2
    <3>14. Typed'
      BY <2>1, <2>2, <2>3, <3>6, <3>7, <3>8, <3>13 DEF Typed
    <3> QED
      BY <2>1, <2>4, <3>3, <3>6, <3>7, <3>12, <3>13, <3>14 DEF Inv
  <2> QED
    BY <1>6, <2>6, <2>7
<1> QED
  BY <1>4, <1>5, <1>6

LEMMA KillInv ==
  ASSUME IpcAssumption, Inv, todo # <<>>, Head(todo).op = "kill",
         Kill(Head(todo).ch, Tail(todo))
  PROVE  Inv'
<1>1. Head(todo).ch \in T /\ <<>> \o Tail(todo) = Tail(todo) /\ <<>> \in Seq(Calls)
  BY NestedTypes
<1>2. PICK t \in T : t = Head(todo).ch
  BY <1>1
<1>3. /\ threads' = threads \ {t}
      /\ todo' = Tail(todo)
      /\ runqueue' = IF blocked[t] THEN runqueue ELSE ListRemove(runqueue, t)
      /\ chan' = IF blockedOn[t] = None \/ ~Live(blockedOn[t]) THEN chan
                 ELSE [chan EXCEPT ![blockedOn[t]].queue = ListRemove(@, t)]
      /\ UNCHANGED <<blocked, abort, blockedOn, pc, buf, current, listeners, links, halted>>
  BY <1>2 DEF Kill
<1>4. /\ Typed /\ chan \in Heaps /\ threads \in SUBSET T /\ pc \in [T -> PcType]
      /\ blocked \in [T -> BOOLEAN] /\ blockedOn \in [T -> Chans \cup {None}]
      /\ Waits(chan, threads, blocked, pc, blockedOn, abort)
      /\ Scheduled(runqueue, threads, blocked, current)
      /\ ServerKept(chan)
      /\ KillsLast(chan, todo) /\ todo \in Seq(Calls \cup Kills)
  BY DEF Inv, Typed
<1>5. \A c \in Chans : chan[c] # Free /\ chan[c].owner = ProcessOf[t] => chan[c].destructed
  BY <1>2, <1>4, KillsAfterDestroys
<1>6. /\ chan' \in Heaps
      /\ \A c \in Chans : chan[c] = Free <=> chan'[c] = Free
      /\ \A c \in Chans : chan[c] # Free =>
           /\ chan'[c].owner = chan[c].owner /\ chan'[c].destructed = chan[c].destructed
           /\ chan'[c].receiver = chan[c].receiver /\ chan'[c].xfer = chan[c].xfer
           /\ chan'[c].queue = IF c = blockedOn[t] THEN ListRemove(chan[c].queue, t) ELSE chan[c].queue
  <2>1. CASE blockedOn[t] = None \/ ~Live(blockedOn[t])
    <3>1. chan' = chan
      BY <1>3, <2>1
    <3>2. \A c \in Chans : chan[c] # Free => c # blockedOn[t]
      BY <2>1 DEF Live, IpcAssumption
    <3> QED
      BY <1>4, <3>1, <3>2
  <2>2. CASE blockedOn[t] # None /\ Live(blockedOn[t])
    <3>1. PICK b \in Chans : b = blockedOn[t]
      BY <1>4, <2>2
    <3>2. chan[b] # Free /\ chan[b].queue \in Seq(T) /\ IsInjective(chan[b].queue)
      BY <1>4, <2>2, <3>1, QueueTypes DEF Live, Waits, Queues
    <3>3. PICK q \in Seq(T) : q = ListRemove(chan[b].queue, t)
      BY <3>2, RemoveSet
    <3>4. chan' = WithQueue(chan, b, q)
      BY <1>3, <2>2, <3>1, <3>3 DEF WithQueue
    <3>5. /\ SameBut(chan', chan, b)
          /\ chan'[b].receiver = chan[b].receiver /\ chan'[b].queue = q
          /\ chan'[b].destructed = chan[b].destructed
      BY <1>4, <3>2, <3>4, SetQueue
    <3> QED
      BY <3>1, <3>3, <3>5 DEF SameBut
  <2> QED
    BY <2>1, <2>2
<1>7. Waits(chan', threads \ {t}, blocked, pc, blockedOn, abort)
  BY <1>4, <1>5, <1>6, KillWaits
<1>8. Scheduled(runqueue', threads \ {t}, blocked, current)
  BY <1>3, <1>4, KillScheduled
<1>9. ServerKept(chan')
  BY <1>4, <1>6 DEF ServerKept, IpcAssumption
<1>10. KillsLast(chan', todo') /\ todo' \in Seq(Calls \cup Kills)
  <2>1. Closes(chan', chan, Head(todo))
    BY <1>6 DEF Closes
  <2>2. <<>> # <<>> => Head(todo).op # "kill"
    OBVIOUS
  <2>3. KillsLast(chan', <<>> \o Tail(todo)) /\ <<>> \o Tail(todo) \in Seq(Calls \cup Kills)
    BY <1>1, <1>4, <2>1, <2>2, CallsLast
  <2> QED
    BY <1>1, <1>3, <2>3
<1>11. Typed'
  BY <1>3, <1>4, <1>6, <1>10 DEF Typed
<1> QED
  BY <1>3, <1>7, <1>8, <1>9, <1>10, <1>11 DEF Inv

LEMMA UnlinkInv ==
  ASSUME IpcAssumption, Inv, todo # <<>>, Head(todo).op \in {"unlink", "selflink", "untransfer"},
         NEW c \in Chans, c = Head(todo).ch, NEW pre \in Seq(Calls),
         NEW H, H \in {chan, WithSelfLink(chan, c), WithSelfXfer(chan, c)},
         Pop(c, H, pre \o Tail(todo))
  PROVE  Inv'
<1>1. chan \in Heaps
  BY DEF Inv, Typed
<1>2. CASE ~Live(c)
  BY <1>2, HaltInv DEF Pop
<1>3. CASE Live(c)
  <2>1. /\ chan' = H /\ todo' = pre \o Tail(todo)
        /\ UNCHANGED <<threads, blocked, abort, blockedOn, pc, buf, runqueue, current,
                       listeners, links, halted>>
    BY <1>3 DEF Pop
  <2>2. Alike(chan, chan)
    BY <1>1 DEF Alike, SameFields
  <2>3. Alike(H, chan) /\ H[c].xfer \in {c, chan[c].xfer} /\ \A d \in Chans \ {c} : H[d] = chan[d]
    BY <1>1, <1>3, <2>2, SetLink, SetXfer DEF Live
  <2>4. Head(todo).op \notin {"kill", "destroy"}
    OBVIOUS
  <2> QED
    BY <2>1, <2>3, <2>4, NestedAlikeInv
<1> QED
  BY <1>2, <1>3

LEMMA NestedInv ==
  ASSUME IpcAssumption, Inv, Nested
  PROVE  Inv'
<1>1. todo # <<>>
  BY DEF Nested
<1>2. /\ Head(todo) \in Calls \cup Kills
      /\ <<>> \o Tail(todo) = Tail(todo) /\ <<>> \in Seq(Calls)
      /\ Head(todo).op \notin {"kill", "irq"} => Head(todo).ch \in Chans
      /\ Head(todo).op = "irq" => Head(todo).ch \subseteq Chans
  BY <1>1, NestedTypes
<1>3. chan \in Heaps
  BY DEF Inv, Typed
<1>4. CASE Head(todo).op = "destroy" /\ Destroy(Head(todo).ch, Tail(todo))
  BY <1>1, <1>4, DestroyInv
<1>5. CASE Head(todo).op = "decref" /\ Decref(Head(todo).ch, Tail(todo))
  BY <1>1, <1>5, DecrefInv
<1>6. CASE Head(todo).op = "free" /\ Release(Head(todo).ch, Tail(todo))
  BY <1>1, <1>6, ReleaseInv
<1>7. CASE Head(todo).op = "kill" /\ Kill(Head(todo).ch, Tail(todo))
  BY <1>1, <1>7, KillInv
<1>8. ASSUME NEW f \in Chans
      PROVE  <<[op |-> "decref", ch |-> f]>> \in Seq(Calls)
  BY <1>8, CallTypes
<1>9. ASSUME NEW c \in Chans, c = Head(todo).ch, Head(todo).op \in {"unlink", "selflink", "untransfer"},
             NEW f, f \in {chan[c].link, chan[c].xfer}, NEW b,
             NEW H, H \in {chan, WithSelfLink(chan, c), WithSelfXfer(chan, c)},
             Pop(c, H, IF b THEN <<[op |-> "decref", ch |-> f]>> \o Tail(todo) ELSE Tail(todo))
      PROVE  Inv'
  <2>1. CASE ~Live(c)
    BY <1>9, <2>1, HaltInv DEF Pop
  <2>2. CASE Live(c)
    <3>1. f \in Chans
      BY <1>3, <1>9, <2>2, LiveType DEF Live, ChannelType
    <3>2. PICK pre \in Seq(Calls) : pre = IF b THEN <<[op |-> "decref", ch |-> f]>> ELSE <<>>
      BY <1>2, <1>8, <3>1
    <3>3. (IF b THEN <<[op |-> "decref", ch |-> f]>> \o Tail(todo) ELSE Tail(todo)) = pre \o Tail(todo)
      BY <1>2, <3>2
    <3>4. Pop(c, H, pre \o Tail(todo))
      BY <1>9, <3>3 DEF Pop
    <3> QED
      BY <1>1, <1>9, <3>4, UnlinkInv
  <2> QED
    BY <2>1, <2>2
<1>10. ASSUME Head(todo).op = "unlink",
              Pop(Head(todo).ch, chan, IF chan[Head(todo).ch].link # Head(todo).ch
                    THEN <<[op |-> "decref", ch |-> chan[Head(todo).ch].link]>> \o Tail(todo)
                    ELSE Tail(todo))
       PROVE  Inv'
  <2>1. PICK c \in Chans : c = Head(todo).ch
    BY <1>2, <1>10
  <2>2. PICK f : f = chan[c].link
    OBVIOUS
  <2>3. PICK b : b = (chan[c].link # c)
    OBVIOUS
  <2>4. PICK H : H = chan
    OBVIOUS
  <2>5. Pop(c, H, IF b THEN <<[op |-> "decref", ch |-> f]>> \o Tail(todo) ELSE Tail(todo))
    BY <1>10, <2>1, <2>2, <2>3, <2>4 DEF Pop
  <2> QED
    BY <1>9, <1>10, <2>1, <2>2, <2>4, <2>5
<1>11. ASSUME Head(todo).op = "selflink",
              Pop(Head(todo).ch, [chan EXCEPT ![Head(todo).ch].link = Head(todo).ch], Tail(todo))
       PROVE  Inv'
  <2>1. PICK c \in Chans : c = Head(todo).ch
    BY <1>2, <1>11
  <2>2. PICK H : H = WithSelfLink(chan, c)
    OBVIOUS
  <2>3. Pop(c, H, IF FALSE THEN <<[op |-> "decref", ch |-> chan[c].link]>> \o Tail(todo) ELSE Tail(todo))
    BY <1>11, <2>1, <2>2 DEF Pop, WithSelfLink
  <2>4. PICK f : f = chan[c].link
    OBVIOUS
  <2>5. Pop(c, H, IF FALSE THEN <<[op |-> "decref", ch |-> f]>> \o Tail(todo) ELSE Tail(todo))
    BY <2>3, <2>4 DEF Pop
  <2> QED
    BY <1>9, <1>11, <2>1, <2>2, <2>4, <2>5
<1>12. ASSUME Head(todo).op = "untransfer",
              Pop(Head(todo).ch, [chan EXCEPT ![Head(todo).ch].xfer = Head(todo).ch],
                  IF chan[Head(todo).ch].xfer # Head(todo).ch
                  THEN <<[op |-> "decref", ch |-> chan[Head(todo).ch].xfer]>> \o Tail(todo)
                  ELSE Tail(todo))
       PROVE  Inv'
  <2>1. PICK c \in Chans : c = Head(todo).ch
    BY <1>2, <1>12
  <2>2. PICK f : f = chan[c].xfer
    OBVIOUS
  <2>3. PICK b : b = (chan[c].xfer # c)
    OBVIOUS
  <2>4. PICK H : H = WithSelfXfer(chan, c)
    OBVIOUS
  <2>5. Pop(c, H, IF b THEN <<[op |-> "decref", ch |-> f]>> \o Tail(todo) ELSE Tail(todo))
    BY <1>12, <2>1, <2>2, <2>3, <2>4 DEF Pop, WithSelfXfer
  <2> QED
    BY <1>9, <1>12, <2>1, <2>2, <2>4, <2>5
<1>13. ASSUME Head(todo).op = "irq", NEW l \in Head(todo).ch,
              Notify(l, IF Head(todo).ch = {l} THEN Tail(todo)
                        ELSE <<[op |-> "irq", ch |-> Head(todo).ch \ {l}]>> \o Tail(todo))
       PROVE  Inv'
  <2>1. PICK c \in Chans : c = l
    BY <1>2, <1>13
  <2>2. [op |-> "irq", ch |-> Head(todo).ch \ {l}] \in Calls
    BY <1>2, <1>13 DEF Calls, Irqs
  <2>10. PICK x \in Calls : x = [op |-> "irq", ch |-> Head(todo).ch \ {l}]
    BY <2>2
  <2>11. <<x>> \in Seq(Calls)
    OBVIOUS
  <2>3. PICK pre \in Seq(Calls) : pre = IF Head(todo).ch = {l} THEN <<>> ELSE <<x>>
    BY <1>2, <2>11
  <2>4. PICK rest : rest = pre \o Tail(todo)
    OBVIOUS
  <2>5. rest = IF Head(todo).ch = {l} THEN Tail(todo)
               ELSE <<[op |-> "irq", ch |-> Head(todo).ch \ {l}]>> \o Tail(todo)
    BY <1>2, <2>3, <2>4, <2>10
  <2>6. Notify(c, rest)
    BY <1>13, <2>1, <2>5
  <2>7. todo \in Seq(Calls \cup Kills) /\ KillsLast(chan, todo)
    BY DEF Inv, Typed
  <2>8. ASSUME NEW H, Closes(H, chan, [op |-> "irq"])
        PROVE  KillsLast(H, rest)
    <3>1. Closes(H, chan, Head(todo)) /\ Head(todo).op # "kill"
      BY <1>13, <2>8 DEF Closes
    <3> QED
      BY <1>1, <2>4, <2>7, <3>1, CallsLast
  <2>9. rest \in Seq(Calls \cup Kills)
    <3>1. Closes(chan, chan, Head(todo)) /\ Head(todo).op # "kill"
      BY <1>13 DEF Closes
    <3> QED
      BY <1>1, <2>4, <2>7, <3>1, CallsLast
  <2> QED
    BY <2>6, <2>8, <2>9, NotifyInv
<1> QED
  BY <1>4, <1>5, <1>6, <1>7, <1>10, <1>11, <1>12, <1>13 DEF Nested

-----------------------------------------------------------------------------
(* The kernel server. *)

LEMMA ReplyType ==
  ASSUME Inv, NEW m, Reply(m)
  PROVE  /\ pc' \in [T -> PcType] /\ \A u \in T \ {Ks} : pc'[u] = pc[u]
         /\ buf' = [u \in T |-> buf'[u]]
<1>1. PICK x \in PcType : x = [User EXCEPT !.at = "reply"]
  BY PcTypes
<1>2. pc' = [pc EXCEPT ![Ks] = x] /\ pc \in [T -> PcType] /\ Typed
  BY <1>1 DEF Reply, Inv, Typed
<1>3. PICK y : y = [m EXCEPT !.from = buf[Ks].from]
  OBVIOUS
<1>4. buf' = [buf EXCEPT ![Ks] = y]
  BY <1>3 DEF Reply
<1>5. buf' = [u \in T |-> buf'[u]]
  BY <1>2, <1>4, SetBuf
<1> QED
  BY <1>2, <1>5

(* A request that changes channels and makes the reply. *)
LEMMA AnswerInv ==
  ASSUME IpcAssumption, Inv, Ks \in threads, current = Ks, todo = <<>>, NEW m, Reply(m),
         chan' \in Heaps, Waits(chan', threads, blocked, pc, blockedOn, abort), ServerKept(chan'),
         todo' \in Seq(Calls), listeners' \subseteq Chans,
         UNCHANGED <<threads, blocked, abort, blockedOn, runqueue, current, links>>
  PROVE  Inv'
<1>1. /\ pc' \in [T -> PcType] /\ \A u \in T \ {Ks} : pc'[u] = pc[u]
      /\ buf' = [u \in T |-> buf'[u]]
  BY ReplyType
<1>2. abort \in [T -> Reasons] /\ blockedOn \in [T -> Chans \cup {None}] /\ links \in 0..LinkMax
  BY DEF Inv, Typed
<1>3. KillsLast(chan', todo') /\ todo' \in Seq(Calls \cup Kills)
  BY CallsOnly
<1>4. PICK k \in threads : k = Ks
  OBVIOUS
<1>5. \A u \in T \ {k} : pc'[u] = pc[u] /\ abort'[u] = abort[u] /\ blockedOn'[u] = blockedOn[u]
  BY <1>1, <1>4
<1>6. abort' \in [T -> Reasons] /\ blockedOn' \in [T -> Chans \cup {None}] /\ links' \in 0..LinkMax
  BY <1>2
<1> QED
  BY <1>1, <1>3, <1>4, <1>5, <1>6, OwnInv

LEMMA ServerState ==
  ASSUME Inv
  PROVE  /\ Typed /\ chan \in Heaps /\ pc \in [T -> PcType] /\ threads \in SUBSET T
         /\ Waits(chan, threads, blocked, pc, blockedOn, abort)
         /\ ServerKept(chan) /\ listeners \subseteq Chans /\ <<>> \in Seq(Calls)
  BY DEF Inv, Typed

LEMMA HandleOtherInv ==
  ASSUME IpcAssumption, Inv, HandleOther
  PROVE  Inv'
<1>1. /\ Ks \in threads /\ current = Ks /\ todo = <<>> /\ Reply([Empty EXCEPT !.hdr = "reply"])
      /\ UNCHANGED <<chan, threads, blocked, abort, blockedOn, runqueue, current, listeners,
                     todo, links>>
  BY DEF HandleOther, Running
<1>2. /\ chan' \in Heaps /\ Waits(chan', threads, blocked, pc, blockedOn, abort) /\ ServerKept(chan')
      /\ todo' \in Seq(Calls) /\ listeners' \subseteq Chans
  BY <1>1, ServerState
<1>3. PICK m : m = [Empty EXCEPT !.hdr = "reply"]
  OBVIOUS
<1>4. Reply(m)
  BY <1>1, <1>3 DEF Reply
<1> QED
  BY <1>1, <1>2, <1>4, AnswerInv

LEMMA HandleConnectInv ==
  ASSUME IpcAssumption, Inv, HandleConnect
  PROVE  Inv'
<1>1. Ks \in threads /\ current = Ks /\ todo = <<>>
  BY DEF HandleConnect, Serves, Running
<1>2. /\ chan \in Heaps /\ pc \in [T -> PcType] /\ threads \in SUBSET T
      /\ Waits(chan, threads, blocked, pc, blockedOn, abort)
      /\ ServerKept(chan) /\ listeners \subseteq Chans /\ <<>> \in Seq(Calls)
  BY ServerState
<1>3. CASE FreeSlots(chan) # {} /\ ~Live(ServerCh)
  BY <1>3, HaltInv DEF HandleConnect
<1>4. CASE FreeSlots(chan) = {}
  <2>1. /\ Reply([Empty EXCEPT !.hdr = "error"])
        /\ UNCHANGED <<chan, threads, blocked, abort, blockedOn, runqueue, current, listeners,
                       todo, links>>
    BY <1>4 DEF HandleConnect
  <2>2. /\ chan' \in Heaps /\ Waits(chan', threads, blocked, pc, blockedOn, abort) /\ ServerKept(chan')
        /\ todo' \in Seq(Calls) /\ listeners' \subseteq Chans
    BY <1>1, <1>2, <2>1
  <2>3. PICK m : m = [Empty EXCEPT !.hdr = "error"]
    OBVIOUS
  <2>4. Reply(m)
    BY <2>1, <2>3 DEF Reply
  <2> QED
    BY <1>1, <2>1, <2>2, <2>4, AnswerInv
<1>5. CASE FreeSlots(chan) # {} /\ Live(ServerCh)
  <2>1. PICK n : n = Fresh(chan)
    OBVIOUS
  <2>2. PICK m : m = [Empty EXCEPT !.hdr = "reply", !.ch = n]
    OBVIOUS
  <2>3. PICK H : H = WithChannel(chan, n, Kernel)
    OBVIOUS
  <2>4. /\ chan' = Transfer(H, n, ServerCh)
        /\ UNCHANGED <<threads, blocked, abort, blockedOn, runqueue, current, listeners,
                       todo, links>>
    BY <1>5, <2>1, <2>3 DEF HandleConnect, WithChannel
  <2>5. Reply(m)
    BY <1>5, <2>1, <2>2 DEF HandleConnect, Reply
  <2>6. n \in Chans /\ chan[n] = Free
    BY <1>5, <2>1, FreshSlot
  <2>7. n # ServerCh /\ ServerCh \in Chans
    BY <1>5, <2>6 DEF Live, IpcAssumption
  <2>8. /\ H \in Heaps /\ H[n] = NewChannel(n, Kernel) /\ H[n] # Free
        /\ \A d \in Chans \ {n} : H[d] = chan[d]
        /\ ServerKept(H)
        /\ Waits(H, threads, blocked, pc, blockedOn, abort)
    BY <1>2, <2>3, <2>6, CreateHeap
  <2>9. H[ServerCh] # Free
    BY <1>5, <2>7, <2>8 DEF Live
  <2>10. Alike(chan', H) /\ \A c \in Chans \ {n} : H[c] # Free => chan'[c].xfer = H[c].xfer
    BY <2>4, <2>6, <2>7, <2>8, <2>9, TransferAlike
  <2>11. Waits(chan', threads, blocked, pc, blockedOn, abort)
    BY <1>2, <2>8, <2>10, AlikeWaits
  <2>12. ServerKept(chan') /\ chan' \in Heaps
    BY <2>7, <2>8, <2>9, <2>10 DEF ServerKept, Alike, SameFields
  <2>13. todo' \in Seq(Calls) /\ listeners' \subseteq Chans
    BY <1>1, <1>2, <2>4
  <2> QED
    BY <1>1, <2>4, <2>5, <2>11, <2>12, <2>13, AnswerInv
<1> QED
  BY <1>3, <1>4, <1>5

LEMMA HandleListenInv ==
  ASSUME IpcAssumption, Inv, HandleListen
  PROVE  Inv'
<1>1. Ks \in threads /\ current = Ks /\ todo = <<>>
  BY DEF HandleListen, Serves, Running
<1>2. CASE buf[Ks].ch \notin Table(Kernel)
  BY <1>2, HaltInv DEF HandleListen
<1>3. CASE buf[Ks].ch \in Table(Kernel)
  <2>1. /\ listeners' \subseteq listeners \cup {buf[Ks].ch}
        /\ Reply([Empty EXCEPT !.hdr = "reply"]) \/ Reply([Empty EXCEPT !.hdr = "error"])
        /\ UNCHANGED <<chan, threads, blocked, abort, blockedOn, runqueue, current, todo, links>>
    BY <1>3 DEF HandleListen
  <2>2. /\ chan' \in Heaps /\ Waits(chan', threads, blocked, pc, blockedOn, abort) /\ ServerKept(chan')
        /\ todo' \in Seq(Calls) /\ listeners' \subseteq Chans
    BY <1>1, <1>3, <2>1, ServerState DEF Table
  <2>3. PICK m : Reply(m)
    BY <2>1
  <2>4. Reply(m)
    BY <2>3
  <2> QED
    BY <1>1, <2>1, <2>2, <2>4, AnswerInv
<1> QED
  BY <1>2, <1>3

LEMMA HandleGiveInv ==
  ASSUME IpcAssumption, Inv, HandleGive
  PROVE  Inv'
<1>1. Ks \in threads /\ current = Ks /\ todo = <<>>
  BY DEF HandleGive, Serves, Running
<1>2. /\ chan \in Heaps /\ pc \in [T -> PcType] /\ threads \in SUBSET T
      /\ Waits(chan, threads, blocked, pc, blockedOn, abort)
      /\ ServerKept(chan) /\ listeners \subseteq Chans /\ <<>> \in Seq(Calls)
  BY ServerState
<1>3. CASE Halt("assertion")
  BY <1>3, HaltInv
<1>5. CASE /\ InvalidPid
           /\ UNCHANGED <<threads, blocked, abort, blockedOn, runqueue, current, listeners, links>>
  <2>1. PICK m : Reply(m)
    BY <1>5 DEF InvalidPid
  <2>2. UNCHANGED <<chan, todo>>
    BY <1>5 DEF InvalidPid
  <2>3. /\ chan' \in Heaps /\ Waits(chan', threads, blocked, pc, blockedOn, abort)
        /\ ServerKept(chan') /\ todo' \in Seq(Calls) /\ listeners' \subseteq Chans
    BY <1>1, <1>2, <1>5, <2>2
  <2> QED
    BY <1>1, <1>5, <2>1, <2>3, AnswerInv
<1>4. ASSUME buf[Ks].ch \in Table(Kernel), NEW p \in Procs, SendChannel(buf[Ks].ch, p),
             UNCHANGED <<threads, blocked, abort, blockedOn, runqueue, current, listeners, links>>
      PROVE  Inv'
  <2>1. SendChannel(buf[Ks].ch, p)
    BY <1>4
  <2>2. UNCHANGED <<threads, blocked, abort, blockedOn, runqueue, current, listeners, links>>
    BY <1>4
  <2>3. PICK c \in Chans : c = buf[Ks].ch
    BY <1>4 DEF Table
  <2>4. chan[c] # Free
    BY <1>4, <2>3 DEF Table, Live
  <2>5. SendChannel(c, p)
    BY <2>1, <2>3
  <2>6. chan[c].link \in Chans
    BY <1>2, <2>4, LiveType DEF ChannelType
  <2>7. <<[op |-> "destroy", ch |-> c]>> \in Seq(Calls)
    BY CallTypes
  <2>8. CASE FreeSlots(chan) = {}
    <3>1. /\ chan' = chan /\ Reply([Empty EXCEPT !.hdr = "error"])
          /\ todo' = <<[op |-> "destroy", ch |-> c]>>
      BY <2>5, <2>8 DEF SendChannel
    <3>2. /\ chan' \in Heaps /\ Waits(chan', threads, blocked, pc, blockedOn, abort)
          /\ ServerKept(chan') /\ todo' \in Seq(Calls) /\ listeners' \subseteq Chans
      BY <1>2, <2>2, <2>7, <3>1
    <3>3. PICK m : m = [Empty EXCEPT !.hdr = "error"]
      OBVIOUS
    <3>4. Reply(m)
      BY <3>1, <3>3 DEF Reply
    <3> QED
      BY <1>1, <2>2, <3>2, <3>4, AnswerInv
  <2>9. CASE FreeSlots(chan) # {} /\ ~Live(chan[c].link)
    <3>1. UNCHANGED <<chan, buf, pc, todo>>
      BY <2>5, <2>9 DEF SendChannel
    <3>2. Typed'
      BY <2>2, <3>1 DEF Inv, Typed
    <3> QED
      BY <2>2, <3>1, <3>2 DEF Inv
  <2>10. CASE FreeSlots(chan) # {} /\ Live(chan[c].link)
    <3>1. PICK n : n = Fresh(chan)
      OBVIOUS
    <3>2. PICK k \in Chans : k = chan[c].link
      BY <2>6
    <3>3. PICK H : H = WithChannel(chan, n, p)
      OBVIOUS
    <3>4. /\ chan' = Link(H, k, n) /\ Reply([Empty EXCEPT !.hdr = "reply"])
          /\ todo' = <<[op |-> "destroy", ch |-> c]>>
      BY <2>5, <2>10, <3>1, <3>2, <3>3 DEF SendChannel, WithChannel
    <3>5. n \in Chans /\ chan[n] = Free
      BY <2>10, <3>1, FreshSlot
    <3>6. k # n /\ chan[k] # Free
      BY <2>10, <3>2, <3>5 DEF Live
    <3>7. p \in Procs \cup {Kernel}
      OBVIOUS
    <3>8. /\ H \in Heaps /\ H[n] # Free /\ \A d \in Chans \ {n} : H[d] = chan[d]
          /\ ServerKept(H)
          /\ Waits(H, threads, blocked, pc, blockedOn, abort)
      BY <1>2, <3>3, <3>5, <3>7, CreateHeap
    <3>9. H[k] # Free
      BY <3>6, <3>8
    <3>10. chan' \in Heaps /\ ServerKept(chan') /\ Waits(chan', threads, blocked, pc, blockedOn, abort)
      BY <1>2, <3>4, <3>5, <3>6, <3>8, <3>9, LinkHeap
    <3>11. todo' \in Seq(Calls) /\ listeners' \subseteq Chans
      BY <1>2, <2>2, <2>7, <3>4
    <3>12. PICK m : m = [Empty EXCEPT !.hdr = "reply"]
      OBVIOUS
    <3>13. Reply(m)
      BY <3>4, <3>12 DEF Reply
    <3> QED
      BY <1>1, <2>2, <3>10, <3>11, <3>13, AnswerInv
  <2> QED
    BY <2>8, <2>9, <2>10
<1> QED
  BY <1>3, <1>4, <1>5 DEF HandleGive

(* An injective list of the elements of a finite set has them all. *)
LEMMA ListAll ==
  ASSUME NEW S, IsFiniteSet(S), NEW q \in [1..Cardinality(S) -> S], IsInjective(q)
  PROVE  q \in Seq(S) /\ Len(q) = Cardinality(S) /\ ToSet(q) = S
<1>1. Cardinality(S) \in Nat
  BY FS_CardinalityType
<1>2. PICK n \in Nat : n = Cardinality(S)
  BY <1>1
<1>3. q \in Seq(S) /\ Len(q) = n /\ DOMAIN q = 1..n
  BY <1>2
<1>4. PICK D : D = 1..n
  OBVIOUS
<1>5. Cardinality(D) = n
  <2>1. 1 \in Int /\ n \in Int
    OBVIOUS
  <2>2. Cardinality(1..n) = IF 1 > n THEN 0 ELSE n - 1 + 1
    BY <2>1, FS_Interval
  <2>3. (IF 1 > n THEN 0 ELSE n - 1 + 1) = n
    OBVIOUS
  <2> QED
    BY <1>4, <2>2, <2>3, Zenon
<1>6. q \in Injection(D, S)
  BY <1>2, <1>4 DEF Injection
<1>7. q \in Surjection(D, S)
  BY <1>2, <1>5, <1>6, FS_Injection
<1>8. \A x \in S : \E i \in D : q[i] = x
  BY <1>7 DEF Surjection
<1>9. ToSet(q) = S
  BY <1>2, <1>3, <1>4, <1>8 DEF ToSet
<1> QED
  BY <1>2, <1>3, <1>9

LEMMA Listed ==
  ASSUME NEW S, IsFiniteSet(S)
  PROVE  SetToSeq(S) \in Seq(S) /\ ToSet(SetToSeq(S)) = S
<1>1. ExistsBijection(1..Cardinality(S), S)
  BY FS_CardinalityType
<1>2. \E f \in [1..Cardinality(S) -> S] : IsInjective(f)
  BY <1>1 DEF ExistsBijection, Bijection, Injection
<1>3. PICK q : q = SetToSeq(S)
  OBVIOUS
<1>4. q \in [1..Cardinality(S) -> S] /\ IsInjective(q)
  BY <1>2, <1>3 DEF SetToSeq
<1> QED
  BY <1>3, <1>4, ListAll

(* process_destroy: the calls it makes. *)
Destroys(own) == [i \in 1..Len(own) |-> [op |-> "destroy", ch |-> own[i]]]
KillsAll(dead) == [i \in 1..Len(dead) |-> [op |-> "kill", ch |-> dead[i]]]

LEMMA ExitCalls ==
  ASSUME NEW H, NEW own \in Seq(Chans), NEW dead \in Seq(T), NEW p,
         \A c \in Chans : H[c] # Free /\ H[c].owner = p => c \in ToSet(own),
         \A i \in DOMAIN dead : ProcessOf[dead[i]] = p
  PROVE  /\ KillsLast(H, Destroys(own) \o KillsAll(dead))
         /\ Destroys(own) \o KillsAll(dead) \in Seq(Calls \cup Kills)
<1>1. PICK D : D = Destroys(own)
  OBVIOUS
<1>2. PICK K : K = KillsAll(dead)
  OBVIOUS
<1>3. PICK m \in Nat : m = Len(own)
  OBVIOUS
<1>4. PICK n \in Nat : n = Len(dead)
  OBVIOUS
<1>5. \A i \in 1..m : own[i] \in Chans
  BY <1>3
<1>6. \A i \in 1..n : dead[i] \in T
  BY <1>4
<1>7. \A i \in 1..m : [op |-> "destroy", ch |-> own[i]] \in Calls
  BY <1>5 DEF Calls, ChanCalls
<1>8. \A i \in 1..n : [op |-> "kill", ch |-> dead[i]] \in Kills
  BY <1>6 DEF Kills
<1>9. D = [i \in 1..m |-> [op |-> "destroy", ch |-> own[i]]]
  BY <1>1, <1>3 DEF Destroys
<1>10. K = [i \in 1..n |-> [op |-> "kill", ch |-> dead[i]]]
  BY <1>2, <1>4 DEF KillsAll
<1>11. D \in Seq(Calls \cup Kills) /\ Len(D) = m /\ \A i \in 1..m : D[i] = [op |-> "destroy", ch |-> own[i]]
  BY <1>7, <1>9
<1>12. K \in Seq(Calls \cup Kills) /\ Len(K) = n /\ \A i \in 1..n : K[i] = [op |-> "kill", ch |-> dead[i]]
  BY <1>8, <1>10
<1>13. PICK R : R = D \o K
  OBVIOUS
<1>14. /\ R \in Seq(Calls \cup Kills) /\ Len(R) = m + n
       /\ \A i \in 1..m + n : R[i] = IF i <= m THEN D[i] ELSE K[i - m]
  <2>1. D \in Seq(Calls \cup Kills) /\ K \in Seq(Calls \cup Kills) /\ Len(D) = m /\ Len(K) = n
    BY <1>11, <1>12
  <2>2. /\ R \in Seq(Calls \cup Kills) /\ Len(R) = Len(D) + Len(K)
        /\ \A i \in 1..Len(D) + Len(K) : R[i] = IF i <= Len(D) THEN D[i] ELSE K[i - Len(D)]
    BY <1>13, <2>1, ConcatProperties
  <2> QED
    BY <2>1, <2>2, Zenon
<1>15. DOMAIN R = 1..m + n
  BY <1>14
<1>16. \A i \in 1..m : i \in DOMAIN R /\ R[i].op = "destroy" /\ R[i].ch = own[i]
  BY <1>11, <1>14, <1>15
<1>17. \A i \in DOMAIN R : i > m => i - m \in 1..n /\ R[i].op = "kill" /\ R[i].ch = dead[i - m]
  BY <1>12, <1>14, <1>15
<1>18. ASSUME NEW i \in DOMAIN R, NEW j \in DOMAIN R, i < j, R[i].op = "kill"
       PROVE  R[j].op = "kill"
  <2>1. i > m
    BY <1>15, <1>16, <1>18
  <2>2. j > m
    BY <1>15, <1>18, <2>1
  <2> QED
    BY <1>17, <2>2
<1>19. ASSUME NEW j \in DOMAIN R, NEW c \in Chans, R[j].op = "kill", H[c] # Free,
              H[c].owner = ProcessOf[R[j].ch]
       PROVE  \E i \in DOMAIN R : R[i].op = "destroy" /\ R[i].ch = c
  <2>1. j > m
    BY <1>15, <1>16, <1>19
  <2>2. ProcessOf[R[j].ch] = p
    BY <1>4, <1>17, <2>1
  <2>3. c \in ToSet(own)
    BY <1>19, <2>2
  <2>4. PICK i \in 1..m : own[i] = c
    BY <1>3, <2>3 DEF ToSet
  <2> QED
    BY <1>16, <2>4
<1>20. KillsLast(H, R)
  BY <1>18, <1>19 DEF KillsLast
<1> QED
  BY <1>1, <1>2, <1>13, <1>14, <1>20

LEMMA HandleExitInv ==
  ASSUME IpcAssumption, Inv, HandleExit
  PROVE  Inv'
<1>1. Ks \in threads /\ current = Ks /\ todo = <<>>
  BY DEF HandleExit, Serves, Running
<1>2. /\ Typed /\ chan \in Heaps /\ pc \in [T -> PcType] /\ threads \in SUBSET T
      /\ Waits(chan, threads, blocked, pc, blockedOn, abort)
      /\ ServerKept(chan) /\ listeners \subseteq Chans
  BY ServerState
<1>3. CASE ~SenderKnown
  BY <1>3, HaltInv DEF HandleExit
<1>4. CASE SenderKnown
  <2>1. PICK p : p = SenderProcess
    OBVIOUS
  <2>2. PICK D : D = {t \in threads : ProcessOf[t] = p}
    OBVIOUS
  <2>3. PICK dead : dead = SetToSeq(D)
    OBVIOUS
  <2>4. PICK own : own = SetToSeq(Table(p))
    OBVIOUS
  <2>5. /\ todo' = Destroys(own) \o KillsAll(dead)
        /\ pc' = [pc EXCEPT ![Ks] = Returned(Ks)]
        /\ buf' = [buf EXCEPT ![Ks] = Empty]
        /\ UNCHANGED <<chan, threads, blocked, abort, blockedOn, runqueue, current,
                       listeners, links, halted>>
    BY <1>4, <2>1, <2>2, <2>3, <2>4 DEF HandleExit, Destroys, KillsAll
  <2>6. IsFiniteSet(D) /\ D \subseteq T
    <3>1. IsFiniteSet(T)
      BY FS_AddElement DEF IpcAssumption, T
    <3>2. D \in SUBSET T
      BY <1>2, <2>2
    <3> QED
      BY <3>1, <3>2, FS_Subset
  <2>7. IsFiniteSet(Table(p)) /\ Table(p) \subseteq Chans
    <3>1. IsFiniteSet(Chans) /\ Table(p) \in SUBSET Chans
      BY DEF IpcAssumption, Table
    <3> QED
      BY <3>1, FS_Subset
  <2>8. dead \in Seq(D) /\ ToSet(dead) = D
    BY <2>3, <2>6, Listed
  <2>9. own \in Seq(Table(p)) /\ ToSet(own) = Table(p)
    BY <2>4, <2>7, Listed
  <2>10. dead \in Seq(T) /\ own \in Seq(Chans)
    BY <2>6, <2>7, <2>8, <2>9
  <2>11. \A i \in DOMAIN dead : ProcessOf[dead[i]] = p
    BY <2>2, <2>8
  <2>12. PICK H : H = chan
    OBVIOUS
  <2>13. \A c \in Chans : H[c] # Free /\ H[c].owner = p => c \in ToSet(own)
    BY <2>9, <2>12 DEF Table, Live
  <2>14. /\ KillsLast(H, Destroys(own) \o KillsAll(dead))
         /\ Destroys(own) \o KillsAll(dead) \in Seq(Calls \cup Kills)
    BY <2>10, <2>11, <2>13, ExitCalls
  <2>15. KillsLast(chan', todo') /\ todo' \in Seq(Calls \cup Kills)
    BY <2>5, <2>12, <2>14
  <2>16. pc' \in [T -> PcType] /\ \A u \in T \ {Ks} : pc'[u] = pc[u]
    BY <1>2, <2>5, PcTypes
  <2>17. buf' = [u \in T |-> buf'[u]]
    BY <1>2, <2>5, SetBuf
  <2>18. /\ abort' \in [T -> Reasons] /\ blockedOn' \in [T -> Chans \cup {None}]
         /\ links' \in 0..LinkMax /\ listeners' \subseteq Chans
    BY <1>2, <2>5 DEF Typed
  <2>19. /\ chan' \in Heaps /\ Waits(chan', threads, blocked, pc, blockedOn, abort)
         /\ ServerKept(chan')
    BY <1>2, <2>5
  <2>20. PICK k \in threads : k = Ks
    BY <1>1
  <2>21. \A u \in T \ {k} : pc'[u] = pc[u] /\ abort'[u] = abort[u] /\ blockedOn'[u] = blockedOn[u]
    BY <2>5, <2>16, <2>20
  <2>22. UNCHANGED <<threads, blocked, runqueue, current>>
    BY <2>5
  <2> QED
    BY <1>1, <2>15, <2>16, <2>17, <2>18, <2>19, <2>20, <2>21, <2>22, OwnInv
<1> QED
  BY <1>3, <1>4

LEMMA SendReplyInv ==
  ASSUME IpcAssumption, Inv, SendReply
  PROVE  Inv'
<1>1. Ks \in threads /\ current = Ks /\ todo = <<>>
  BY DEF SendReply, Running
<1>2. PICK k \in threads : k = Ks
  BY <1>1
<1>3. PICK c : c = buf[Ks].from
  OBVIOUS
<1>4. CASE c \in Table(Kernel) /\ ~chan[c].destructed
  <2>1. PICK m : m = buf[Ks]
    OBVIOUS
  <2>2. SendPhase(k, c, FALSE, FALSE, m)
    BY <1>2, <1>3, <1>4, <2>1 DEF SendReply
  <2>3. c \in Chans
    BY <1>4 DEF Table
  <2> QED
    BY <1>1, <1>2, <2>2, <2>3, SendPhaseInv
<1>5. CASE ~(c \in Table(Kernel) /\ ~chan[c].destructed)
  <2>1. /\ pc' = [pc EXCEPT ![Ks] = Returned(Ks)]
        /\ buf' = [buf EXCEPT ![Ks] = Empty]
        /\ UNCHANGED <<chan, threads, blocked, abort, blockedOn, runqueue, current,
                       listeners, todo, links>>
    BY <1>3, <1>5 DEF SendReply
  <2>2. PICK x \in PcType : x = Returned(Ks)
    BY PcTypes
  <2>3. PICK m : m = Empty
    OBVIOUS
  <2>4. pc' = [pc EXCEPT ![k] = x] /\ buf' = [buf EXCEPT ![k] = m]
    BY <1>2, <2>1, <2>2, <2>3
  <2> QED
    BY <1>1, <1>2, <2>1, <2>4, ReturnInv
<1> QED
  BY <1>4, <1>5

LEMMA NextRequestInv ==
  ASSUME IpcAssumption, Inv, NextRequest
  PROVE  Inv'
<1>1. /\ Ks \in threads /\ current = Ks /\ todo = <<>>
      /\ UNCHANGED <<threads, abort, buf, listeners, todo, links>>
  BY DEF NextRequest, Running
<1>2. PICK k \in threads : k = Ks
  BY <1>1
<1>3. CASE ServerCh \in Table(Kernel)
  <2>1. ServerCh \in Chans /\ Live(ServerCh) /\ chan[ServerCh].owner = Kernel
    BY <1>3 DEF Table
  <2>2. chan[ServerCh].xfer = ServerCh
    BY <2>1 DEF Inv, ServerKept, Live
  <2>3. ReceivePhase(k, ServerCh, chan, blocked, runqueue)
    BY <1>2, <1>3 DEF NextRequest
  <2>4. PICK c \in Chans : c = ServerCh
    BY <2>1
  <2>5. ReceivePhase(k, c, chan, blocked, runqueue) /\ Live(c) /\ Live(chan[c].xfer)
    BY <2>1, <2>2, <2>3, <2>4
  <2> QED
    BY <1>1, <1>2, <2>5, ReceivePhaseInv
<1>4. CASE ServerCh \notin Table(Kernel)
  <2>1. /\ pc' = [pc EXCEPT ![Ks] = Received(Ks)]
        /\ UNCHANGED <<chan, blocked, blockedOn, runqueue, current>>
    BY <1>4 DEF NextRequest
  <2>2. PICK x \in PcType : x = Received(Ks)
    BY PcTypes
  <2>3. PICK m : m = buf[Ks]
    OBVIOUS
  <2>4. Typed /\ k \in T
    BY DEF Inv, Typed
  <2>5. pc' = [pc EXCEPT ![k] = x]
    BY <1>2, <2>1, <2>2
  <2>6. buf' = [buf EXCEPT ![k] = m]
    BY <1>1, <1>2, <2>3, <2>4 DEF Typed
  <2> QED
    BY <1>1, <1>2, <2>1, <2>5, <2>6, ReturnInv
<1> QED
  BY <1>3, <1>4

-----------------------------------------------------------------------------
(* The channels of boot. *)
LEMMA BootTypes ==
  ASSUME IpcAssumption, NEW c \in Chans
  PROVE  /\ BootChannel(c) \in ChannelType \cup {Free}
         /\ BootChannel(c) # Free => /\ BootChannel(c).queue = <<>>
                                     /\ BootChannel(c).receiver = IF c = ServerCh THEN Ks ELSE None
         /\ c = ServerCh => BootChannel(c) # Free /\ BootChannel(c).xfer = ServerCh
<1>1. Cardinality(Procs) \in Nat
  BY FS_CardinalityType DEF IpcAssumption
<1>2. PICK n \in Nat : n = 1 + Cardinality(Procs)
  BY <1>1
<1>3. <<>> \in Seq(T) /\ Ks \in T /\ ServerCh \in Chans
  BY DEF T, IpcAssumption
<1>5. \A x \in ChannelType : x # Free
  BY DEF ChannelType, Free, IpcAssumption
<1>6. CASE c = ServerCh
  <2>1. BootChannel(c) = [owner |-> Kernel, ref |-> n, destructed |-> FALSE, link |-> c, xfer |-> c,
                          receiver |-> Ks, queue |-> <<>>, notif |-> FALSE]
    BY <1>2, <1>6 DEF BootChannel, NewChannel
  <2>2. BootChannel(c) \in ChannelType
    BY <1>3, <2>1 DEF ChannelType
  <2>3. BootChannel(c).queue = <<>> /\ BootChannel(c).receiver = Ks /\ BootChannel(c).xfer = c
    BY <2>1
  <2>4. BootChannel(c) # Free
    BY <1>5, <2>2
  <2> QED
    BY <1>6, <2>2, <2>3, <2>4
<1>7. CASE c # ServerCh /\ \E p \in Procs : c = KernelEnd[p]
  <2>1. PICK p \in Procs : p = CHOOSE q \in Procs : c = KernelEnd[q]
    BY <1>7
  <2>2. PICK d \in Chans : d = UserEnd[p]
    BY DEF IpcAssumption
  <2>3. BootChannel(c) = [owner |-> Kernel, ref |-> 2, destructed |-> FALSE, link |-> d, xfer |-> ServerCh,
                          receiver |-> None, queue |-> <<>>, notif |-> FALSE]
    BY <1>7, <2>1, <2>2 DEF BootChannel, NewChannel
  <2>4. BootChannel(c) \in ChannelType
    BY <1>3, <2>3 DEF ChannelType
  <2> QED
    BY <1>7, <2>3, <2>4
<1>8. CASE c # ServerCh /\ ~(\E p \in Procs : c = KernelEnd[p]) /\ \E p \in Procs : c = UserEnd[p]
  <2>1. PICK p \in Procs : p = CHOOSE q \in Procs : c = UserEnd[q]
    BY <1>8
  <2>2. PICK d \in Chans : d = KernelEnd[p]
    BY DEF IpcAssumption
  <2>3. BootChannel(c) = [owner |-> p, ref |-> 2, destructed |-> FALSE, link |-> d, xfer |-> c,
                          receiver |-> None, queue |-> <<>>, notif |-> FALSE]
    BY <1>8, <2>1, <2>2 DEF BootChannel, NewChannel
  <2>4. BootChannel(c) \in ChannelType
    BY <1>3, <2>3 DEF ChannelType
  <2> QED
    BY <1>8, <2>3, <2>4
<1>9. CASE c # ServerCh /\ ~(\E p \in Procs : c = KernelEnd[p]) /\ ~(\E p \in Procs : c = UserEnd[p])
  BY <1>9 DEF BootChannel
<1> QED
  BY <1>6, <1>7, <1>8, <1>9

LEMMA InitInv ==
  ASSUME IpcAssumption, Init
  PROVE  Inv
<1>1. /\ chan = [c \in Chans |-> BootChannel(c)]
      /\ threads = T
      /\ blocked = [t \in T |-> t = Ks]
      /\ abort = [t \in T |-> "OK"]
      /\ blockedOn = [t \in T |-> None]
      /\ pc = [t \in T |->
                 IF t = Ks THEN [User EXCEPT !.at = "receiving", !.ch = ServerCh] ELSE User]
      /\ buf = [t \in T |-> Empty]
      /\ listeners = {} /\ todo = <<>> /\ links = 0
  BY DEF Init, T
<1>2. /\ Ks \in T /\ Ks \notin Users /\ None \notin T /\ None \notin Chans /\ ServerCh \in Chans
      /\ Users \subseteq T /\ Idle \notin T /\ LinkMax \in Nat /\ IsFiniteSet(Users) /\ Users # {}
      /\ \A t \in T : t \in Users <=> t # Ks
  BY DEF IpcAssumption, T
<1>3. chan \in Heaps
  BY <1>1, BootTypes DEF Heaps
<1>4. /\ \A c \in Chans : chan[c] # Free =>
           chan[c].queue = <<>> /\ chan[c].receiver = IF c = ServerCh THEN Ks ELSE None
      /\ chan[ServerCh] # Free /\ chan[ServerCh].xfer = ServerCh
  BY <1>1, <1>2, BootTypes
<1>5. \A t \in T : pc[t] \in PcType
  <2>1. PICK x : x = [User EXCEPT !.at = "receiving", !.ch = ServerCh]
    OBVIOUS
  <2>2. x = [at |-> "receiving", ch |-> ServerCh, recv |-> FALSE]
    BY <2>1 DEF User
  <2>3. x \in PcType /\ User \in PcType
    BY <1>2, <2>2, PcTypes DEF PcType, Places, InCall, Receives, Takens
  <2> QED
    BY <1>1, <2>1, <2>3
<1>6. /\ pc[Ks].at = "receiving" /\ pc[Ks].ch = ServerCh
      /\ \A t \in Users : pc[t].at = "user"
  BY <1>1, <1>2 DEF User
<1>7. PICK q \in SetToSeqs(Users) : current = Head(q) /\ runqueue = Tail(q)
  BY DEF Init
<1>8. q \in [1..Cardinality(Users) -> Users] /\ IsInjective(q)
  BY DEF SetToSeqs, IsInjective
<1>9. q \in Seq(Users) /\ ToSet(q) = Users
  BY <1>2, <1>8, ListAll
<1>10. q # <<>> /\ q \in Seq(T)
  BY <1>2, <1>9 DEF ToSet
<1>11. /\ current \in Users /\ runqueue \in Seq(T) /\ IsInjective(runqueue)
       /\ ToSet(runqueue) = Users \ {current}
  BY <1>7, <1>8, <1>9, <1>10, TailSet
<1>12. /\ \A t \in T : blocked[t] <=> t = Ks
       /\ blocked \in [T -> BOOLEAN]
  BY <1>1
<1>13. Scheduled(runqueue, threads, blocked, current)
  BY <1>1, <1>2, <1>11, <1>12 DEF Scheduled
<1>14. Typed
  <2>1. pc \in [T -> PcType]
    BY <1>1, <1>5
  <2>2. abort \in [T -> Reasons] /\ blockedOn \in [T -> Chans \cup {None}]
    BY <1>1 DEF Reasons
  <2>3. buf = [t \in T |-> buf[t]]
    BY <1>1
  <2>4. todo \in Seq(Calls \cup Kills) /\ links \in 0..LinkMax
    BY <1>1, <1>2
  <2>5. threads \subseteq T /\ current \in T \cup {Idle} /\ listeners \subseteq Chans
    BY <1>1, <1>2, <1>11
  <2> QED
    BY <1>3, <1>12, <2>1, <2>2, <2>3, <2>4, <2>5 DEF Typed
<1>15. Receivers(chan, threads, blocked, pc)
  BY <1>1, <1>2, <1>4, <1>6, <1>12 DEF Receivers, Receives
<1>16. Queues(chan, threads, blocked, pc, blockedOn)
  <2>1. ToSet(<<>>) = {} /\ IsInjective(<<>>)
    BY DEF ToSet, IsInjective
  <2>2. \A t \in T : blockedOn[t] = None
    BY <1>1
  <2> QED
    BY <1>1, <1>2, <1>4, <2>1, <2>2 DEF Queues
<1>17. Found(chan, threads, blocked, pc, abort)
  BY <1>1, <1>2, <1>4, <1>6, <1>12 DEF Found
<1>18. Lives(chan, threads)
  BY <1>1 DEF Lives
<1>19. Waits(chan, threads, blocked, pc, blockedOn, abort)
  BY <1>15, <1>16, <1>17, <1>18 DEF Waits
<1>20. KillsLast(chan, todo)
  BY <1>1, NoCalls
<1>21. ServerKept(chan)
  BY <1>4 DEF ServerKept
<1> QED
  BY <1>13, <1>14, <1>19, <1>20, <1>21 DEF Inv

(* Every step keeps the invariant. *)
LEMMA NextInv ==
  ASSUME IpcAssumption, Inv, [Next]_vars
  PROVE  Inv'
<1>1. CASE UNCHANGED vars
  <2>1. UNCHANGED <<chan, threads, blocked, abort, blockedOn, pc, buf, runqueue, current,
                    listeners, todo, links>>
    BY <1>1 DEF vars
  <2>2. Typed'
    BY <2>1 DEF Inv, Typed
  <2> QED
    BY <2>1, <2>2 DEF Inv
<1>2. ASSUME NEW t \in Users,
             \/ SysIpcSend(t) \/ SysIpcRecv(t) \/ SysNotify(t)
             \/ SysOpen(t) \/ SysClose(t) \/ SysLink(t) \/ SysTransfer(t)
      PROVE  Inv'
  BY <1>2, SysIpcSendInv, SysIpcRecvInv, SysNotifyInv, SysOpenInv, SysCloseInv, SysLinkInv,
     SysTransferInv
<1>3. ASSUME NEW t \in T, \/ ResumeSend(t) \/ ResumeReceive(t)
                          \/ PagerReplies(t) \/ ResumeFill(t) \/ AfterFill(t)
      PROVE  Inv'
  BY <1>3, ResumeSendInv, ResumeReceiveInv, PagerRepliesInv, ResumeFillInv, AfterFillInv
<1>4. CASE KernelServer
  BY <1>4, HandleOtherInv, HandleConnectInv, HandleListenInv, HandleGiveInv, HandleExitInv,
     SendReplyInv, NextRequestInv DEF KernelServer
<1>5. CASE Nested
  BY <1>5, NestedInv
<1>6. CASE Interrupt
  BY <1>6, InterruptInv
<1>7. CASE TimerSwitch
  BY <1>7, TimerSwitchInv
<1> QED
  BY <1>1, <1>2, <1>3, <1>4, <1>5, <1>6, <1>7 DEF Next, T

(* The invariant holds in every behaviour of the kernel. *)
THEOREM IpcInductive ==
  ASSUME IpcAssumption
  PROVE  Spec => []Inv
<1>1. Init => Inv
  BY InitInv
<1>2. Inv /\ [Next]_vars => Inv'
  BY NextInv
<1> QED
  BY <1>1, <1>2, PTL DEF Spec

-----------------------------------------------------------------------------
(* What the invariant says. *)

(* The objects of the kernel keep their types, whatever is closed, linked, *)
(* transferred or destroyed.                                               *)
THEOREM IpcTypes ==
  ASSUME IpcAssumption
  PROVE  Spec => []TypeOK
<1>1. Inv => TypeOK
  <2> SUFFICES ASSUME Inv PROVE TypeOK
    OBVIOUS
  <2>1. /\ chan \in Heaps /\ threads \subseteq T /\ current \in T \cup {Idle}
        /\ listeners \subseteq Chans /\ links \in 0..LinkMax /\ runqueue \in Seq(T)
    BY DEF Inv, Typed, Scheduled
  <2>2. \A c \in Chans : Live(c) => chan[c] \in ChannelType
    BY <2>1, LiveType DEF Live
  <2> QED
    BY <2>1, <2>2 DEF TypeOK, ChannelType, T
<1> QED
  BY <1>1, IpcInductive, PTL

(* A thread is in the run queue exactly while it is ready and not current, *)
(* and once: thread_resume, thread_switch and thread_destroy agree.        *)
THEOREM RunqueueIsExact ==
  ASSUME IpcAssumption
  PROVE  Spec => []RunqueueExact
<1>1. Inv => RunqueueExact
  BY DEF Inv, Typed, Scheduled, RunqueueExact
<1> QED
  BY <1>1, IpcInductive, PTL

(* The receiver that a channel names waits on this channel, and is alive   *)
(* while the channel is an open one of its process.                        *)
THEOREM ReceiversWait ==
  ASSUME IpcAssumption
  PROVE  Spec => []ReceiverWaits
<1>1. Inv => ReceiverWaits
  <2> SUFFICES ASSUME Inv, NEW c \in Chans, Live(c), chan[c].receiver # None
               PROVE  LET r == chan[c].receiver
                      IN  /\ ~chan[c].destructed /\ chan[c].owner = ProcessOf[r] => r \in threads
                          /\ r \in threads => blocked[r] /\ Receiving(r) /\ pc[r].ch = c
    BY DEF ReceiverWaits
  <2>1. /\ chan \in Heaps /\ Receivers(chan, threads, blocked, pc) /\ Lives(chan, threads)
    BY DEF Inv, Typed, Waits
  <2>2. PICK r \in T : r = chan[c].receiver
    BY <2>1, LiveType DEF Live, ChannelType
  <2>3. r \in threads => blocked[r] /\ pc[r].at \in Receives /\ pc[r].ch = c
    BY <2>1, <2>2 DEF Receivers, Live
  <2>4. ~chan[c].destructed /\ chan[c].owner = ProcessOf[r] => r \in threads
    BY <2>1, <2>2 DEF Lives, Live
  <2> QED
    BY <2>2, <2>3, <2>4 DEF Receiving, Receives
<1> QED
  BY <1>1, IpcInductive, PTL

(* The sender queue of a channel holds exactly the threads that wait to    *)
(* send to it.                                                             *)
THEOREM QueuesAreExact ==
  ASSUME IpcAssumption
  PROVE  Spec => []QueueExact
<1>1. Inv => QueueExact
  <2> SUFFICES ASSUME Inv, NEW t \in threads, NEW c \in Chans
               PROVE  (Live(c) /\ t \in ToSet(chan[c].queue))
                        <=> (blockedOn[t] = c /\ blocked[t] /\ pc[t].at = "sending")
    BY DEF QueueExact
  <2>1. Queues(chan, threads, blocked, pc, blockedOn)
    BY DEF Inv, Waits
  <2> QED
    BY <2>1 DEF Queues, Live
<1> QED
  BY <1>1, IpcInductive, PTL

(* A thread that waits for a message, and that no sender has taken while   *)
(* it waits for its pager, is named by its channel, or will be told that   *)
(* the channel is closed.                                                  *)
THEOREM WaitsAreFindable ==
  ASSUME IpcAssumption
  PROVE  Spec => []Findable
<1>1. Inv => Findable
  BY DEF Inv, Waits, Found, Findable, Receiving, Receives, Live
<1> QED
  BY <1>1, IpcInductive, PTL

-----------------------------------------------------------------------------
(* Messages. *)

(* A step may write the buffer of the current thread, and of one that a    *)
(* channel names as its receiver.                                          *)
Kept == \A r \in threads : ~blocked[r] /\ current # r => buf'[r] = buf[r]

LEMMA KeepOwn ==
  ASSUME Inv, NEW m, buf' = [buf EXCEPT ![current] = m]
  PROVE  Kept
<1>1. buf = [u \in T |-> buf[u]] /\ threads \subseteq T
  BY DEF Inv, Typed
<1>2. \A u \in T : u # current => buf'[u] = buf[u]
  BY <1>1
<1> QED
  BY <1>1, <1>2 DEF Kept

LEMMA KeepReceiver ==
  ASSUME Inv, NEW c \in Chans, Live(c), NEW r, r = chan[c].receiver, NEW x, NEW m,
         \/ buf' = [buf EXCEPT ![r] = x]
         \/ buf' = [buf EXCEPT ![r] = x, ![current] = m]
  PROVE  Kept
<1>1. buf = [u \in T |-> buf[u]] /\ threads \subseteq T
  BY DEF Inv, Typed
<1>2. r \in threads => blocked[r]
  BY DEF Inv, Waits, Receivers, Live
<1>3. \A u \in T : u # current /\ u # r => buf'[u] = buf[u]
  BY <1>1
<1> QED
  BY <1>1, <1>2, <1>3 DEF Kept

LEMMA KeepHalt ==
  ASSUME NEW reason, Halt(reason)
  PROVE  Kept
  BY DEF Halt, Kept

LEMMA KeepDeliver ==
  ASSUME Inv, NEW t, current = t, NEW c, NEW recv, NEW m, Deliver(t, c, recv, m),
         NEW dst \in Chans, dst = chan[chan[c].link].xfer, Live(dst)
  PROVE  Kept
<1>1. PICK r : r = chan[dst].receiver
  OBVIOUS
<1>2. PICK a : a = [Empty EXCEPT !.hdr = m.hdr, !.from = chan[c].link]
  OBVIOUS
<1>3. PICK b : b = [a EXCEPT !.ch = Fresh(chan)]
  OBVIOUS
<1>4. PICK e : e = Empty
  OBVIOUS
<1>9. PICK f : f = [m EXCEPT !.to = r]
  OBVIOUS
<1>5. \/ buf' = [buf EXCEPT ![r] = a, ![t] = e]
      \/ buf' = [buf EXCEPT ![r] = b, ![t] = e]
      \/ buf' = [buf EXCEPT ![r] = a, ![t] = f]
      \/ Halt("use after free")
  BY <1>1, <1>2, <1>3, <1>4, <1>9 DEF Deliver
<1>6. CASE buf' = [buf EXCEPT ![r] = a, ![t] = e]
  BY <1>1, <1>6, KeepReceiver
<1>7. CASE buf' = [buf EXCEPT ![r] = b, ![t] = e]
  BY <1>1, <1>7, KeepReceiver
<1>10. CASE buf' = [buf EXCEPT ![r] = a, ![t] = f]
  BY <1>1, <1>10, KeepReceiver
<1>8. CASE Halt("use after free")
  BY <1>8, KeepHalt
<1> QED
  BY <1>5, <1>6, <1>7, <1>8, <1>10

LEMMA KeepSend ==
  ASSUME Inv, NEW t, current = t, NEW c \in Chans, NEW recv, NEW noblock, NEW m,
         SendPhase(t, c, recv, noblock, m)
  PROVE  Kept
<1>1. PICK dst : dst = chan[chan[c].link].xfer
  OBVIOUS
<1>2. PICK e : e = Empty
  OBVIOUS
<1>3. \/ Halt("use after free")
      \/ buf' = [buf EXCEPT ![t] = e]
      \/ buf' = [buf EXCEPT ![t] = m]
      \/ Live(c) /\ Live(chan[c].link) /\ Live(dst) /\ Deliver(t, c, recv, m)
  BY <1>1, <1>2 DEF SendPhase
<1>4. CASE Halt("use after free")
  BY <1>4, KeepHalt
<1>5. CASE buf' = [buf EXCEPT ![t] = e]
  BY <1>5, KeepOwn
<1>6. CASE buf' = [buf EXCEPT ![t] = m]
  BY <1>6, KeepOwn
<1>7. CASE Live(c) /\ Live(chan[c].link) /\ Live(dst) /\ Deliver(t, c, recv, m)
  <2>1. chan \in Heaps
    BY DEF Inv, Typed
  <2>2. chan[c].link \in Chans
    BY <1>7, <2>1, LiveType DEF ChannelType, Live
  <2>3. dst \in Chans
    BY <1>1, <1>7, <2>1, <2>2, LiveType DEF ChannelType, Live
  <2> QED
    BY <1>1, <1>7, <2>3, KeepDeliver
<1> QED
  BY <1>3, <1>4, <1>5, <1>6, <1>7

LEMMA KeepFastpath ==
  ASSUME Inv, NEW t, current = t, NEW c \in Chans, Live(c), NEW m, FastpathOk(t, c, m),
         Fastpath(t, c, m)
  PROVE  Kept
<1>1. PICK dst : dst = chan[chan[c].link].xfer
  OBVIOUS
<1>2. Live(chan[c].link) /\ Live(dst)
  BY <1>1 DEF FastpathOk
<1>3. chan \in Heaps
  BY DEF Inv, Typed
<1>4. chan[c].link \in Chans
  BY <1>3, LiveType DEF ChannelType, Live
<1>5. dst \in Chans
  BY <1>1, <1>2, <1>3, <1>4, LiveType DEF ChannelType, Live
<1>6. PICK r : r = chan[dst].receiver
  OBVIOUS
<1>7. PICK a : a = [Empty EXCEPT !.hdr = m.hdr, !.from = chan[c].link]
  OBVIOUS
<1>8. PICK e : e = Empty
  OBVIOUS
<1>9. buf' = [buf EXCEPT ![r] = a, ![t] = e]
  BY <1>1, <1>6, <1>7, <1>8 DEF Fastpath
<1> QED
  BY <1>2, <1>5, <1>6, <1>9, KeepReceiver

LEMMA KeepNotify ==
  ASSUME Inv, NEW c \in Chans, NEW rest, Notify(c, rest)
  PROVE  Kept
<1>1. PICK dst : dst = chan[chan[c].link].xfer
  OBVIOUS
<1>2. PICK r : r = chan[dst].receiver
  OBVIOUS
<1>3. PICK x : x = [[buf[r] EXCEPT !.hdr = "NOTIFICATION"] EXCEPT !.from = None]
  OBVIOUS
<1>4. \/ Halt("use after free")
      \/ buf' = buf
      \/ /\ Live(c) /\ Live(chan[c].link) /\ Live(dst) /\ r \in threads
         /\ buf' = [buf EXCEPT ![r].hdr = "NOTIFICATION", ![r].from = None]
  BY <1>1, <1>2 DEF Notify
<1>5. CASE Halt("use after free")
  BY <1>5, KeepHalt
<1>6. CASE buf' = buf
  BY <1>6 DEF Kept
<1>7. CASE /\ Live(c) /\ Live(chan[c].link) /\ Live(dst) /\ r \in threads
           /\ buf' = [buf EXCEPT ![r].hdr = "NOTIFICATION", ![r].from = None]
  <2>1. chan \in Heaps /\ buf = [u \in T |-> buf[u]] /\ threads \subseteq T
    BY DEF Inv, Typed
  <2>2. chan[c].link \in Chans
    BY <1>7, <2>1, LiveType DEF ChannelType, Live
  <2>3. dst \in Chans
    BY <1>1, <1>7, <2>1, <2>2, LiveType DEF ChannelType, Live
  <2>4. blocked[r]
    BY <1>2, <1>7, <2>3 DEF Inv, Waits, Receivers, Live
  <2>5. \A u \in T : u # r => buf'[u] = buf[u]
    BY <1>7, <2>1
  <2> QED
    BY <2>1, <2>4, <2>5 DEF Kept
<1> QED
  BY <1>4, <1>5, <1>6, <1>7

LEMMA KeepReply ==
  ASSUME Inv, current = Ks, NEW m, Reply(m)
  PROVE  Kept
<1>1. PICK x : x = [m EXCEPT !.from = buf[Ks].from]
  OBVIOUS
<1>2. buf' = [buf EXCEPT ![current] = x]
  BY <1>1 DEF Reply
<1> QED
  BY <1>2, KeepOwn

LEMMA KeepServer ==
  ASSUME Inv, KernelServer
  PROVE  Kept
<1>1. current = Ks
  BY DEF KernelServer, HandleOther, HandleConnect, HandleListen, HandleGive, HandleExit,
         SendReply, NextRequest, Serves, Running
<1>2. CASE HandleOther
  BY <1>1, <1>2, KeepReply DEF HandleOther
<1>3. CASE HandleConnect
  BY <1>1, <1>3, KeepReply, KeepHalt DEF HandleConnect
<1>4. CASE HandleListen
  BY <1>1, <1>4, KeepReply, KeepHalt DEF HandleListen
<1>5. CASE HandleGive
  <2>1. CASE Halt("assertion")
    BY <2>1, KeepHalt
  <2>3. CASE InvalidPid
    BY <1>1, <2>3, KeepReply DEF InvalidPid
  <2>2. ASSUME NEW p \in Procs, SendChannel(buf[Ks].ch, p) PROVE Kept
    <3>1. SendChannel(buf[Ks].ch, p)
      BY <2>2
    <3>2. \/ Reply([Empty EXCEPT !.hdr = "error"]) \/ Reply([Empty EXCEPT !.hdr = "reply"])
          \/ buf' = buf
      BY <3>1 DEF SendChannel
    <3>3. buf' = buf => Kept
      BY DEF Kept
    <3> QED
      BY <1>1, <3>2, <3>3, KeepReply
  <2> QED
    BY <1>5, <2>1, <2>2, <2>3 DEF HandleGive
<1>6. CASE HandleExit
  <2>1. Halt("assertion") \/ buf' = [buf EXCEPT ![Ks] = Empty]
    BY <1>6 DEF HandleExit
  <2> QED
    BY <1>1, <2>1, KeepHalt, KeepOwn
<1>7. CASE SendReply
  <2>1. PICK c : c = buf[Ks].from
    OBVIOUS
  <2>2. \/ c \in Table(Kernel) /\ SendPhase(Ks, c, FALSE, FALSE, buf[Ks])
        \/ buf' = [buf EXCEPT ![Ks] = Empty]
    BY <1>7, <2>1 DEF SendReply
  <2>3. PICK m : m = buf[Ks]
    OBVIOUS
  <2>4. PICK k : k = Ks
    OBVIOUS
  <2>5. ASSUME c \in Table(Kernel), SendPhase(Ks, c, FALSE, FALSE, buf[Ks]) PROVE Kept
    <3>1. SendPhase(k, c, FALSE, FALSE, m) /\ c \in Chans /\ current = k
      BY <1>1, <2>3, <2>4, <2>5 DEF Table
    <3> QED
      BY <3>1, KeepSend
  <2> QED
    BY <1>1, <2>2, <2>5, KeepOwn
<1>8. CASE NextRequest
  BY <1>8 DEF NextRequest, Kept
<1> QED
  BY <1>2, <1>3, <1>4, <1>5, <1>6, <1>7, <1>8 DEF KernelServer

LEMMA KeepUser ==
  ASSUME Inv, NEW t \in Users, SysIpcSend(t) \/ SysIpcRecv(t) \/ SysNotify(t)
  PROVE  Kept
<1>1. CASE SysIpcSend(t)
  <2>1. current = t
    BY <1>1 DEF SysIpcSend, Running
  <2>2. PICK c \in Table(ProcessOf[t]), recv \in BOOLEAN, noblock \in BOOLEAN, m \in Messages(t) :
          IF recv /\ FastpathOk(t, c, m)
          THEN Fastpath(t, c, m)
          ELSE SendPhase(t, c, recv, noblock, m)
    BY <1>1 DEF SysIpcSend
  <2>3. c \in Chans /\ Live(c)
    BY DEF Table
  <2> QED
    BY <2>1, <2>2, <2>3, KeepFastpath, KeepSend
<1>2. CASE SysIpcRecv(t)
  <2>1. buf' = buf
    BY <1>2 DEF SysIpcRecv, Halt
  <2> QED
    BY <2>1 DEF Kept
<1>3. CASE SysNotify(t)
  <2>1. PICK c \in Table(ProcessOf[t]) : Notify(c, <<>>)
    BY <1>3 DEF SysNotify
  <2>2. c \in Chans
    BY DEF Table
  <2> QED
    BY <2>1, <2>2, KeepNotify
<1> QED
  BY <1>1, <1>2, <1>3

LEMMA KeepResumed ==
  ASSUME Inv, NEW t \in T, \/ ResumeSend(t) \/ ResumeReceive(t)
                          \/ PagerReplies(t) \/ ResumeFill(t) \/ AfterFill(t)
  PROVE  Kept
<1>1. PagerReplies(t) \/ current = t
  BY DEF ResumeSend, ResumeReceive, ResumeFill, AfterFill, Running
<1>4. CASE PagerReplies(t)
  BY <1>4 DEF PagerReplies, Kept
<1>5. CASE ResumeFill(t) \/ AfterFill(t)
  <2>1. current = t
    BY <1>5 DEF ResumeFill, AfterFill, Running
  <2>2. \/ Halt("unimplemented") \/ Halt("use after free") \/ buf' = buf
        \/ buf' = [buf EXCEPT ![t] = Empty]
    BY <1>5 DEF ResumeFill, AfterFill
  <2>3. buf' = buf => Kept
    BY DEF Kept
  <2> QED
    BY <2>1, <2>2, <2>3, KeepHalt, KeepOwn
<1>2. CASE ResumeSend(t)
  <2>6. current = t
    BY <1>2 DEF ResumeSend, Running
  <2>1. PICK c : c = pc[t].ch
    OBVIOUS
  <2>2. PICK recv : recv = pc[t].recv
    OBVIOUS
  <2>3. PICK m : m = buf[t]
    OBVIOUS
  <2>4. c \in Chans
    BY <1>2, <2>1 DEF ResumeSend, Running, Inv, Typed, PcType, InCall
  <2>5. buf' = [buf EXCEPT ![t] = Empty] \/ SendPhase(t, c, recv, FALSE, m)
    BY <1>2, <2>1, <2>2, <2>3 DEF ResumeSend
  <2> QED
    BY <2>4, <2>5, <2>6, KeepSend, KeepOwn
<1>3. CASE ResumeReceive(t)
  <2>1. \/ Halt("use after free")
        \/ \E x : buf' = [buf EXCEPT ![t] = x]
    BY <1>3 DEF ResumeReceive
  <2>2. current = t
    BY <1>3 DEF ResumeReceive, Running
  <2> QED
    BY <2>1, <2>2, KeepHalt, KeepOwn
<1> QED
  BY <1>2, <1>3, <1>4, <1>5

LEMMA KeepNested ==
  ASSUME Inv, Nested \/ TimerSwitch \/ Interrupt
  PROVE  Kept
<1>1. CASE Head(todo).op # "irq" \/ TimerSwitch \/ Interrupt
  <2>1. buf' = buf
    BY <1>1 DEF Nested, Destroy, Decref, Pop, Release, Kill, Halt, TimerSwitch, Interrupt
  <2> QED
    BY <2>1 DEF Kept
<1>2. CASE Nested /\ Head(todo).op = "irq"
  <2>1. Head(todo).ch \subseteq Chans
    BY <1>2, NestedTypes DEF Nested
  <2>2. PICK l \in Head(todo).ch :
          Notify(l, IF Head(todo).ch = {l} THEN Tail(todo)
                    ELSE <<[op |-> "irq", ch |-> Head(todo).ch \ {l}]>> \o Tail(todo))
    BY <1>2 DEF Nested
  <2> QED
    BY <2>1, <2>2, KeepNotify
<1> QED
  BY <1>1, <1>2

LEMMA NextKept ==
  ASSUME Inv, Next
  PROVE  KeepsMessages
<1>1. Kept
  <2>1. ASSUME NEW t \in Users,
               SysOpen(t) \/ SysClose(t) \/ SysLink(t) \/ SysTransfer(t)
        PROVE  Kept
    BY <2>1 DEF SysOpen, SysClose, SysLink, SysTransfer, Kept
  <2> QED
    BY <2>1, KeepUser, KeepResumed, KeepServer, KeepNested DEF Next, T
<1> QED
  BY <1>1 DEF Kept, KeepsMessages

(* A message that has reached its receiver is not overwritten before the   *)
(* receiver runs: neither by another sender nor by channel_notify or an    *)
(* interrupt.                                                              *)
THEOREM MessagesAreKept ==
  ASSUME IpcAssumption
  PROVE  Spec => MessageKept
<1>1. Inv /\ [Next]_vars => [KeepsMessages]_vars
  BY NextKept
<1> QED
  BY <1>1, IpcInductive, PTL DEF Spec, MessageKept
=============================================================================
