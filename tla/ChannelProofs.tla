--------------------------- MODULE ChannelProofs ---------------------------
(***************************************************************************)
(* Proofs about module Channel, for every set of processes and ends, any   *)
(* queue length and any size of handle tables and messages.                *)
(***************************************************************************)
EXTENDS Channel, SequenceTheorems, FiniteSetTheorems, TLAPS

-----------------------------------------------------------------------------
(* Types                                                                   *)

(* The strengthening TypeOK needs: RecvHang installs as many handles as    *)
(* the table has ids left, a number only if the table is finite and within *)
(* its limit.                                                              *)
TablesBounded ==
  \A p \in Procs : IsFiniteSet(table[p]) /\ Cardinality(table[p]) <= TableMax

TypeInv == TypeOK /\ TablesBounded

(* A list of handles names ends. *)
LEMMA ListsAreSequences ==
  ASSUME NEW hs \in Lists(Ends, HandlesMax)
  PROVE  /\ hs \in Seq(Ends)
         /\ Len(hs) \in 0..HandlesMax
         /\ DOMAIN hs = 1..Len(hs)
         /\ Range(hs) \subseteq Ends
<1>1. PICK k \in 0..HandlesMax : hs \in [1..k -> Ends]
  BY DEF Lists
<1>2. hs \in Seq(Ends) /\ Len(hs) = k /\ DOMAIN hs = 1..k
  BY <1>1, ChannelAssumption
<1> QED
  BY <1>2, ChannelAssumption DEF Range

(* Fewer handles than before: taking and closing. *)
LEMMA FewerHandles ==
  ASSUME TypeInv, NEW p \in Procs, NEW S,
         table' = [table EXCEPT ![p] = @ \ S]
  PROVE  table' \in [Procs -> SUBSET Ends] /\ TablesBounded'
<1>1. table' \in [Procs -> SUBSET Ends]
  BY DEF TypeInv, TypeOK
<1>2. ASSUME NEW q \in Procs
      PROVE  IsFiniteSet(table'[q]) /\ Cardinality(table'[q]) <= TableMax
  <2>1. table'[q] \subseteq table[q]
    BY DEF TypeInv, TypeOK
  <2>2. IsFiniteSet(table[q]) /\ Cardinality(table[q]) <= TableMax
    BY DEF TypeInv, TablesBounded
  <2>3. /\ IsFiniteSet(table'[q])
        /\ Cardinality(table'[q]) <= Cardinality(table[q])
        /\ Cardinality(table[q]) \in Nat
        /\ Cardinality(table'[q]) \in Nat
    BY <2>1, <2>2, FS_Subset, FS_CardinalityType
  <2> QED
    BY <2>2, <2>3, ChannelAssumption
<1> QED
  BY <1>1, <1>2 DEF TablesBounded

(* More handles, within the limit: creating and receiving. *)
LEMMA MoreHandles ==
  ASSUME TypeInv, NEW p \in Procs, NEW S \in SUBSET Ends, IsFiniteSet(S),
         Cardinality(table[p] \cup S) <= TableMax,
         table' = [table EXCEPT ![p] = @ \cup S]
  PROVE  table' \in [Procs -> SUBSET Ends] /\ TablesBounded'
<1>1. table' \in [Procs -> SUBSET Ends]
  BY DEF TypeInv, TypeOK
<1>2. ASSUME NEW q \in Procs
      PROVE  IsFiniteSet(table'[q]) /\ Cardinality(table'[q]) <= TableMax
  <2>1. CASE q = p
    <3>1. table'[q] = table[p] \cup S
      BY <2>1 DEF TypeInv, TypeOK
    <3>2. IsFiniteSet(table[p])
      BY DEF TypeInv, TablesBounded
    <3> QED
      BY <3>1, <3>2, FS_Union
  <2>2. CASE q # p
    BY <2>2 DEF TypeInv, TypeOK, TablesBounded
  <2> QED
    BY <2>1, <2>2
<1> QED
  BY <1>1, <1>2 DEF TablesBounded

(* The message at the head of a queue, and what is left without it. *)
LEMMA HeadMessage ==
  ASSUME TypeInv, NEW e \in Ends, queue[e] # <<>>
  PROVE  /\ Head(queue[e]) = queue[e][1]
         /\ 1 \in DOMAIN queue[e]
         /\ Head(queue[e]).handles \in Lists(Ends, HandlesMax)
         /\ Tail(queue[e]) \in Seq(MessageEntry)
         /\ Len(Tail(queue[e])) = Len(queue[e]) - 1
         /\ Len(queue[e]) \in Nat \ {0}
         /\ DOMAIN Tail(queue[e]) = 1..(Len(queue[e]) - 1)
         /\ \A i \in DOMAIN Tail(queue[e]) : Tail(queue[e])[i] = queue[e][i + 1]
<1>1. queue[e] \in Seq(MessageEntry)
  BY DEF TypeInv, TypeOK
<1>2. /\ Head(queue[e]) = queue[e][1]
      /\ 1 \in DOMAIN queue[e]
      /\ Head(queue[e]) \in MessageEntry
      /\ Tail(queue[e]) \in Seq(MessageEntry)
      /\ Len(Tail(queue[e])) = Len(queue[e]) - 1
      /\ Len(queue[e]) \in Nat \ {0}
      /\ DOMAIN Tail(queue[e]) = 1..(Len(queue[e]) - 1)
  BY <1>1
<1>3. \A i \in DOMAIN Tail(queue[e]) : Tail(queue[e])[i] = queue[e][i + 1]
  BY <1>1, HeadTailProperties
<1>4. Head(queue[e]).handles \in Lists(Ends, HandlesMax)
  BY <1>2 DEF MessageEntry
<1> QED
  BY <1>2, <1>3, <1>4

(* The first k handles of a message: a finite set of ends, one per slot.   *)
LEMMA FirstHandles ==
  ASSUME NEW hs \in Lists(Ends, HandlesMax), NEW k \in Int, k <= Len(hs)
  PROVE  /\ {hs[i] : i \in 1..k} \in SUBSET Ends
         /\ {hs[i] : i \in 1..k} \subseteq Range(hs)
         /\ IsFiniteSet({hs[i] : i \in 1..k})
         /\ k >= 0 => Cardinality({hs[i] : i \in 1..k}) <= k
<1>1. /\ hs \in [1..Len(hs) -> Ends]
      /\ Len(hs) \in Nat
      /\ DOMAIN hs = 1..Len(hs)
  BY ListsAreSequences
<1>2. 1..k \subseteq 1..Len(hs)
  BY <1>1
<1>3. {hs[i] : i \in 1..k} \in SUBSET Ends /\ {hs[i] : i \in 1..k} \subseteq Range(hs)
  BY <1>1, <1>2 DEF Range
<1> DEFINE f == [i \in 1..k |-> hs[i]]
           T == {hs[i] : i \in 1..k}
<1>4. f \in Surjection(1..k, T)
  BY DEF Surjection
<1>5. IsFiniteSet(1..k) /\ Cardinality(1..k) = IF 1 > k THEN 0 ELSE k - 1 + 1
  BY FS_Interval
<1>6. IsFiniteSet(T) /\ Cardinality(T) <= Cardinality(1..k)
  BY <1>4, <1>5, FS_Surjection
<1> QED
  BY <1>3, <1>5, <1>6

LEMMA InitTypes == Init => TypeInv
<1> SUFFICES ASSUME Init PROVE TypeInv
  OBVIOUS
<1>1. Booted \subseteq Ends
  BY ChannelAssumption DEF Booted
<1>2. queue \in [Ends -> Seq(MessageEntry)] /\ \A e \in Ends : Len(queue[e]) <= QUEUE_LEN_MAX
  BY ChannelAssumption DEF Init
<1>3. TypeOK
  BY <1>1, <1>2, ChannelAssumption DEF Init, TypeOK, Readiness, Results, Halts
<1>4. TablesBounded
  BY ChannelAssumption DEF Init, TablesBounded
<1> QED
  BY <1>3, <1>4 DEF TypeInv

LEMMA CreateTypes ==
  ASSUME TypeInv, NEW p \in Procs, NEW e \in Ends, Create(p, e)
  PROVE  TypeInv'
<1> DEFINE S == {e, Other[e]}
<1>1. S \in SUBSET Ends /\ IsFiniteSet(S) /\ Cardinality(S) <= 2
  <2>1. S \in SUBSET Ends
    BY ChannelAssumption
  <2>2. IsFiniteSet({e}) /\ Cardinality({e}) = 1
    BY FS_Singleton
  <2>3. /\ IsFiniteSet({e} \cup {Other[e]})
        /\ Cardinality({e} \cup {Other[e]}) \in {1, 2}
    BY <2>2, FS_AddElement
  <2>4. S = {e} \cup {Other[e]}
    OBVIOUS
  <2> QED
    BY <2>1, <2>3, <2>4
<1>2. IsFiniteSet(table[p]) /\ Cardinality(table[p]) \in Nat
  BY FS_CardinalityType DEF TypeInv, TablesBounded
<1>3. Cardinality(table[p] \cup S) <= Cardinality(table[p]) + Cardinality(S)
  <2>1. /\ Cardinality(table[p] \cup S) = Cardinality(table[p]) + Cardinality(S) - Cardinality(table[p] \cap S)
        /\ Cardinality(table[p] \cap S) \in Nat
        /\ Cardinality(S) \in Nat
    BY <1>1, <1>2, FS_Union, FS_Intersection, FS_CardinalityType
  <2> QED
    BY <1>2, <2>1
<1>4. Cardinality(table[p] \cup S) \in Nat /\ Cardinality(S) \in Nat
  BY <1>1, <1>2, FS_Union, FS_CardinalityType
<1>5. Cardinality(table[p] \cup S) <= TableMax
  BY <1>1, <1>2, <1>3, <1>4, ChannelAssumption DEF Create
<1>6. table' \in [Procs -> SUBSET Ends] /\ TablesBounded'
  BY <1>1, <1>5, MoreHandles DEF Create
<1> QED
  BY <1>1, <1>6 DEF Create, TypeInv, TypeOK, Results

(* A queue that got one message more, or lost its first one. *)
LEMMA SendTypes ==
  ASSUME TypeInv, NEW p \in Procs, NEW e \in Ends, NEW data \in Data,
         NEW handles \in Lists(Ends, HandlesMax), SendOk(p, e, data, handles)
  PROVE  TypeInv'
<1> DEFINE o == Other[e]
           m == [data |-> data, handles |-> handles]
<1>1. o \in Ends /\ m \in MessageEntry
  BY ChannelAssumption DEF MessageEntry
<1>2. queue' = [queue EXCEPT ![o] = Append(queue[o], m)] /\ Len(queue[o]) < QUEUE_LEN_MAX
  BY DEF SendOk, HasRoom
<1>3. /\ Append(queue[o], m) \in Seq(MessageEntry)
      /\ Len(Append(queue[o], m)) = Len(queue[o]) + 1
      /\ Len(queue[o]) \in Nat
  BY <1>1 DEF TypeInv, TypeOK
<1>4. queue' \in [Ends -> Seq(MessageEntry)]
  BY <1>1, <1>2, <1>3 DEF TypeInv, TypeOK
<1>5. \A q \in Ends : Len(queue'[q]) <= QUEUE_LEN_MAX
  BY <1>1, <1>2, <1>3, ChannelAssumption DEF TypeInv, TypeOK
<1>6. latest' \in [Ends -> SUBSET Readiness]
  BY <1>1 DEF SendOk, ReadinessAfterPush, TypeInv, TypeOK, Readiness
<1>7. table' \in [Procs -> SUBSET Ends] /\ TablesBounded'
  BY FewerHandles DEF SendOk, TakeHandles
<1> QED
  BY <1>4, <1>5, <1>6, <1>7 DEF SendOk, TypeInv, TypeOK, Results

LEMMA PopTypes ==
  ASSUME TypeInv, NEW p \in Procs, NEW e \in Ends, PopMessage(p, e)
  PROVE  /\ queue' \in [Ends -> Seq(MessageEntry)]
         /\ \A q \in Ends : Len(queue'[q]) <= QUEUE_LEN_MAX
         /\ ReadinessAfterPop(e) \in SUBSET Readiness
<1>1. /\ queue[e] # <<>>
      /\ queue' = [queue EXCEPT ![e] = Tail(queue[e])]
  BY DEF PopMessage
<1>2. /\ Tail(queue[e]) \in Seq(MessageEntry)
      /\ Len(Tail(queue[e])) = Len(queue[e]) - 1
      /\ Len(queue[e]) \in Nat \ {0}
  BY <1>1, HeadMessage
<1>3. queue' \in [Ends -> Seq(MessageEntry)]
  BY <1>1, <1>2 DEF TypeInv, TypeOK
<1>4. \A q \in Ends : Len(queue'[q]) <= QUEUE_LEN_MAX
  BY <1>1, <1>2, ChannelAssumption DEF TypeInv, TypeOK
<1>5. ReadinessAfterPop(e) \in SUBSET Readiness
  BY DEF ReadinessAfterPop, TypeInv, TypeOK
<1> QED
  BY <1>3, <1>4, <1>5

(* What the three ways a receive can take a message have in common: the    *)
(* first k handles of the message are installed, within the table's limit. *)
Installs(p, e, k) ==
  LET hs == Head(queue[e]).handles
  IN  /\ PopMessage(p, e)
      /\ k \in Int
      /\ k <= Len(hs)
      /\ table' = [table EXCEPT ![p] = @ \cup {hs[i] : i \in 1..k}]
      /\ Cardinality(table[p] \cup {hs[i] : i \in 1..k}) <= TableMax
      /\ \/ latest' = [latest EXCEPT ![e] = ReadinessAfterPop(e) \cup {"WRITABLE"}]
         \/ latest' = [latest EXCEPT ![e] = ReadinessAfterPop(e)]
      /\ UNCHANGED <<created, connected, running, exiting>>
      /\ result' \in Results
      /\ halted' \in Halts

LEMMA RecvOkInstalls ==
  ASSUME TypeInv, NEW p \in Procs, NEW e \in Ends, RecvOk(p, e)
  PROVE  Installs(p, e, Len(Head(queue[e]).handles))
<1> DEFINE hs == Head(queue[e]).handles
<1>1. hs \in Lists(Ends, HandlesMax)
  BY HeadMessage DEF RecvOk, PopMessage
<1>2. Len(hs) \in Nat /\ DOMAIN hs = 1..Len(hs)
  BY <1>1, ListsAreSequences
<1>3. Range(hs) = {hs[i] : i \in 1..Len(hs)}
  BY <1>2 DEF Range
<1>4. Len(hs) \in Int /\ Len(hs) <= Len(hs)
  BY <1>2
<1>5. /\ Cardinality(table[p] \cup {hs[i] : i \in 1..Len(hs)}) <= TableMax
      /\ table' = [table EXCEPT ![p] = @ \cup {hs[i] : i \in 1..Len(hs)}]
  BY <1>3 DEF RecvOk
<1> QED
  BY <1>4, <1>5 DEF RecvOk, Installs, TypeInv, TypeOK, Results

LEMMA RecvFailInstalls ==
  ASSUME TypeInv, NEW p \in Procs, NEW e \in Ends, NEW k \in 0..HandlesMax, RecvFail(p, e, k)
  PROVE  Installs(p, e, k)
<1> DEFINE hs == Head(queue[e]).handles
<1>1. hs \in Lists(Ends, HandlesMax)
  BY HeadMessage DEF RecvFail, PopMessage
<1>2. Len(hs) \in Nat /\ DOMAIN hs = 1..Len(hs)
  BY <1>1, ListsAreSequences
<1>3. k \in Int /\ k <= Len(hs)
  BY <1>2, ChannelAssumption DEF RecvFail
<1> QED
  BY <1>3 DEF RecvFail, Installs, TypeInv, TypeOK, Results

LEMMA RecvHangInstalls ==
  ASSUME TypeInv, NEW p \in Procs, NEW e \in Ends, RecvHang(p, e)
  PROVE  Installs(p, e, TableMax - Cardinality(table[p]))
<1> DEFINE hs == Head(queue[e]).handles
           k  == TableMax - Cardinality(table[p])
           S  == {hs[i] : i \in 1..k}
<1>1. hs \in Lists(Ends, HandlesMax)
  BY HeadMessage DEF RecvHang, PopMessage
<1>2. Len(hs) \in Nat /\ DOMAIN hs = 1..Len(hs)
  BY <1>1, ListsAreSequences
<1>3. /\ IsFiniteSet(table[p])
      /\ Cardinality(table[p]) \in Nat
      /\ Cardinality(table[p]) <= TableMax
  BY FS_CardinalityType DEF TypeInv, TablesBounded
<1>4. k \in Nat /\ k <= Len(hs)
  BY <1>2, <1>3, ChannelAssumption DEF RecvHang
<1>5. IsFiniteSet(S) /\ Cardinality(S) <= k /\ Cardinality(S) \in Nat
  <2> HIDE DEF hs, k
  <2>1. IsFiniteSet(S) /\ Cardinality(S) <= k
    BY <1>1, <1>4, FirstHandles
  <2> QED
    BY <2>1, FS_CardinalityType
<1>6. /\ Cardinality(table[p] \cup S) = Cardinality(table[p]) + Cardinality(S) - Cardinality(table[p] \cap S)
      /\ Cardinality(table[p] \cap S) \in Nat
  BY <1>3, <1>5, FS_Union, FS_Intersection, FS_CardinalityType
<1>7. Cardinality(table[p] \cup S) <= TableMax
  BY <1>3, <1>5, <1>6, ChannelAssumption
<1> QED
  BY <1>4, <1>7 DEF RecvHang, Installs, Results, Halts

LEMMA InstallTypes ==
  ASSUME TypeInv, NEW p \in Procs, NEW e \in Ends, NEW k, Installs(p, e, k)
  PROVE  TypeInv'
<1> DEFINE hs == Head(queue[e]).handles
           S  == {hs[i] : i \in 1..k}
<1>1. hs \in Lists(Ends, HandlesMax)
  BY HeadMessage DEF Installs, PopMessage
<1>2. S \in SUBSET Ends /\ IsFiniteSet(S)
  BY <1>1, FirstHandles DEF Installs
<1>3. table' \in [Procs -> SUBSET Ends] /\ TablesBounded'
  BY <1>2, MoreHandles DEF Installs
<1>4. /\ queue' \in [Ends -> Seq(MessageEntry)]
      /\ \A q \in Ends : Len(queue'[q]) <= QUEUE_LEN_MAX
      /\ ReadinessAfterPop(e) \in SUBSET Readiness
  BY PopTypes DEF Installs
<1>5. latest' \in [Ends -> SUBSET Readiness]
  <2>1. PICK X \in SUBSET Readiness : latest' = [latest EXCEPT ![e] = X]
    <3>1. ReadinessAfterPop(e) \cup {"WRITABLE"} \in SUBSET Readiness
      BY <1>4 DEF Readiness
    <3> QED
      BY <1>4, <3>1 DEF Installs
  <2> QED
    BY <2>1 DEF TypeInv, TypeOK
<1> QED
  BY <1>3, <1>4, <1>5 DEF Installs, TypeInv, TypeOK

(* The kinds of steps: for the invariants it does not matter which of the  *)
(* receives took a message, or whether a handle was closed by its holder   *)
(* or by the exit of its process.                                          *)
Quiet ==
  /\ UNCHANGED <<created, table, connected, queue, latest>>
  /\ running' \subseteq Procs
  /\ exiting' \in Procs \cup {Nobody}
  /\ result' \in Results
  /\ halted' \in Halts

Closes(p, e) ==
  /\ e \in table[p]
  /\ CloseEnd(p, e)
  /\ UNCHANGED <<created, queue, running, exiting, halted>>
  /\ result' \in Results

LEMMA CloseTypes ==
  ASSUME TypeInv, NEW p \in Procs, NEW e \in Ends, Closes(p, e)
  PROVE  TypeInv'
<1>1. table' \in [Procs -> SUBSET Ends] /\ TablesBounded'
  BY FewerHandles DEF Closes, CloseEnd
<1>2. latest' \in [Ends -> SUBSET Readiness]
  BY ChannelAssumption DEF Closes, CloseEnd, PeerTold, TypeInv, TypeOK, Readiness
<1>3. connected' \subseteq Ends
  BY DEF Closes, CloseEnd, Disconnect, TypeInv, TypeOK
<1> QED
  BY <1>1, <1>2, <1>3 DEF Closes, TypeInv, TypeOK

LEMMA StepKinds ==
  ASSUME TypeInv, [Next]_vars
  PROVE  \/ \E p \in Procs, e \in Ends : Create(p, e)
         \/ \E p \in Procs, e \in Ends, data \in Data, handles \in Lists(Ends, HandlesMax) :
              SendOk(p, e, data, handles)
         \/ \E p \in Procs, e \in Ends, handles \in Lists(Ends, HandlesMax) :
              SendFail(p, e, handles)
         \/ \E p \in Procs, e \in Ends, k \in Int :
              Installs(p, e, k)
         \/ \E p \in Procs, e \in Ends : Closes(p, e)
         \/ Quiet
<1>1. ASSUME NEW p \in Procs, NEW e \in Ends, NEW handles \in Lists(Ends, HandlesMax),
             SendRepeated(p, e, handles)
      PROVE  Quiet
  BY <1>1 DEF SendRepeated, Quiet, TypeInv, TypeOK, Results, Halts
<1>2. ASSUME NEW p \in Procs, NEW e \in Ends, Recv(p, e)
      PROVE  \/ \E k \in Int : Installs(p, e, k)
             \/ Quiet
  <2>1. CASE RecvNone(p, e)
    BY <2>1 DEF RecvNone, Quiet, TypeInv, TypeOK, Results
  <2>2. CASE RecvOk(p, e)
    <3>1. Installs(p, e, Len(Head(queue[e]).handles))
      BY <2>2, RecvOkInstalls
    <3> QED
      BY <3>1 DEF Installs
  <2>3. ASSUME NEW k \in 0..HandlesMax, RecvFail(p, e, k)
        PROVE  Installs(p, e, k)
    BY <2>3, RecvFailInstalls
  <2>4. CASE RecvHang(p, e)
    <3>1. Installs(p, e, TableMax - Cardinality(table[p]))
      BY <2>4, RecvHangInstalls
    <3> QED
      BY <3>1 DEF Installs
  <2> QED
    BY <1>2, <2>1, <2>2, <2>3, <2>4 DEF Recv
<1>3. ASSUME NEW p \in Procs, NEW e \in Ends, Close(p, e) \/ CloseAll(p, e)
      PROVE  Closes(p, e)
  BY <1>3 DEF Closes, Close, CloseAll, Syscall, TypeInv, TypeOK, Results
<1>4. ASSUME NEW p \in Procs, CreateHang(p) \/ ProcessExit(p) \/ Exited(p)
      PROVE  Quiet
  BY <1>4 DEF CreateHang, ProcessExit, Exited, Quiet, TypeInv, TypeOK, Results, Halts
<1>5. CASE UNCHANGED vars
  BY <1>5 DEF vars, Quiet, TypeInv, TypeOK
<1>6. ASSUME NEW p \in Procs, NEW e \in Ends, Send(p, e)
      PROVE  \/ \E data \in Data, handles \in Lists(Ends, HandlesMax) : SendOk(p, e, data, handles)
             \/ \E handles \in Lists(Ends, HandlesMax) : SendFail(p, e, handles)
             \/ \E handles \in Lists(Ends, HandlesMax) : SendRepeated(p, e, handles)
  BY <1>6 DEF Send
<1>7. CASE Next
  <2>1. PICK p \in Procs :
          \/ \E e \in Ends : Create(p, e) \/ Send(p, e) \/ Recv(p, e) \/ Close(p, e) \/ CloseAll(p, e)
          \/ CreateHang(p)
          \/ ProcessExit(p)
          \/ Exited(p)
    BY <1>7 DEF Next
  <2>2. CASE CreateHang(p) \/ ProcessExit(p) \/ Exited(p)
    BY <1>4, <2>2
  <2>3. ASSUME NEW e \in Ends, Create(p, e)
        PROVE  \E q \in Procs, f \in Ends : Create(q, f)
    BY <2>3
  <2>4. ASSUME NEW e \in Ends, Send(p, e)
        PROVE  \/ \E q \in Procs, f \in Ends, data \in Data, handles \in Lists(Ends, HandlesMax) :
                    SendOk(q, f, data, handles)
               \/ \E q \in Procs, f \in Ends, handles \in Lists(Ends, HandlesMax) :
                    SendFail(q, f, handles)
               \/ Quiet
    BY <1>1, <1>6, <2>4
  <2>5. ASSUME NEW e \in Ends, Recv(p, e)
        PROVE  \/ \E q \in Procs, f \in Ends, k \in Int :
                    Installs(q, f, k)
               \/ Quiet
    BY <1>2, <2>5
  <2>6. ASSUME NEW e \in Ends, Close(p, e) \/ CloseAll(p, e)
        PROVE  \E q \in Procs, f \in Ends : Closes(q, f)
    BY <1>3, <2>6
  <2> QED
    BY <2>1, <2>2, <2>3, <2>4, <2>5, <2>6
<1> QED
  BY <1>5, <1>7

LEMMA TypeStep == TypeInv /\ [Next]_vars => TypeInv'
<1> SUFFICES ASSUME TypeInv, [Next]_vars PROVE TypeInv'
  OBVIOUS
<1>1. ASSUME NEW p \in Procs, NEW e \in Ends, NEW handles \in Lists(Ends, HandlesMax),
             SendFail(p, e, handles)
      PROVE  TypeInv'
  <2>1. table' \in [Procs -> SUBSET Ends] /\ TablesBounded'
    BY <1>1, FewerHandles DEF SendFail, TakeHandles
  <2> QED
    BY <1>1, <2>1 DEF SendFail, TypeInv, TypeOK, Results
<1>2. CASE Quiet
  BY <1>2 DEF Quiet, TypeInv, TypeOK, TablesBounded
<1> QED
  BY <1>1, <1>2, StepKinds, CreateTypes, SendTypes, InstallTypes, CloseTypes

(* Every variable keeps its type and no queue exceeds QUEUE_LEN_MAX,       *)
(* whatever sends, receives and exits fail half way.                       *)
THEOREM ChannelTypeCorrect == Spec => []TypeOK
<1>1. Init => TypeInv
  BY InitTypes
<1>2. TypeInv /\ [Next]_vars => TypeInv'
  BY TypeStep
<1>3. TypeInv => TypeOK
  BY DEF TypeInv
<1> QED
  BY <1>1, <1>2, <1>3, PTL DEF Spec

-----------------------------------------------------------------------------
(* Readiness and closing                                                   *)

(* The two readiness properties and PeersAgree are each inductive once the *)
(* types are known.                                                        *)
ReadyInv == TypeInv /\ ReadableExact /\ FullNotWritable /\ PeersAgree

LEMMA InitReady == Init => ReadyInv
<1> SUFFICES ASSUME Init PROVE ReadyInv
  OBVIOUS
<1>1. ReadableExact
  BY DEF Init, ReadableExact
<1>2. FullNotWritable
  BY ChannelAssumption DEF Init, FullNotWritable
<1>3. PeersAgree
  <2>1. ASSUME NEW e \in Booted
        PROVE  Other[e] \in Booted
    <3>1. PICK p \in Procs : e \in BootTable[p]
      BY DEF Booted
    <3>2. PICK q \in Procs : Other[e] \in BootTable[q]
      BY <3>1, ChannelAssumption
    <3> QED
      BY <3>2 DEF Booted
  <2> QED
    BY <2>1 DEF Init, PeersAgree
<1> QED
  BY <1>1, <1>2, <1>3, InitTypes DEF ReadyInv

LEMMA SendReady ==
  ASSUME ReadyInv, NEW p \in Procs, NEW e \in Ends, NEW data \in Data,
         NEW handles \in Lists(Ends, HandlesMax), SendOk(p, e, data, handles)
  PROVE  ReadableExact' /\ FullNotWritable' /\ PeersAgree'
<1> DEFINE o == Other[e]
           m == [data |-> data, handles |-> handles]
<1>1. TypeInv /\ o \in Ends /\ m \in MessageEntry
  BY ChannelAssumption DEF ReadyInv, MessageEntry
<1>2. /\ queue' = [queue EXCEPT ![o] = Append(queue[o], m)]
      /\ latest' = [latest EXCEPT ![o] = ReadinessAfterPush(o)]
      /\ connected' = connected
  BY DEF SendOk
<1>3. /\ queue'[o] # <<>>
      /\ Len(queue'[o]) = Len(queue[o]) + 1
      /\ latest'[o] = ReadinessAfterPush(o)
      /\ \A q \in Ends \ {o} : queue'[q] = queue[q] /\ latest'[q] = latest[q]
  <2> HIDE DEF o, m
  <2>1. queue[o] \in Seq(MessageEntry)
    BY <1>1 DEF TypeInv, TypeOK
  <2>2. /\ Append(queue[o], m) # <<>>
        /\ Len(Append(queue[o], m)) = Len(queue[o]) + 1
    BY <1>1, <2>1, AppendProperties
  <2>3. queue'[o] = Append(queue[o], m) /\ latest'[o] = ReadinessAfterPush(o)
    BY <1>1, <1>2 DEF TypeInv, TypeOK
  <2>4. \A q \in Ends \ {o} : queue'[q] = queue[q] /\ latest'[q] = latest[q]
    BY <1>1, <1>2 DEF TypeInv, TypeOK
  <2> QED
    BY <2>2, <2>3, <2>4
<1>4. ReadableExact'
  <2>1. "READABLE" \in latest'[o]
    BY <1>3 DEF ReadinessAfterPush
  <2> QED
    BY <1>3, <2>1 DEF ReadyInv, ReadableExact
<1>5. FullNotWritable'
  <2>1. Len(queue'[o]) = QUEUE_LEN_MAX => "WRITABLE" \notin latest'[o]
    BY <1>3 DEF ReadinessAfterPush
  <2> QED
    BY <1>3, <2>1 DEF ReadyInv, FullNotWritable
<1> QED
  BY <1>2, <1>4, <1>5 DEF ReadyInv, PeersAgree

LEMMA InstallReady ==
  ASSUME ReadyInv, NEW p \in Procs, NEW e \in Ends, NEW k, Installs(p, e, k)
  PROVE  ReadableExact' /\ FullNotWritable' /\ PeersAgree'
<1>1. TypeInv /\ queue[e] # <<>>
  BY DEF ReadyInv, Installs, PopMessage
<1>2. /\ queue'[e] = Tail(queue[e])
      /\ Len(queue'[e]) = Len(queue[e]) - 1
      /\ Len(queue[e]) \in Nat
      /\ Len(queue[e]) <= QUEUE_LEN_MAX
      /\ \A q \in Ends \ {e} : queue'[q] = queue[q]
      /\ connected' = connected
  BY <1>1, HeadMessage DEF Installs, PopMessage, TypeInv, TypeOK
<1>3. /\ \/ latest'[e] = ReadinessAfterPop(e)
         \/ latest'[e] = ReadinessAfterPop(e) \cup {"WRITABLE"}
      /\ \A q \in Ends \ {e} : latest'[q] = latest[q]
  BY <1>1 DEF Installs, TypeInv, TypeOK
<1>4. ReadableExact'
  <2>1. "READABLE" \in latest[e]
    BY <1>1 DEF ReadyInv, ReadableExact
  <2>2. "READABLE" \in latest'[e] <=> queue'[e] # <<>>
    BY <1>2, <1>3, <2>1 DEF ReadinessAfterPop
  <2> QED
    BY <1>2, <1>3, <2>2 DEF ReadyInv, ReadableExact
<1>5. FullNotWritable'
  <2>1. Len(queue'[e]) # QUEUE_LEN_MAX
    BY <1>2, ChannelAssumption
  <2> QED
    BY <1>2, <1>3, <2>1 DEF ReadyInv, FullNotWritable
<1> QED
  BY <1>2, <1>4, <1>5 DEF ReadyInv, PeersAgree

LEMMA CloseReady ==
  ASSUME ReadyInv, NEW p \in Procs, NEW e \in Ends, Closes(p, e)
  PROVE  ReadableExact' /\ FullNotWritable' /\ PeersAgree'
<1>1. queue' = queue /\ connected' = connected \ {e, Other[e]} /\ latest' = PeerTold(e)
  BY DEF Closes, CloseEnd, Disconnect
<1>2. \A q \in Ends : latest'[q] \in {latest[q], latest[q] \cup {"PEER_CLOSED"}}
  BY <1>1, ChannelAssumption DEF PeerTold, ReadyInv, TypeInv, TypeOK
<1>3. \A q \in Ends : /\ "READABLE" \in latest'[q] <=> "READABLE" \in latest[q]
                      /\ "WRITABLE" \in latest'[q] <=> "WRITABLE" \in latest[q]
  BY <1>2
<1>4. PeersAgree'
  BY <1>1, ChannelAssumption DEF ReadyInv, PeersAgree
<1> QED
  BY <1>1, <1>3, <1>4 DEF ReadyInv, ReadableExact, FullNotWritable

LEMMA ReadyStep == ReadyInv /\ [Next]_vars => ReadyInv'
<1> SUFFICES ASSUME ReadyInv, [Next]_vars PROVE ReadyInv'
  OBVIOUS
<1>1. TypeInv /\ TypeInv'
  BY TypeStep DEF ReadyInv
<1>2. ASSUME NEW p \in Procs, NEW e \in Ends, Create(p, e)
      PROVE  ReadableExact' /\ FullNotWritable' /\ PeersAgree'
  BY <1>2, ChannelAssumption DEF Create, ReadyInv, ReadableExact, FullNotWritable, PeersAgree
<1>3. ASSUME NEW p \in Procs, NEW e \in Ends, NEW handles \in Lists(Ends, HandlesMax),
             SendFail(p, e, handles)
      PROVE  ReadableExact' /\ FullNotWritable' /\ PeersAgree'
  BY <1>3 DEF SendFail, ReadyInv, ReadableExact, FullNotWritable, PeersAgree
<1>4. CASE Quiet
  BY <1>1, <1>4 DEF Quiet, ReadyInv, ReadableExact, FullNotWritable, PeersAgree
<1>5. ReadableExact' /\ FullNotWritable' /\ PeersAgree'
  <2>1. ASSUME Quiet
        PROVE  ReadableExact' /\ FullNotWritable' /\ PeersAgree'
    BY <1>4, <2>1 DEF ReadyInv
  <2> QED
    BY <1>1, <1>2, <1>3, <2>1, StepKinds, SendReady, InstallReady, CloseReady
<1> QED
  BY <1>1, <1>5 DEF ReadyInv

LEMMA ReadyAlways == Spec => []ReadyInv
<1>1. Init => ReadyInv
  BY InitReady
<1>2. ReadyInv /\ [Next]_vars => ReadyInv'
  BY ReadyStep
<1> QED
  BY <1>1, <1>2, PTL DEF Spec

(* READABLE is up exactly when there is a message to read, for any         *)
(* interleaving of processes and any failed sends and receives.            *)
THEOREM ReadableIsExact == Spec => []ReadableExact
<1>1. ReadyInv => ReadableExact
  BY DEF ReadyInv
<1> QED
  BY <1>1, ReadyAlways, PTL

(* A full queue is never advertised as writable by its own end. *)
THEOREM FullIsNotWritable == Spec => []FullNotWritable
<1>1. ReadyInv => FullNotWritable
  BY DEF ReadyInv
<1> QED
  BY <1>1, ReadyAlways, PTL

(* Both ends of a pair are connected or neither is, also half way through  *)
(* the exit of a process that holds both.                                  *)
THEOREM PeersDisconnectTogether == Spec => []PeersAgree
<1>1. ReadyInv => PeersAgree
  BY DEF ReadyInv
<1> QED
  BY <1>1, ReadyAlways, PTL

-----------------------------------------------------------------------------
(* Ownership                                                               *)

(* SingleOwner, said of slots of messages. *)
OwnedOnce ==
  /\ \A x \in Ends, p \in Procs : InTable(x, p) => x \in created
  /\ \A x, q \in Ends : \A i, k : InMessage(x, q, i, k) => x \in created
  /\ \A x \in Ends, p, q \in Procs : InTable(x, p) /\ InTable(x, q) => p = q
  /\ \A x, q \in Ends, p \in Procs : \A i, k : ~(InTable(x, p) /\ InMessage(x, q, i, k))
  /\ \A x, q, r \in Ends : \A i, j, k, m :
       InMessage(x, q, i, k) /\ InMessage(x, r, j, m) => q = r /\ i = j /\ k = m

LEMMA HeldForm ==
  ASSUME NEW x \in Ends
  PROVE  Held(x) <=> \/ \E p \in Procs : InTable(x, p)
                     \/ \E q \in Ends : \E i, k : InMessage(x, q, i, k)
BY DEF Held, InMessage, Range

LEMMA OwnerForm == SingleOwner <=> OwnedOnce
<1>1. ASSUME SingleOwner
      PROVE  OwnedOnce
  <2>1. \A x \in Ends : Held(x) => x \in created
    BY <1>1 DEF SingleOwner
  <2>2. \A x \in Ends, p \in Procs : InTable(x, p) => x \in created
    BY <2>1, HeldForm
  <2>3. \A x, q \in Ends : \A i, k : InMessage(x, q, i, k) => x \in created
    BY <2>1, HeldForm
  <2>4. ASSUME NEW x \in Ends, NEW q \in Ends, NEW p \in Procs, NEW i, NEW k,
               InTable(x, p), InMessage(x, q, i, k)
        PROVE  FALSE
    <3>1. i \in DOMAIN queue[q] /\ x \in Range(queue[q][i].handles)
      BY <2>4 DEF InMessage, Range
    <3> QED
      BY <1>1, <2>4, <3>1 DEF SingleOwner
  <2>5. ASSUME NEW x \in Ends, NEW q \in Ends, NEW r \in Ends, NEW i, NEW j, NEW k, NEW m,
               InMessage(x, q, i, k), InMessage(x, r, j, m)
        PROVE  q = r /\ i = j /\ k = m
    <3>1. /\ i \in DOMAIN queue[q] /\ k \in DOMAIN queue[q][i].handles
          /\ j \in DOMAIN queue[r] /\ m \in DOMAIN queue[r][j].handles
      BY <2>5 DEF InMessage
    <3> QED
      BY <1>1, <2>5, <3>1 DEF SingleOwner
  <2>6. \A x \in Ends, p, q \in Procs : InTable(x, p) /\ InTable(x, q) => p = q
    BY <1>1 DEF SingleOwner
  <2> QED
    BY <2>2, <2>3, <2>4, <2>5, <2>6 DEF OwnedOnce
<1>2. ASSUME OwnedOnce
      PROVE  SingleOwner
  <2>1. ASSUME NEW x \in Ends, Held(x)
        PROVE  x \in created
    BY <1>2, <2>1, HeldForm DEF OwnedOnce
  <2>2. ASSUME NEW x \in Ends, NEW p \in Procs, NEW q \in Ends, NEW i \in DOMAIN queue[q],
               InTable(x, p), x \in Range(queue[q][i].handles)
        PROVE  FALSE
    <3>1. \E k : InMessage(x, q, i, k)
      BY <2>2 DEF InMessage, Range
    <3> QED
      BY <1>2, <2>2, <3>1 DEF OwnedOnce
  <2>3. \A x, q, r \in Ends : \A i \in DOMAIN queue[q], j \in DOMAIN queue[r] :
          \A k \in DOMAIN queue[q][i].handles, m \in DOMAIN queue[r][j].handles :
            InMessage(x, q, i, k) /\ InMessage(x, r, j, m) => q = r /\ i = j /\ k = m
    BY <1>2 DEF OwnedOnce
  <2>4. \A x \in Ends, p, q \in Procs : InTable(x, p) /\ InTable(x, q) => p = q
    BY <1>2 DEF OwnedOnce
  <2> QED
    BY <2>1, <2>2, <2>3, <2>4 DEF SingleOwner
<1> QED
  BY <1>1, <1>2

(* Sending adds the slots of the new message, at the end of one queue. *)
LEMMA SlotsAfterSend ==
  ASSUME TypeInv, NEW p \in Procs, NEW e \in Ends, NEW data \in Data,
         NEW handles \in Lists(Ends, HandlesMax), SendOk(p, e, data, handles),
         NEW x \in Ends, NEW q \in Ends, NEW i, NEW k, InMessage(x, q, i, k)'
  PROVE  \/ InMessage(x, q, i, k)
         \/ /\ q = Other[e] /\ i = Len(queue[q]) + 1
            /\ k \in DOMAIN handles /\ handles[k] = x
<1> DEFINE o == Other[e]
           m == [data |-> data, handles |-> handles]
<1>1. o \in Ends /\ m \in MessageEntry /\ m.handles = handles
  BY ChannelAssumption DEF MessageEntry
<1>2. queue' = [queue EXCEPT ![o] = Append(queue[o], m)]
  BY DEF SendOk
<1>3. CASE q # o
  BY <1>1, <1>2, <1>3 DEF InMessage, TypeInv, TypeOK
<1>4. CASE q = o
  <2> HIDE DEF o, m
  <2>1. queue[o] \in Seq(MessageEntry) /\ queue'[o] = Append(queue[o], m)
    BY <1>1, <1>2 DEF TypeInv, TypeOK
  <2>2. /\ DOMAIN queue'[o] = 1..(Len(queue[o]) + 1)
        /\ DOMAIN queue[o] = 1..Len(queue[o])
        /\ Len(queue[o]) \in Nat
        /\ \A j \in 1..Len(queue[o]) : queue'[o][j] = queue[o][j]
        /\ queue'[o][Len(queue[o]) + 1] = m
    BY <1>1, <2>1, AppendProperties, LenProperties
  <2>3. /\ i \in 1..(Len(queue[o]) + 1)
        /\ k \in DOMAIN queue'[o][i].handles
        /\ queue'[o][i].handles[k] = x
    BY <1>4, <2>2 DEF InMessage
  <2>4. CASE i \in 1..Len(queue[o])
    BY <1>4, <2>2, <2>3, <2>4 DEF InMessage
  <2>5. CASE i = Len(queue[o]) + 1
    BY <1>1, <1>4, <2>2, <2>3, <2>5 DEF o
  <2> QED
    BY <2>2, <2>3, <2>4, <2>5
<1> QED
  BY <1>3, <1>4

(* Receiving takes the first message away and moves the others up. *)
LEMMA SlotsAfterPop ==
  ASSUME TypeInv, NEW p \in Procs, NEW e \in Ends, PopMessage(p, e),
         NEW x \in Ends, NEW q \in Ends, NEW i, NEW k, InMessage(x, q, i, k)'
  PROVE  IF q = e THEN i \in Nat \ {0} /\ InMessage(x, e, i + 1, k)
                  ELSE InMessage(x, q, i, k)
<1>1. queue[e] # <<>> /\ queue' = [queue EXCEPT ![e] = Tail(queue[e])]
  BY DEF PopMessage
<1>2. CASE q # e
  BY <1>1, <1>2 DEF InMessage, TypeInv, TypeOK
<1>3. CASE q = e
  <2>1. queue'[e] = Tail(queue[e]) /\ DOMAIN queue[e] = 1..Len(queue[e])
    BY <1>1 DEF TypeInv, TypeOK
  <2>2. /\ DOMAIN Tail(queue[e]) = 1..(Len(queue[e]) - 1)
        /\ Len(queue[e]) \in Nat
        /\ \A j \in DOMAIN Tail(queue[e]) : Tail(queue[e])[j] = queue[e][j + 1]
    BY <1>1, HeadMessage
  <2>3. /\ i \in 1..(Len(queue[e]) - 1)
        /\ k \in DOMAIN queue[e][i + 1].handles
        /\ queue[e][i + 1].handles[k] = x
    BY <1>3, <2>1, <2>2 DEF InMessage
  <2> QED
    BY <1>3, <2>1, <2>2, <2>3 DEF InMessage
<1> QED
  BY <1>2, <1>3

(* The handles a receive installs come from slots of the message it took. *)
LEMMA InstalledFrom ==
  ASSUME TypeInv, NEW p \in Procs, NEW e \in Ends, NEW n, Installs(p, e, n),
         NEW x \in Ends, NEW q \in Procs, InTable(x, q)'
  PROVE  InTable(x, q) \/ (q = p /\ \E k : InMessage(x, e, 1, k))
<1> DEFINE hs == Head(queue[e]).handles
<1>1. queue[e] # <<>>
  BY DEF Installs, PopMessage
<1>2. /\ hs = queue[e][1].handles
      /\ 1 \in DOMAIN queue[e]
      /\ hs \in Lists(Ends, HandlesMax)
  BY <1>1, HeadMessage
<1>3. /\ table' = [table EXCEPT ![p] = @ \cup {hs[i] : i \in 1..n}]
      /\ {hs[i] : i \in 1..n} \subseteq Range(hs)
  BY <1>2, FirstHandles DEF Installs
<1>4. CASE q # p
  BY <1>3, <1>4 DEF InTable, TypeInv, TypeOK
<1>5. CASE q = p
  <2>1. x \in table[p] \/ x \in Range(hs)
    BY <1>3, <1>5 DEF InTable, TypeInv, TypeOK
  <2>2. ASSUME x \in Range(hs)
        PROVE  \E k : InMessage(x, e, 1, k)
    BY <1>2, <2>2 DEF Range, InMessage
  <2> QED
    BY <1>5, <2>1, <2>2 DEF InTable
<1> QED
  BY <1>4, <1>5

LEMMA InitOwned == Init => OwnedOnce
<1> SUFFICES ASSUME Init PROVE OwnedOnce
  OBVIOUS
<1>1. \A x, q \in Ends : \A i, k : ~InMessage(x, q, i, k)
  BY DEF Init, InMessage
<1>2. \A x \in Ends, p \in Procs : InTable(x, p) => x \in created
  BY DEF Init, InTable, Booted
<1>3. \A x \in Ends, p, q \in Procs : InTable(x, p) /\ InTable(x, q) => p = q
  BY ChannelAssumption DEF Init, InTable
<1> QED
  BY <1>1, <1>2, <1>3 DEF OwnedOnce

(* Handles that leave a table and go nowhere: failed sends and closing. *)
LEMMA DropOwned ==
  ASSUME TypeInv, OwnedOnce, NEW p \in Procs, NEW S,
         table' = [table EXCEPT ![p] = @ \ S], created' = created, queue' = queue
  PROVE  OwnedOnce'
<1>1. \A x \in Ends, q \in Procs : InTable(x, q)' => InTable(x, q)
  BY DEF InTable, TypeInv, TypeOK
<1>2. \A x, q \in Ends : \A i, k : InMessage(x, q, i, k)' => InMessage(x, q, i, k)
  BY DEF InMessage
<1> QED
  BY <1>1, <1>2 DEF OwnedOnce

LEMMA CreateOwned ==
  ASSUME TypeInv, OwnedOnce, NEW p \in Procs, NEW e \in Ends, Create(p, e)
  PROVE  OwnedOnce'
<1>1. /\ e \notin created /\ Other[e] \notin created
      /\ created' = created \cup {e, Other[e]}
  BY DEF Create
<1>2. \A x \in Ends, q \in Procs :
        InTable(x, q)' => InTable(x, q) \/ (q = p /\ x \in {e, Other[e]})
  BY DEF Create, InTable, TypeInv, TypeOK
<1>3. \A x, q \in Ends : \A i, k : InMessage(x, q, i, k)' => InMessage(x, q, i, k)
  BY DEF Create, InMessage
<1> QED
  BY <1>1, <1>2, <1>3 DEF OwnedOnce

LEMMA SendOwned ==
  ASSUME TypeInv, OwnedOnce, NEW p \in Procs, NEW e \in Ends, NEW data \in Data,
         NEW handles \in Lists(Ends, HandlesMax), SendOk(p, e, data, handles)
  PROVE  OwnedOnce'
<1> DEFINE New(x, q, i, k) == /\ q = Other[e] /\ i = Len(queue[q]) + 1
                              /\ k \in DOMAIN handles /\ handles[k] = x
<1>1. created' = created
  BY DEF SendOk
<1>2. \A x \in Ends, q \in Procs : InTable(x, q)' => InTable(x, q)
  BY DEF SendOk, TakeHandles, InTable, TypeInv, TypeOK
<1>3. ASSUME NEW x \in Range(handles)
      PROVE  InTable(x, p) /\ \A q \in Procs : ~InTable(x, q)'
  <2>1. InTable(x, p) /\ x \in Ends
    BY DEF SendOk, TakeHandles, InTable, TypeInv, TypeOK
  <2>2. ~InTable(x, p)'
    BY DEF SendOk, TakeHandles, InTable, TypeInv, TypeOK
  <2> QED
    BY <1>2, <2>1, <2>2 DEF OwnedOnce
<1>4. \A x, q \in Ends : \A i, k :
        InMessage(x, q, i, k)' => InMessage(x, q, i, k) \/ New(x, q, i, k)
  BY SlotsAfterSend
<1>5. \A x, q \in Ends : \A i, k : New(x, q, i, k) => x \in Range(handles)
  BY DEF Range
<1>6. \A x, q, r \in Ends : \A i, j, k, m :
        New(x, q, i, k) /\ New(x, r, j, m) => q = r /\ i = j /\ k = m
  BY DEF SendOk, TakeHandles, Repeats
<1> HIDE DEF New
<1>7. \A x, q \in Ends : \A i, k : New(x, q, i, k) =>
        \A r \in Ends : \A j, m : ~InMessage(x, r, j, m)
  BY <1>3, <1>5 DEF OwnedOnce
<1>8. \A x, q \in Ends : \A i, k : InMessage(x, q, i, k)' => x \in created'
  BY <1>1, <1>3, <1>4, <1>5 DEF OwnedOnce
<1>9. \A x, q \in Ends, r \in Procs : \A i, k : ~(InTable(x, r)' /\ InMessage(x, q, i, k)')
  BY <1>2, <1>3, <1>4, <1>5 DEF OwnedOnce
<1>10. \A x, q, r \in Ends : \A i, j, k, m :
         InMessage(x, q, i, k)' /\ InMessage(x, r, j, m)' => q = r /\ i = j /\ k = m
  BY <1>4, <1>6, <1>7 DEF OwnedOnce
<1> QED
  BY <1>1, <1>2, <1>8, <1>9, <1>10 DEF OwnedOnce

LEMMA InstallOwned ==
  ASSUME TypeInv, OwnedOnce, NEW p \in Procs, NEW e \in Ends, NEW n, Installs(p, e, n)
  PROVE  OwnedOnce'
<1>1. created' = created /\ PopMessage(p, e)
  BY DEF Installs
<1>2. \A x \in Ends, q \in Procs :
        InTable(x, q)' => InTable(x, q) \/ (q = p /\ \E k : InMessage(x, e, 1, k))
  BY InstalledFrom
<1>3. \A x, q \in Ends : \A i, k : InMessage(x, q, i, k)' =>
        IF q = e THEN i \in Nat \ {0} /\ InMessage(x, e, i + 1, k)
                 ELSE InMessage(x, q, i, k)
  BY <1>1, SlotsAfterPop
<1>4. \A x, q \in Ends : \A i, k : InMessage(x, q, i, k)' => x \in created'
  BY <1>1, <1>3 DEF OwnedOnce
<1>5. \A x \in Ends, q \in Procs : InTable(x, q)' => x \in created'
  BY <1>1, <1>2 DEF OwnedOnce
<1>6. \A x \in Ends, q, r \in Procs : InTable(x, q)' /\ InTable(x, r)' => q = r
  BY <1>2 DEF OwnedOnce
<1>7. ASSUME NEW x \in Ends, NEW q \in Ends, NEW r \in Procs, NEW i, NEW k,
             InTable(x, r)', InMessage(x, q, i, k)'
      PROVE  FALSE
  <2>1. PICK j : InMessage(x, q, j, k) /\ ~(q = e /\ j = 1)
    <3>1. CASE q = e
      <4>1. i \in Nat \ {0} /\ InMessage(x, e, i + 1, k) /\ i + 1 # 1
        BY <1>3, <1>7, <3>1
      <4> QED
        BY <3>1, <4>1
    <3>2. CASE q # e
      BY <1>3, <1>7, <3>2
    <3> QED
      BY <3>1, <3>2
  <2>2. ~InTable(x, r)
    BY <2>1 DEF OwnedOnce
  <2>3. PICK m : InMessage(x, e, 1, m)
    BY <1>2, <1>7, <2>2
  <2> QED
    BY <2>1, <2>3 DEF OwnedOnce
<1>8. ASSUME NEW x \in Ends, NEW q \in Ends, NEW r \in Ends, NEW i, NEW j, NEW k, NEW m,
             InMessage(x, q, i, k)', InMessage(x, r, j, m)'
      PROVE  q = r /\ i = j /\ k = m
  <2>1. CASE q = e /\ r = e
    <3>1. /\ i \in Nat /\ j \in Nat
          /\ InMessage(x, e, i + 1, k) /\ InMessage(x, e, j + 1, m)
      BY <1>3, <1>8, <2>1
    <3>2. i + 1 = j + 1 /\ k = m
      BY <3>1 DEF OwnedOnce
    <3> QED
      BY <2>1, <3>1, <3>2
  <2>2. CASE q # e /\ r # e
    BY <1>3, <1>8, <2>2 DEF OwnedOnce
  <2>3. CASE (q = e) # (r = e)
    BY <1>3, <1>8, <2>3 DEF OwnedOnce
  <2> QED
    BY <2>1, <2>2, <2>3
<1> QED
  BY <1>4, <1>5, <1>6, <1>7, <1>8 DEF OwnedOnce

OwnerInv == TypeInv /\ OwnedOnce

LEMMA OwnerStep == OwnerInv /\ [Next]_vars => OwnerInv'
<1> SUFFICES ASSUME OwnerInv, [Next]_vars PROVE OwnerInv'
  OBVIOUS
<1>1. TypeInv /\ OwnedOnce /\ TypeInv'
  BY TypeStep DEF OwnerInv
<1>2. ASSUME NEW p \in Procs, NEW e \in Ends, NEW handles \in Lists(Ends, HandlesMax),
             SendFail(p, e, handles)
      PROVE  OwnedOnce'
  BY <1>1, <1>2, DropOwned DEF SendFail, TakeHandles
<1>3. ASSUME NEW p \in Procs, NEW e \in Ends, Closes(p, e)
      PROVE  OwnedOnce'
  BY <1>1, <1>3, DropOwned DEF Closes, CloseEnd
<1>4. ASSUME Quiet
      PROVE  OwnedOnce'
  <2>1. /\ \A x \in Ends, q \in Procs : InTable(x, q)' <=> InTable(x, q)
        /\ \A x, q \in Ends : \A i, k : InMessage(x, q, i, k)' <=> InMessage(x, q, i, k)
        /\ created' = created
    BY <1>4 DEF Quiet, InTable, InMessage
  <2> QED
    BY <1>1, <2>1 DEF OwnedOnce
<1> QED
  BY <1>1, <1>2, <1>3, <1>4, StepKinds, CreateOwned, SendOwned, InstallOwned DEF OwnerInv

(* A channel handle is moved, never copied: at any time an end is in one   *)
(* handle table or in one slot of one queued message at most, however      *)
(* sends and receives fail.                                                *)
THEOREM HandlesHaveOneOwner == Spec => []SingleOwner
<1>1. Init => OwnerInv
  BY InitTypes, InitOwned DEF OwnerInv
<1>2. OwnerInv /\ [Next]_vars => OwnerInv'
  BY OwnerStep
<1>3. OwnerInv => SingleOwner
  BY OwnerForm DEF OwnerInv
<1> QED
  BY <1>1, <1>2, <1>3, PTL DEF Spec

-----------------------------------------------------------------------------
(* Closing                                                                 *)

(* Ends are created before anything happens to them. *)
CreatedFirst ==
  /\ connected \subseteq created
  /\ \A e \in Ends : queue[e] # <<>> => e \in created

(* That a closed peer is reported needs all of the above: the end that is  *)
(* closed is in no other place (OwnedOnce), and its peer is connected      *)
(* exactly if it is (PeersAgree).                                          *)
ChannelInv == ReadyInv /\ OwnedOnce /\ CreatedFirst /\ ClosedPeerIsTold

LEMMA InitChannel == Init => ChannelInv
<1> SUFFICES ASSUME Init PROVE ChannelInv
  OBVIOUS
<1>1. CreatedFirst
  BY DEF Init, CreatedFirst
<1>2. ClosedPeerIsTold
  <2>1. ASSUME NEW x \in Ends, Held(x)
        PROVE  x \in connected
    <3>1. x \in created
      BY <2>1, InitOwned, HeldForm DEF OwnedOnce
    <3> QED
      BY <3>1 DEF Init
  <2> QED
    BY <2>1 DEF ClosedPeerIsTold
<1> QED
  BY <1>1, <1>2, InitReady, InitOwned DEF ChannelInv

(* Whoever holds an end after a step held it before, unless it is new. *)
LEMMA HeldBefore ==
  ASSUME ChannelInv, [Next]_vars, NEW x \in Ends, Held(x)', x \notin connected'
  PROVE  Held(x)
<1>1. TypeInv
  BY DEF ChannelInv, ReadyInv
<1>2. \/ \E p \in Procs : InTable(x, p)'
      \/ \E q \in Ends : \E i, k : InMessage(x, q, i, k)'
  BY DEF Held, InTable, InMessage, Range
<1>3. ASSUME NEW p \in Procs, NEW e \in Ends, Create(p, e)
      PROVE  Held(x)
  <2>1. x \notin {e, Other[e]}
    BY <1>3 DEF Create
  <2>2. \A q \in Procs : InTable(x, q)' => InTable(x, q)
    BY <1>1, <1>3, <2>1 DEF Create, InTable, TypeInv, TypeOK
  <2>3. \A q \in Ends : \A i, k : InMessage(x, q, i, k)' => InMessage(x, q, i, k)
    BY <1>3 DEF Create, InMessage
  <2> QED
    BY <1>2, <2>2, <2>3, HeldForm
<1>4. ASSUME NEW p \in Procs, NEW e \in Ends, NEW data \in Data,
             NEW handles \in Lists(Ends, HandlesMax), SendOk(p, e, data, handles)
      PROVE  Held(x)
  <2>1. \A q \in Procs : InTable(x, q)' => InTable(x, q)
    BY <1>1, <1>4 DEF SendOk, TakeHandles, InTable, TypeInv, TypeOK
  <2>2. ASSUME NEW q \in Ends, NEW i, NEW k, InMessage(x, q, i, k)'
        PROVE  InMessage(x, q, i, k) \/ InTable(x, p)
    <3>1. InMessage(x, q, i, k) \/ x \in Range(handles)
      BY <1>1, <1>4, <2>2, SlotsAfterSend DEF Range
    <3> QED
      BY <1>4, <3>1 DEF SendOk, TakeHandles, InTable
  <2> QED
    BY <1>2, <2>1, <2>2, HeldForm
<1>5. ASSUME NEW p \in Procs, NEW e \in Ends, NEW n, Installs(p, e, n)
      PROVE  Held(x)
  <2>1. \A q \in Procs :
          InTable(x, q)' => InTable(x, q) \/ \E k : InMessage(x, e, 1, k)
    BY <1>1, <1>5, InstalledFrom
  <2>2. PopMessage(p, e)
    BY <1>5 DEF Installs
  <2>3. \A q \in Ends : \A i, k : InMessage(x, q, i, k)' =>
          InMessage(x, q, i + 1, k) \/ InMessage(x, q, i, k)
    BY <1>1, <2>2, SlotsAfterPop
  <2> QED
    BY <1>2, <2>1, <2>3, HeldForm
<1>6. ASSUME NEW p \in Procs, NEW S, table' = [table EXCEPT ![p] = @ \ S], queue' = queue
      PROVE  Held(x)
  <2>1. \A q \in Procs : InTable(x, q)' => InTable(x, q)
    BY <1>1, <1>6 DEF InTable, TypeInv, TypeOK
  <2>2. \A q \in Ends : \A i, k : InMessage(x, q, i, k)' => InMessage(x, q, i, k)
    BY <1>6 DEF InMessage
  <2> QED
    BY <1>2, <2>1, <2>2, HeldForm
<1>7. ASSUME NEW p \in Procs, NEW e \in Ends, NEW handles \in Lists(Ends, HandlesMax),
             SendFail(p, e, handles)
      PROVE  Held(x)
  BY <1>6, <1>7 DEF SendFail, TakeHandles
<1>8. ASSUME NEW p \in Procs, NEW e \in Ends, Closes(p, e)
      PROVE  Held(x)
  BY <1>6, <1>8 DEF Closes, CloseEnd
<1>9. ASSUME Quiet
      PROVE  Held(x)
  <2>1. \A q \in Procs : InTable(x, q)' => InTable(x, q)
    BY <1>9 DEF Quiet, InTable
  <2>2. \A q \in Ends : \A i, k : InMessage(x, q, i, k)' => InMessage(x, q, i, k)
    BY <1>9 DEF Quiet, InMessage
  <2> QED
    BY <1>2, <2>1, <2>2, HeldForm
<1> QED
  BY <1>1, <1>3, <1>4, <1>5, <1>7, <1>8, <1>9, StepKinds

(* Nothing lowers PEER_CLOSED. *)
LEMMA StaysTold ==
  ASSUME TypeInv, [Next]_vars, NEW x \in Ends, "PEER_CLOSED" \in latest[x]
  PROVE  "PEER_CLOSED" \in latest'[x]
<1>1. ASSUME NEW p \in Procs, NEW e \in Ends, NEW data \in Data,
             NEW handles \in Lists(Ends, HandlesMax), SendOk(p, e, data, handles)
      PROVE  "PEER_CLOSED" \in latest'[x]
  <2>1. latest' = [latest EXCEPT ![Other[e]] = ReadinessAfterPush(Other[e])]
    BY <1>1 DEF SendOk
  <2>2. "PEER_CLOSED" \in latest[Other[e]] => "PEER_CLOSED" \in ReadinessAfterPush(Other[e])
    BY DEF ReadinessAfterPush
  <2> QED
    BY <2>1, <2>2 DEF TypeInv, TypeOK
<1>2. ASSUME NEW p \in Procs, NEW e \in Ends, NEW n, Installs(p, e, n)
      PROVE  "PEER_CLOSED" \in latest'[x]
  <2>1. "PEER_CLOSED" \in latest[e] => "PEER_CLOSED" \in ReadinessAfterPop(e)
    BY DEF ReadinessAfterPop
  <2> QED
    BY <1>2, <2>1 DEF Installs, TypeInv, TypeOK
<1>3. ASSUME NEW p \in Procs, NEW e \in Ends, Closes(p, e)
      PROVE  "PEER_CLOSED" \in latest'[x]
  BY <1>3, ChannelAssumption DEF Closes, CloseEnd, PeerTold, TypeInv, TypeOK
<1>4. ASSUME NEW p \in Procs, NEW e \in Ends, Create(p, e)
      PROVE  "PEER_CLOSED" \in latest'[x]
  BY <1>4 DEF Create
<1>5. ASSUME NEW p \in Procs, NEW e \in Ends, NEW handles \in Lists(Ends, HandlesMax),
             SendFail(p, e, handles)
      PROVE  "PEER_CLOSED" \in latest'[x]
  BY <1>5 DEF SendFail
<1>6. ASSUME Quiet
      PROVE  "PEER_CLOSED" \in latest'[x]
  BY <1>6 DEF Quiet
<1> QED
  BY <1>1, <1>2, <1>3, <1>4, <1>5, <1>6, StepKinds

LEMMA CloseTells ==
  ASSUME ChannelInv, NEW p \in Procs, NEW e \in Ends, Closes(p, e), OwnedOnce',
         NEW x \in Ends, Held(x)', x \in connected, x \notin connected'
  PROVE  "PEER_CLOSED" \in latest'[x]
<1>1. /\ connected' = connected \ {e, Other[e]} /\ latest' = PeerTold(e)
      /\ table' = [table EXCEPT ![p] = @ \ {e}] /\ queue' = queue
      /\ InTable(e, p)
  BY DEF Closes, CloseEnd, Disconnect, InTable
<1>2. x \in {e, Other[e]} /\ Other[e] \in Ends /\ Other[Other[e]] = e
  BY <1>1, ChannelAssumption
<1>3. e \in connected /\ Other[e] \in connected
  BY <1>2 DEF ChannelInv, ReadyInv, PeersAgree
<1>4. x # e
  <2> SUFFICES ASSUME x = e PROVE FALSE
    OBVIOUS
  <2>1. \A q \in Procs : ~InTable(e, q)'
    BY <1>1 DEF ChannelInv, ReadyInv, TypeInv, TypeOK, OwnedOnce, InTable
  <2>2. \A q \in Ends : \A i, k : ~InMessage(e, q, i, k)'
    BY <1>1 DEF ChannelInv, OwnedOnce, InMessage
  <2> QED
    BY <2>1, <2>2 DEF Held, InTable, InMessage, Range
<1>5. latest' = [latest EXCEPT ![x] = @ \cup {"PEER_CLOSED"}]
  BY <1>1, <1>2, <1>3, <1>4 DEF PeerTold
<1> QED
  BY <1>5 DEF ChannelInv, ReadyInv, TypeInv, TypeOK

LEMMA CreatedStep ==
  ASSUME ChannelInv, [Next]_vars
  PROVE  CreatedFirst'
<1>1. TypeInv /\ CreatedFirst /\ PeersAgree
  BY DEF ChannelInv, ReadyInv
<1>2. ASSUME NEW p \in Procs, NEW e \in Ends, NEW data \in Data,
             NEW handles \in Lists(Ends, HandlesMax), SendOk(p, e, data, handles)
      PROVE  CreatedFirst'
  <2>1. Other[e] \in created /\ UNCHANGED <<created, connected>>
    BY <1>1, <1>2 DEF SendOk, PeersAgree, CreatedFirst
  <2>2. \A q \in Ends \ {Other[e]} : queue'[q] = queue[q]
    BY <1>1, <1>2 DEF SendOk, TypeInv, TypeOK
  <2> QED
    BY <1>1, <2>1, <2>2 DEF CreatedFirst
<1>3. ASSUME NEW p \in Procs, NEW e \in Ends, NEW n, Installs(p, e, n)
      PROVE  CreatedFirst'
  <2>1. queue[e] # <<>> /\ UNCHANGED <<created, connected>>
    BY <1>3 DEF Installs, PopMessage
  <2>2. \A q \in Ends \ {e} : queue'[q] = queue[q]
    BY <1>1, <1>3 DEF Installs, PopMessage, TypeInv, TypeOK
  <2> QED
    BY <1>1, <2>1, <2>2 DEF CreatedFirst
<1>4. ASSUME NEW p \in Procs, NEW e \in Ends, Create(p, e)
      PROVE  CreatedFirst'
  BY <1>1, <1>4 DEF Create, CreatedFirst
<1>5. ASSUME NEW p \in Procs, NEW e \in Ends, Closes(p, e)
      PROVE  CreatedFirst'
  BY <1>1, <1>5 DEF Closes, CloseEnd, Disconnect, CreatedFirst
<1>6. ASSUME NEW p \in Procs, NEW e \in Ends, NEW handles \in Lists(Ends, HandlesMax),
             SendFail(p, e, handles)
      PROVE  CreatedFirst'
  BY <1>1, <1>6 DEF SendFail, CreatedFirst
<1>7. ASSUME Quiet
      PROVE  CreatedFirst'
  BY <1>1, <1>7 DEF Quiet, CreatedFirst
<1> QED
  BY <1>1, <1>2, <1>3, <1>4, <1>5, <1>6, <1>7, StepKinds

LEMMA ChannelStep == ChannelInv /\ [Next]_vars => ChannelInv'
<1> SUFFICES ASSUME ChannelInv, [Next]_vars PROVE ChannelInv'
  OBVIOUS
<1>1. ReadyInv' /\ OwnedOnce' /\ CreatedFirst'
  BY ReadyStep, OwnerStep, CreatedStep DEF ChannelInv, ReadyInv, OwnerInv
<1>2. TypeInv
  BY DEF ChannelInv, ReadyInv
<1>3. ASSUME NEW x \in Ends, Held(x)', x \notin connected'
      PROVE  "PEER_CLOSED" \in latest'[x]
  <2>1. CASE x \notin connected
    <3>1. "PEER_CLOSED" \in latest[x]
      BY <1>3, <2>1, HeldBefore DEF ChannelInv, ClosedPeerIsTold
    <3> QED
      BY <1>2, <3>1, StaysTold
  <2>2. CASE x \in connected
    <3>1. ASSUME NEW p \in Procs, NEW e \in Ends, Closes(p, e)
          PROVE  "PEER_CLOSED" \in latest'[x]
      BY <1>1, <1>3, <2>2, <3>1, CloseTells
    <3>2. ASSUME NEW p \in Procs, NEW e \in Ends, Create(p, e)
          PROVE  x \in connected'
      BY <2>2, <3>2 DEF Create
    <3>3. ASSUME NEW p \in Procs, NEW e \in Ends, NEW data \in Data,
                 NEW handles \in Lists(Ends, HandlesMax), SendOk(p, e, data, handles)
          PROVE  x \in connected'
      BY <2>2, <3>3 DEF SendOk
    <3>4. ASSUME NEW p \in Procs, NEW e \in Ends, NEW handles \in Lists(Ends, HandlesMax),
                 SendFail(p, e, handles)
          PROVE  x \in connected'
      BY <2>2, <3>4 DEF SendFail
    <3>5. ASSUME NEW p \in Procs, NEW e \in Ends, NEW n, Installs(p, e, n)
          PROVE  x \in connected'
      BY <2>2, <3>5 DEF Installs
    <3>6. ASSUME Quiet
          PROVE  x \in connected'
      BY <2>2, <3>6 DEF Quiet
    <3> QED
      BY <1>2, <1>3, <3>1, <3>2, <3>3, <3>4, <3>5, <3>6, StepKinds
  <2> QED
    BY <2>1, <2>2
<1>4. ClosedPeerIsTold'
  BY <1>3 DEF ClosedPeerIsTold
<1> QED
  BY <1>1, <1>4 DEF ChannelInv

(* Whoever holds an end whose peer was closed has PEER_CLOSED raised on    *)
(* it, also when the end was travelling in a message at that time.         *)
THEOREM HoldersAreTold == Spec => []ClosedPeerIsTold
<1>1. Init => ChannelInv
  BY InitChannel
<1>2. ChannelInv /\ [Next]_vars => ChannelInv'
  BY ChannelStep
<1>3. ChannelInv => ClosedPeerIsTold
  BY DEF ChannelInv
<1> QED
  BY <1>1, <1>2, <1>3, PTL DEF Spec

LEMMA ClosedStep ==
  ASSUME ChannelInv, [Next]_vars, NEW x \in created \ connected
  PROVE  x \notin connected' /\ Len(queue'[x]) <= Len(queue[x])
<1>1. TypeInv /\ PeersAgree /\ x \in Ends /\ Len(queue[x]) \in Nat
  BY DEF ChannelInv, ReadyInv, TypeInv, TypeOK
<1>2. ASSUME NEW p \in Procs, NEW e \in Ends, NEW data \in Data,
             NEW handles \in Lists(Ends, HandlesMax), SendOk(p, e, data, handles)
      PROVE  connected' = connected /\ queue'[x] = queue[x]
  <2>1. Other[e] \in connected
    BY <1>1, <1>2 DEF SendOk, PeersAgree
  <2> QED
    BY <1>1, <1>2, <2>1 DEF SendOk, TypeInv, TypeOK
<1>3. ASSUME NEW p \in Procs, NEW e \in Ends, NEW n, Installs(p, e, n)
      PROVE  connected' = connected /\ Len(queue'[x]) <= Len(queue[x])
  <2>1. /\ queue[e] # <<>> /\ connected' = connected
        /\ queue' = [queue EXCEPT ![e] = Tail(queue[e])]
    BY <1>3 DEF Installs, PopMessage
  <2>2. Len(Tail(queue[e])) = Len(queue[e]) - 1 /\ Len(queue[e]) \in Nat
    BY <1>1, <2>1, HeadMessage
  <2> QED
    BY <1>1, <2>1, <2>2 DEF TypeInv, TypeOK
<1>4. ASSUME NEW p \in Procs, NEW e \in Ends, Create(p, e)
      PROVE  x \notin connected' /\ queue'[x] = queue[x]
  BY <1>4 DEF Create
<1>5. ASSUME NEW p \in Procs, NEW e \in Ends, Closes(p, e)
      PROVE  x \notin connected' /\ queue'[x] = queue[x]
  BY <1>5 DEF Closes, CloseEnd, Disconnect
<1>6. ASSUME NEW p \in Procs, NEW e \in Ends, NEW handles \in Lists(Ends, HandlesMax),
             SendFail(p, e, handles)
      PROVE  x \notin connected' /\ queue'[x] = queue[x]
  BY <1>6 DEF SendFail
<1>7. ASSUME Quiet
      PROVE  x \notin connected' /\ queue'[x] = queue[x]
  BY <1>7 DEF Quiet
<1>8. Len(queue[x]) <= Len(queue[x])
  BY <1>1
<1> QED
  BY <1>1, <1>2, <1>3, <1>4, <1>5, <1>6, <1>7, <1>8, StepKinds

(* Closing is final: a disconnected end is never connected again, and what *)
(* is left in its queue only shrinks.                                      *)
THEOREM ClosingIsFinal == Spec => ClosedIsFinal
<1>1. Init => ChannelInv
  BY InitChannel
<1>2. ChannelInv /\ [Next]_vars => ChannelInv'
  BY ChannelStep
<1>3. ChannelInv /\ [Next]_vars =>
        [\A e \in created \ connected : /\ e \notin connected'
                                        /\ Len(queue'[e]) <= Len(queue[e])]_vars
  BY ClosedStep
<1> QED
  BY <1>1, <1>2, <1>3, PTL DEF Spec, ClosedIsFinal

-----------------------------------------------------------------------------
(* The channel implements the pair of bounded FIFO inboxes of Duplex       *)

(* The payloads of a queue of messages. *)
DataOf(s) == [i \in DOMAIN s |-> s[i].data]

Inbox == [e \in Ends |-> Payloads(e)]

LEMMA DataOfType ==
  ASSUME NEW s \in Seq(MessageEntry)
  PROVE  /\ DataOf(s) \in Seq(Data)
         /\ Len(DataOf(s)) = Len(s)
         /\ \A i \in 1..Len(s) : DataOf(s)[i] = s[i].data
         /\ DataOf(s) = <<>> <=> s = <<>>
<1>1. Len(s) \in Nat /\ DOMAIN s = 1..Len(s) /\ \A i \in 1..Len(s) : s[i] \in MessageEntry
  BY LenProperties, ElementOfSeq
<1>2. DataOf(s) \in [1..Len(s) -> Data]
  BY <1>1 DEF DataOf, MessageEntry
<1>3. DataOf(s) \in Seq(Data) /\ Len(DataOf(s)) = Len(s)
  BY <1>1, <1>2
<1>4. \A i \in 1..Len(s) : DataOf(s)[i] = s[i].data
  BY <1>1 DEF DataOf
<1>5. DataOf(s) = <<>> <=> s = <<>>
  BY <1>3, EmptySeq
<1> QED
  BY <1>3, <1>4, <1>5

LEMMA DataOfAppend ==
  ASSUME NEW s \in Seq(MessageEntry), NEW m \in MessageEntry
  PROVE  DataOf(Append(s, m)) = Append(DataOf(s), m.data)
<1>1. m.data \in Data
  BY DEF MessageEntry
<1>2. /\ Append(s, m) \in Seq(MessageEntry)
      /\ Len(Append(s, m)) = Len(s) + 1
      /\ \A i \in 1..Len(s) : Append(s, m)[i] = s[i]
      /\ Append(s, m)[Len(s) + 1] = m
      /\ Len(s) \in Nat
  BY AppendProperties, LenProperties
<1>3. /\ DataOf(s) \in Seq(Data)
      /\ Len(DataOf(s)) = Len(s)
      /\ \A i \in 1..Len(s) : DataOf(s)[i] = s[i].data
      /\ DataOf(Append(s, m)) \in Seq(Data)
      /\ Len(DataOf(Append(s, m))) = Len(s) + 1
      /\ \A i \in 1..(Len(s) + 1) : DataOf(Append(s, m))[i] = Append(s, m)[i].data
  BY <1>2, DataOfType
<1>4. /\ Append(DataOf(s), m.data) \in Seq(Data)
      /\ Len(Append(DataOf(s), m.data)) = Len(s) + 1
      /\ \A i \in 1..Len(s) : Append(DataOf(s), m.data)[i] = DataOf(s)[i]
      /\ Append(DataOf(s), m.data)[Len(s) + 1] = m.data
  BY <1>1, <1>3, AppendProperties
<1>5. ASSUME NEW i \in 1..(Len(s) + 1)
      PROVE  DataOf(Append(s, m))[i] = Append(DataOf(s), m.data)[i]
  <2>1. CASE i \in 1..Len(s)
    BY <1>2, <1>3, <1>4, <2>1
  <2>2. CASE i = Len(s) + 1
    BY <1>2, <1>3, <1>4, <2>2
  <2>3. i \in 1..Len(s) \/ i = Len(s) + 1
    BY <1>2
  <2> QED
    BY <2>1, <2>2, <2>3
<1> QED
  BY <1>3, <1>4, <1>5, SeqEqual

LEMMA DataOfTail ==
  ASSUME NEW s \in Seq(MessageEntry), s # <<>>
  PROVE  DataOf(Tail(s)) = Tail(DataOf(s))
<1>1. /\ Tail(s) \in Seq(MessageEntry)
      /\ Len(Tail(s)) = Len(s) - 1
      /\ \A i \in 1..Len(Tail(s)) : Tail(s)[i] = s[i + 1]
      /\ Len(s) \in Nat
  BY HeadTailProperties, LenProperties
<1>2. /\ DataOf(s) \in Seq(Data)
      /\ Len(DataOf(s)) = Len(s)
      /\ DataOf(s) # <<>>
      /\ \A i \in 1..Len(s) : DataOf(s)[i] = s[i].data
      /\ DataOf(Tail(s)) \in Seq(Data)
      /\ Len(DataOf(Tail(s))) = Len(s) - 1
      /\ \A i \in 1..(Len(s) - 1) : DataOf(Tail(s))[i] = Tail(s)[i].data
  BY <1>1, DataOfType
<1>3. /\ Tail(DataOf(s)) \in Seq(Data)
      /\ Len(Tail(DataOf(s))) = Len(s) - 1
      /\ \A i \in 1..(Len(s) - 1) : Tail(DataOf(s))[i] = DataOf(s)[i + 1]
  BY <1>2, HeadTailProperties
<1>4. \A i \in 1..(Len(s) - 1) : i + 1 \in 1..Len(s) /\ Tail(s)[i] = s[i + 1]
  BY <1>1
<1>5. \A i \in 1..(Len(s) - 1) : DataOf(Tail(s))[i] = Tail(DataOf(s))[i]
  BY <1>2, <1>3, <1>4
<1> QED
  BY <1>2, <1>3, <1>5, SeqEqual

(* How the mapped inboxes follow the queues. *)
LEMMA InboxOf ==
  ASSUME NEW e \in Ends
  PROVE  Inbox[e] = DataOf(queue[e]) /\ Inbox'[e] = DataOf(queue'[e])
BY DEF Inbox, Payloads, DataOf

LEMMA InitDuplex == Init => D!DInit
<1> SUFFICES ASSUME Init PROVE D!DInit
  OBVIOUS
<1>1. Inbox = [e \in Ends |-> <<>>]
  <2>1. \A e \in Ends : Payloads(e) = <<>>
    BY DEF Init, Payloads
  <2> QED
    BY <2>1 DEF Inbox
<1>2. connected \in SUBSET Ends /\ \A e \in connected : Other[e] \in connected
  BY InitReady DEF ReadyInv, TypeInv, TypeOK, PeersAgree
<1> QED
  BY <1>1, <1>2 DEF D!DInit, Inbox

LEMMA SendDuplex ==
  ASSUME TypeInv, NEW p \in Procs, NEW e \in Ends, NEW data \in Data,
         NEW handles \in Lists(Ends, HandlesMax), SendOk(p, e, data, handles)
  PROVE  D!DSend(e, data)
<1> DEFINE o == Other[e]
           m == [data |-> data, handles |-> handles]
<1>1. o \in Ends /\ m \in MessageEntry /\ m.data = data
  BY ChannelAssumption DEF MessageEntry
<1>2. /\ queue' = [queue EXCEPT ![o] = Append(queue[o], m)]
      /\ e \in connected /\ connected' = connected
      /\ Len(queue[o]) < QUEUE_LEN_MAX
  BY DEF SendOk, HasRoom
<1> HIDE DEF o, m
<1>3. queue[o] \in Seq(MessageEntry)
  BY <1>1 DEF TypeInv, TypeOK
<1>4. queue'[o] = Append(queue[o], m) /\ \A q \in Ends \ {o} : queue'[q] = queue[q]
  BY <1>1, <1>2 DEF TypeInv, TypeOK
<1>5. Inbox'[o] = Append(Inbox[o], data) /\ Len(Inbox[o]) < QUEUE_LEN_MAX
  BY <1>1, <1>2, <1>3, <1>4, InboxOf, DataOfAppend, DataOfType
<1>6. \A q \in Ends \ {o} : Inbox'[q] = Inbox[q]
  BY <1>4, InboxOf
<1>7. Inbox' = [Inbox EXCEPT ![o] = Append(@, data)]
  BY <1>1, <1>5, <1>6 DEF Inbox
<1> QED
  BY <1>2, <1>5, <1>7 DEF D!DSend, Inbox, o

LEMMA RecvDuplex ==
  ASSUME TypeInv, NEW p \in Procs, NEW e \in Ends, NEW k, Installs(p, e, k)
  PROVE  D!DRecv(e)
<1>1. /\ queue[e] # <<>> /\ connected' = connected
      /\ queue' = [queue EXCEPT ![e] = Tail(queue[e])]
  BY DEF Installs, PopMessage
<1>2. queue[e] \in Seq(MessageEntry)
  BY DEF TypeInv, TypeOK
<1>3. queue'[e] = Tail(queue[e]) /\ \A q \in Ends \ {e} : queue'[q] = queue[q]
  BY <1>1 DEF TypeInv, TypeOK
<1>4. Inbox[e] # <<>> /\ Inbox'[e] = Tail(Inbox[e])
  BY <1>1, <1>2, <1>3, InboxOf, DataOfTail, DataOfType
<1>5. \A q \in Ends \ {e} : Inbox'[q] = Inbox[q]
  BY <1>3, InboxOf
<1>6. Inbox' = [Inbox EXCEPT ![e] = Tail(@)]
  BY <1>4, <1>5 DEF Inbox
<1> QED
  BY <1>1, <1>4, <1>6 DEF D!DRecv, Inbox

LEMMA CreateDuplex ==
  ASSUME ChannelInv, NEW p \in Procs, NEW e \in Ends, Create(p, e)
  PROVE  D!DCreate(e)
<1>1. /\ e \notin created /\ Other[e] \notin created /\ Other[e] \in Ends
      /\ connected' = connected \cup {e, Other[e]} /\ queue' = queue
  BY ChannelAssumption DEF Create
<1>2. e \notin connected /\ Other[e] \notin connected
  BY <1>1 DEF ChannelInv, CreatedFirst
<1>3. queue[e] = <<>> /\ queue[Other[e]] = <<>>
  BY <1>1 DEF ChannelInv, CreatedFirst
<1>4. Inbox[e] = <<>> /\ Inbox[Other[e]] = <<>>
  <2>1. DataOf(<<>>) = <<>>
    BY EmptySeq, DataOfType
  <2> QED
    BY <1>1, <1>3, <2>1, InboxOf
<1>5. Inbox' = Inbox
  BY <1>1 DEF Inbox, Payloads
<1> QED
  BY <1>1, <1>2, <1>4, <1>5 DEF D!DCreate, Inbox

LEMMA CloseDuplex ==
  ASSUME ChannelInv, NEW p \in Procs, NEW e \in Ends, Closes(p, e)
  PROVE  D!DClose(e) \/ UNCHANGED <<Inbox, connected>>
<1>1. connected' = connected \ {e, Other[e]} /\ queue' = queue
  BY DEF Closes, CloseEnd, Disconnect
<1>2. Inbox' = Inbox
  BY <1>1 DEF Inbox, Payloads
<1>3. CASE e \in connected
  BY <1>1, <1>2, <1>3 DEF D!DClose, Inbox
<1>4. CASE e \notin connected
  <2>1. Other[e] \notin connected
    BY <1>4, ChannelAssumption DEF ChannelInv, ReadyInv, PeersAgree
  <2> QED
    BY <1>1, <1>2, <1>4, <2>1
<1> QED
  BY <1>3, <1>4

LEMMA DuplexStep == ChannelInv /\ [Next]_vars => [D!DNext]_(D!dvars)
<1> SUFFICES ASSUME ChannelInv, [Next]_vars
             PROVE  D!DNext \/ UNCHANGED <<Inbox, connected>>
  BY DEF D!dvars, Inbox
<1>1. TypeInv
  BY DEF ChannelInv, ReadyInv
<1>2. ASSUME NEW e \in Ends,
             D!DCreate(e) \/ (\E d \in Data : D!DSend(e, d)) \/ D!DRecv(e) \/ D!DClose(e)
      PROVE  D!DNext
  BY <1>2 DEF D!DNext
<1>3. ASSUME connected' = connected, queue' = queue
      PROVE  UNCHANGED <<Inbox, connected>>
  BY <1>3 DEF Inbox, Payloads
<1>4. ASSUME NEW p \in Procs, NEW e \in Ends, NEW handles \in Lists(Ends, HandlesMax),
             SendFail(p, e, handles)
      PROVE  UNCHANGED <<Inbox, connected>>
  BY <1>3, <1>4 DEF SendFail
<1>5. ASSUME Quiet
      PROVE  UNCHANGED <<Inbox, connected>>
  BY <1>3, <1>5 DEF Quiet
<1> QED
  BY <1>1, <1>2, <1>4, <1>5, StepKinds, CreateDuplex, SendDuplex, RecvDuplex, CloseDuplex

(* What the users of a channel rely on: whatever handles move with the     *)
(* messages and however calls fail, the two ends are bounded FIFO inboxes  *)
(* that deliver each message once and in order, and closing loses none.    *)
THEOREM ChannelImplementsDuplex == Spec => ImplementsDuplex
<1>1. Init => ChannelInv /\ D!DInit
  BY InitChannel, InitDuplex
<1>2. ChannelInv /\ [Next]_vars => ChannelInv'
  BY ChannelStep
<1>3. ChannelInv /\ [Next]_vars => [D!DNext]_(D!dvars)
  BY DuplexStep
<1> QED
  BY <1>1, <1>2, <1>3, PTL DEF Spec, ImplementsDuplex, D!DSpec
=============================================================================
