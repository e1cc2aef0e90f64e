----------------------------- MODULE Mk1Kernel -----------------------------
(***************************************************************************)
(* microkernel1: threads, channels and physical pages, as the applications *)
(* start.                                                                  *)
(*                                                                         *)
(* Every application is a thread of the kernel's thread group, and sending *)
(* to a server runs its handler on the sender's thread: a call sets the    *)
(* reply buffer of the caller's channel, runs the handler, and the         *)
(* handler's reply is copied to whatever buffer that channel has by then.  *)
(* The timer preempts a thread between any two steps; what is done under a *)
(* mutex of the kernel is one step.  A start-up is written as a script of  *)
(* operations; no application waits for another but in connect().          *)
(*                                                                         *)
(* All applications allocate memory over one static channel, the first of  *)
(* them opening and connecting it (get_memory_ch).  allocate_memory()      *)
(* ("malloc") holds a mutex meanwhile; the virtio driver ("direct") calls  *)
(* without it.  A stub that gets an error leaves its results as they were. *)
(***************************************************************************)
EXTENDS Integers, Sequences, FiniteSets

CONSTANTS NULL,
          Systems,     \* choices of applications: each a sequence of scripts
          ThreadMax,   \* applications of a system at most
          FrameNum     \* physical pages

VARIABLES scripts,     \* the start-ups of the applications of this system
          current,     \* the running thread
          next,        \* get_next_thread()'s static
          pc,          \* what a thread is doing, its locals
          servers,     \* the registered interfaces: <<interface, channel>>
          chans,       \* the kernel group's channels
          memory_ch,   \* get_memory_ch()'s static
          lock,        \* the holder of allocate_memory()'s mutex, or NULL
          pages,       \* pm_space.pages: who holds a physical page, or NULL
          unlocked     \* threads that shared memory_ch with one without the mutex

vars == <<scripts, current, next, pc, servers, chans, memory_ch, lock, pages, unlocked>>

Threads == 1 .. Len(scripts)
Frames == 0 .. FrameNum - 1

Pc == [at |-> "startup", i |-> 1, own |-> 0, conn |-> 0, ch |-> 0, from |-> 0, error |-> FALSE,
       ret |-> NULL, got |-> NULL]
NewChannel == [linked_to |-> 0, transfer_to |-> 0, handler |-> FALSE, buf |-> NULL]

(***************************************************************************)
(* kernel_startup(): the kernel server's channel @1, registered for the    *)
(* kernel's interfaces; a runnable thread per application.                 *)
(***************************************************************************)
Init == /\ scripts \in Systems
        /\ current = 1
        /\ next = 2
        /\ pc = [t \in Threads |-> Pc]
        /\ servers = {<<"memory", 1>>}
        /\ chans = <<[NewChannel EXCEPT !.handler = TRUE]>>
        /\ memory_ch = 0
        /\ lock = NULL
        /\ pages = [f \in Frames |-> NULL]
        /\ unlocked = {}

(***************************************************************************)
(* get_next_thread(): round robin from `next`, then from the beginning.    *)
(* Every thread is runnable: one that waits spins.                         *)
(***************************************************************************)
\* Mutant: the search always starts at the first thread.
GetNextThreadFirst == 1
GetNextThread == IF next \in Threads THEN next ELSE 1

(* hard_switch(): the thread that ran stays runnable.                      *)
HardSwitch ==
  /\ current' = GetNextThread
  /\ next' = GetNextThread + 1
  /\ UNCHANGED <<scripts, pc, servers, chans, memory_ch, lock, pages, unlocked>>

(* What a step of thread t leaves alone.                                   *)
Sched == <<scripts, current, next>>
Op(t) == scripts[t][pc[t].i]
Begins(t, op) == pc[t].at = "startup" /\ Op(t).op = op
Done(t) ==
  pc' = [pc EXCEPT ![t] = [Pc EXCEPT !.i = pc[t].i + 1, !.own = pc[t].own,
                                     !.conn = pc[t].conn]]

(* alloc_id() of the kernel's group.                                       *)
Opened == Len(chans) + 1
Link(cs, a, b) == [cs EXCEPT ![a].linked_to = b, ![b].linked_to = a]

(***************************************************************************)
(* The steps of a server's start-up: create_channel(), setoptions() with a *)
(* handler, register_server(), and serve_channel(), which sets the handler *)
(* and spins for ever.                                                     *)
(***************************************************************************)
Open(t) ==
  /\ Begins(t, "open")
  /\ chans' = Append(chans, NewChannel)
  /\ pc' = [pc EXCEPT ![t].own = Opened, ![t].i = @ + 1]
  /\ UNCHANGED <<Sched, servers, memory_ch, lock, pages, unlocked>>

SetChannelHandler(t) ==
  /\ Begins(t, "handler") \/ Begins(t, "serve")
  /\ chans' = [chans EXCEPT ![pc[t].own].handler = TRUE, ![pc[t].own].buf = NULL]
  /\ IF Op(t).op = "serve" THEN pc' = [pc EXCEPT ![t].at = "serving"] ELSE Done(t)
  /\ UNCHANGED <<Sched, servers, memory_ch, lock, pages, unlocked>>

Register(t) ==
  /\ Begins(t, "register")
  /\ servers' = servers \cup {<<Op(t).interface, pc[t].own>>}
  /\ Done(t)
  /\ UNCHANGED <<Sched, chans, memory_ch, lock, pages, unlocked>>

(* The application's channel for a connection; get_memory_ch() does the    *)
(* same for its static.                                                    *)
ConnectOpen(t) ==
  /\ Begins(t, "connect")
  /\ chans' = Append(chans, NewChannel)
  /\ pc' = [pc EXCEPT ![t].at = "search", ![t].conn = Opened]
  /\ UNCHANGED <<Sched, servers, memory_ch, lock, pages, unlocked>>

(***************************************************************************)
(* connect(): searches servers again and again; then a new channel of the  *)
(* server's group is transferred to the server's and linked to the         *)
(* client's.  The static is read again here.                               *)
(***************************************************************************)
Interface(t) == IF Op(t).op = "connect" THEN Op(t).interface ELSE "memory"
Found(t) == {s \in servers : s[1] = Interface(t)}

ConnectSearch(t) ==
  /\ pc[t].at = "search"
  /\ Found(t) # {}
  /\ pc' = [pc EXCEPT ![t].at = "link",
                      ![t].ch = IF Op(t).op = "connect" THEN pc[t].conn ELSE memory_ch]
  /\ UNCHANGED <<Sched, servers, chans, memory_ch, lock, pages, unlocked>>

ConnectLink(t) ==
  LET s == CHOOSE x \in Found(t) : TRUE
  IN /\ pc[t].at = "link"
     /\ chans' = Link(Append(chans, [NewChannel EXCEPT !.transfer_to = s[2]]),
                      pc[t].ch, Opened)
     /\ IF Op(t).op = "connect" THEN Done(t) ELSE pc' = [pc EXCEPT ![t].at = "call"]
     /\ UNCHANGED <<Sched, servers, memory_ch, lock, pages, unlocked>>

(***************************************************************************)
(* allocate_memory() takes its mutex, spinning; the driver does not.  Then *)
(* get_memory_ch(): a test of the static, and the store of a new channel   *)
(* that is not connected yet.                                              *)
(***************************************************************************)
Allocating == {"get", "store", "search", "link", "call", "send", "handler", "reply",
               "return"}
Sharing == {t \in Threads : Op(t).op \in {"malloc", "direct"} /\ pc[t].at \in Allocating}

\* Mutant: allocate_memory() does not wait for the mutex.
LockMutexNot(t) ==
  /\ lock' = t
  /\ UNCHANGED unlocked
LockMutex(t) ==
  /\ lock = NULL
  /\ lock' = t
  /\ unlocked' = LET direct == {u \in Sharing : Op(u).op = "direct"}
                 IN IF direct # {} THEN unlocked \cup direct \cup {t} ELSE unlocked \ {t}

Allocate(t) ==
  /\ \/ Begins(t, "malloc") /\ LockMutex(t)
     \/ /\ Begins(t, "direct")
        /\ UNCHANGED lock
        /\ unlocked' = IF Sharing # {} THEN unlocked \cup Sharing \cup {t}
                       ELSE unlocked \ {t}
  /\ pc' = [pc EXCEPT ![t].at = "get"]
  /\ UNCHANGED <<Sched, servers, chans, memory_ch, pages>>

GetMemoryCh(t) ==
  /\ pc[t].at = "get"
  /\ pc' = [pc EXCEPT ![t].at = IF memory_ch = 0 THEN "store" ELSE "call"]
  /\ UNCHANGED <<Sched, servers, chans, memory_ch, lock, pages, unlocked>>

StoreMemoryCh(t) ==
  /\ pc[t].at = "store"
  /\ chans' = Append(chans, NewChannel)
  /\ memory_ch' = Opened
  /\ pc' = [pc EXCEPT ![t].at = "search"]
  /\ UNCHANGED <<Sched, servers, lock, pages, unlocked>>

(***************************************************************************)
(* call(): setoptions(), then send(), which finds the destination through  *)
(* transfer_to and runs its handler with the channel to reply to.  It      *)
(* returns E_UNCONNECTED, and E_NOSPACE if there is neither a handler nor  *)
(* a buffer.                                                               *)
(***************************************************************************)
Callee(t) == IF Op(t).op = "call" THEN pc[t].conn ELSE memory_ch

\* Mutant: the buffer is set after the message is sent.
CallStartLate(t) ==
  /\ Begins(t, "call") \/ pc[t].at = "call"
  /\ pc' = [pc EXCEPT ![t].at = "send", ![t].ch = Callee(t), ![t].got = NULL,
                      ![t].error = FALSE]
  /\ UNCHANGED <<Sched, servers, chans, memory_ch, lock, pages, unlocked>>
CallStart(t) ==
  /\ Begins(t, "call") \/ pc[t].at = "call"
  /\ chans' = [chans EXCEPT ![Callee(t)].buf = t, ![Callee(t)].handler = FALSE]
  /\ pc' = [pc EXCEPT ![t].at = "send", ![t].ch = Callee(t), ![t].got = NULL,
                      ![t].error = FALSE]
  /\ UNCHANGED <<Sched, servers, memory_ch, lock, pages, unlocked>>

Send(t) ==
  LET to   == chans[pc[t].ch].linked_to
      dest == IF chans[to].transfer_to # 0 THEN chans[to].transfer_to ELSE to
  IN /\ pc[t].at = "send"
     /\ pc' = IF to # 0 /\ chans[dest].handler
              THEN [pc EXCEPT ![t].at = "handler", ![t].from = to]
              ELSE [pc EXCEPT ![t].at = "return", ![t].error = TRUE]
     /\ UNCHANGED <<Sched, servers, chans, memory_ch, lock, pages, unlocked>>

(***************************************************************************)
(* pmalloc(): memchrseq() finds the first run of num free pages.           *)
(***************************************************************************)
Runs(num) == {f \in Frames : f + num <= FrameNum
                             /\ \A g \in f .. f + num - 1 : pages[g] = NULL}
FirstRun(num) == CHOOSE f \in Runs(num) : \A g \in Runs(num) : f <= g
Pmalloc(f, num, t) == [g \in Frames |-> IF g \in f .. f + num - 1 THEN t ELSE pages[g]]

(* allocate_at(): size / PAGE_SIZE + 1 pages.                              *)
Required(size) == size + 1

(***************************************************************************)
(* server_handler(): memory.allocate of a page; a handler of another       *)
(* server answers its caller.                                              *)
(***************************************************************************)
HandleAllocate(t) ==
  /\ pc[t].at = "handler" /\ Op(t).op # "call"
  /\ Runs(Required(1)) # {}
  /\ pages' = Pmalloc(FirstRun(Required(1)), Required(1), t)
  /\ pc' = [pc EXCEPT ![t].at = "reply", ![t].ret = FirstRun(Required(1))]
  /\ UNCHANGED <<Sched, servers, chans, memory_ch, lock, unlocked>>

Handle(t) ==
  /\ pc[t].at = "handler" /\ Op(t).op = "call"
  /\ pc' = [pc EXCEPT ![t].at = "reply", ![t].ret = -t]
  /\ UNCHANGED <<Sched, servers, chans, memory_ch, lock, pages, unlocked>>

(* send() of the reply: to the buffer that the client's channel has now,   *)
(* on the stack of whichever thread set it last.                           *)
Reply(t) ==
  LET b == chans[chans[pc[t].from].linked_to].buf
  IN /\ pc[t].at = "reply"
     /\ pc' = [u \in Threads |->
          [pc[u] EXCEPT !.got = IF u = b THEN pc[t].ret ELSE @,
                        !.at = IF u = t THEN "return" ELSE @]]
     /\ UNCHANGED <<Sched, servers, chans, memory_ch, lock, pages, unlocked>>

(* call() returns to the stub, which reads its buffer; unlock_mutex().     *)
Return(t) ==
  /\ pc[t].at = "return"
  /\ lock' = IF Op(t).op = "malloc" THEN NULL ELSE lock
  /\ Done(t)
  /\ UNCHANGED <<Sched, servers, chans, memory_ch, pages, unlocked>>

Step(t) == /\ current = t
           /\ \/ Open(t) \/ SetChannelHandler(t) \/ Register(t)
              \/ ConnectOpen(t) \/ ConnectSearch(t) \/ ConnectLink(t)
              \/ Allocate(t) \/ GetMemoryCh(t) \/ StoreMemoryCh(t)
              \/ CallStart(t) \/ Send(t) \/ HandleAllocate(t) \/ Handle(t)
              \/ Reply(t) \/ Return(t)

Next == HardSwitch \/ \E t \in Threads : Step(t)

(* The timer keeps ticking, and a time slice is long enough for a step.    *)
Fairness == WF_vars(HardSwitch) /\ \A t \in 1 .. ThreadMax : SF_vars(Step(t))

Spec == Init /\ [][Next]_vars /\ Fairness

----------------------------------------------------------------------------
(* The end of a start-up.                                                  *)
Serving(t) == pc[t].at = "serving"

(* A call returns what its own handler answered, and a page that it        *)
(* allocated is the caller's, if no other thread used the memory channel   *)
(* meanwhile without the mutex: preemption between the test of the static, *)
(* its connection, setoptions(), the handler and the reply then mixes up   *)
(* neither buffers nor pages.  The only other outcome is the error of a    *)
(* server that has registered and has no handler yet.                      *)
RepliesOwn ==
  \A t \in Threads :
    pc[t].at = "return" /\ t \notin unlocked
      => \/ pc[t].error /\ Op(t).op = "call"
         \/ /\ ~pc[t].error
            /\ pc[t].got = pc[t].ret
            /\ Op(t).op # "call" => pages[pc[t].got] = t
=============================================================================
