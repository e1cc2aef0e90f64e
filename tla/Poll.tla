-------------------------------- MODULE Poll --------------------------------
(***************************************************************************)
(* The event core of the FTL kernel (ftl1/kernel/src): poll emitters and   *)
(* their listeners, Poll objects with their ready queue and waiters,       *)
(* threads, and the non-preemptive FIFO scheduler.                         *)
(*                                                                         *)
(* One CPU runs the kernel, and the kernel runs one handler at a time, so  *)
(* an action is a whole system call or interrupt handler.  The handler     *)
(* ends in return_to_user(), which keeps the current thread while it is    *)
(* Runnable; otherwise the loop of schedule() runs, one iteration per      *)
(* step of mode "sched", in which nothing else is enabled.                 *)
(*                                                                         *)
(* The objects that emit events are the threads, and channel ends, timers  *)
(* and interrupts.  What makes those three raise or lower a readiness bit  *)
(* is left open here: they may do so in any order.                         *)
(***************************************************************************)
EXTENDS Naturals, Sequences, FiniteSets

CONSTANTS
  Threads,        \* every thread that can exist
  BootThreads,    \* the threads startup.rs creates; nobody holds their handle
  Polls,          \* Poll objects
  Channels,       \* channel ends
  Timers,         \* timers, the only objects that are edge-triggered
  Irqs,           \* acquired interrupts
  Ids,            \* handle ids of pollable objects
  Object,         \* handle id -> the kernel object it names
  Uses,           \* which thread issues poll system calls on which Poll
  Masks,          \* the interest masks that clients pass
  ReadyQueueMax   \* bound: no poll_remove while a ready queue is longer

Readiness == {"PEER_CLOSED", "READABLE", "WRITABLE"}

Sources == Channels \cup Timers \cup Irqs

Objects == Threads \cup Sources

(* Handleable::is_edge_triggered. *)
EdgeTriggered == Timers

(* The readiness an object's emitter is created with. *)
InitialReadiness(o) == IF o \in Channels THEN {"WRITABLE"} ELSE {}

(* Handle ids start at 1, so id 0 stands for "no listener". *)
NoListener == [id |-> 0, interests |-> {}]

(* No PollEvent has id 0 either. *)
NoEvent == [id |-> 0]

(* A Promise::PollWait that was never made. *)
NoPoll == "no poll"

IdleThread == "idle thread"

ASSUME PollAssumption ==
  /\ IsFiniteSet(Threads)
  /\ IdleThread \notin Threads
  /\ NoPoll \notin Polls
  /\ BootThreads \subseteq Threads
  /\ Threads \cap Sources = {}
  /\ Channels \cap (Timers \cup Irqs) = {}
  /\ Timers \cap Irqs = {}
  /\ Ids \subseteq Nat \ {0}
  /\ Object \in [Ids -> Objects \ BootThreads]
  /\ Uses \subseteq Threads \X Polls
  /\ Masks \subseteq SUBSET Readiness
  /\ ReadyQueueMax \in Nat

VARIABLES
  handles,    \* the handle table: ids that are open
  latest,     \* PollEmitter.latest of every object
  listeners,  \* PollEmitter.listeners: object -> poll -> listener
  polls,      \* Poll.mutable of every poll
  state,      \* Thread.mutable.state
  promise,    \* the Poll a thread last blocked on
  runqueue,   \* GLOBAL_SCHEDULER
  current,    \* CpuVar.current_thread
  mode,       \* what the CPU does: "user", "sched", "idle" or "fire"
  event,      \* the PollEvent that the last step returned to a thread
  halted,     \* why the kernel stopped, if it did
  removed     \* history: the (poll, id) pairs poll_remove ever removed

vars == <<handles, latest, listeners, polls, state, promise, runqueue,
          current, mode, event, halted, removed>>

-----------------------------------------------------------------------------
(* State                                                                   *)

PollState == [objects     : SUBSET Ids,
              ready       : [Ids -> SUBSET Readiness],
              ready_queue : Seq(Ids),
              waiters     : Seq(Threads)]

Listener == [id : Ids \cup {0}, interests : SUBSET Readiness]

PollEvent == [thread : Threads, poll : Polls, id : Ids,
              readiness : SUBSET Readiness]

ThreadState == {"Unborn", "Runnable", "Blocked", "Exited", "Destroyed"}

Halts == {"No",
          "EmptyEvent",          \* poll.rs: debug_assert!(!readiness.is_empty())
          "UnblockNotBlocked",   \* thread.rs: debug_assert!(Blocked) in unblock
          "CloseDeadlock",       \* a spinlock the handler already holds
          "ExitDeadlock",
          "ScheduleDeadlock"}

NewPoll == [objects |-> {}, ready |-> [i \in Ids |-> {}],
            ready_queue |-> <<>>, waiters |-> <<>>]

InSeq(x, s) == \E i \in DOMAIN s : s[i] = x

(* The orders in which the members of a finite set can be listed. *)
Orders(S) ==
  {s \in [1..Cardinality(S) -> S] :
     /\ \A i, j \in 1..Cardinality(S) : s[i] = s[j] => i = j
     /\ \A x \in S : \E i \in 1..Cardinality(S) : s[i] = x}

-----------------------------------------------------------------------------
(* Scheduler, PollEmitter and Poll operations                              *)

(* Mutant: a new thread is not pushed. *)
NotPushed(t) == runqueue

(* Scheduler::push and Scheduler::pop_next. *)
Push(t) == Append(runqueue, t)

(* Mutant: the next thread stays in the run queue. *)
Peek == runqueue

PopNext == Tail(runqueue)

(* Mutant: the id is queued only if the ready queue is empty. *)
NotifyFirst(q, id, events) ==
  IF id \notin q.objects
  THEN q
  ELSE [q EXCEPT !.ready = [q.ready EXCEPT ![id] = @ \cup events],
                 !.ready_queue = IF @ = <<>> THEN Append(@, id) ELSE @,
                 !.waiters = IF @ = <<>> THEN @ ELSE Tail(@)]

(* Mutant: the id is queued each time. *)
NotifyAlways(q, id, events) ==
  IF id \notin q.objects
  THEN q
  ELSE [q EXCEPT !.ready = [q.ready EXCEPT ![id] = @ \cup events],
                 !.ready_queue = Append(@, id),
                 !.waiters = IF @ = <<>> THEN @ ELSE Tail(@)]

(* Mutant: the waiter that is unblocked stays in the queue. *)
NotifyKeepsWaiter(q, id, events) ==
  IF id \notin q.objects
  THEN q
  ELSE [q EXCEPT !.ready = [q.ready EXCEPT ![id] = @ \cup events],
                 !.ready_queue = IF q.ready[id] = {} THEN Append(@, id) ELSE @]

(* Poll::notify on the state q of one poll: record the events, queue the   *)
(* id if it had none pending, and take one waiter off the queue.           *)
Notify(q, id, events) ==
  IF id \notin q.objects
  THEN q
  ELSE [q EXCEPT !.ready = [q.ready EXCEPT ![id] = @ \cup events],
                 !.ready_queue = IF q.ready[id] = {} THEN Append(@, id) ELSE @,
                 !.waiters = IF @ = <<>> THEN @ ELSE Tail(@)]

(* The waiter that Poll::notify unblocks, if any. *)
Woken(q, id) ==
  IF id \in q.objects /\ q.waiters # <<>> THEN {Head(q.waiters)} ELSE {}

(* EmitterInner::notify_all for listeners ls (poll -> listener), latest    *)
(* readiness l and poll states ps.  The listeners belong to different      *)
(* polls, so their notifications do not disturb each other.                *)
NotifyAll(ls, l, ps) ==
  [p \in Polls |-> IF ls[p].interests \cap l = {}
                   THEN ps[p]
                   ELSE Notify(ps[p], ls[p].id, ls[p].interests \cap l)]

WokenBy(ls, l, ps) ==
  UNION {Woken(ps[p], ls[p].id) : p \in {q \in Polls : ls[q].interests \cap l # {}}}

(* Thread::unblock on every thread of W: push it on the run queue rq.  The *)
(* listeners are visited in the order of their polls' addresses, which is  *)
(* unknown.  held are the threads whose spinlock the handler holds.        *)
Unblock(W, rq, held, deadlock) ==
  /\ \E order \in Orders(W) : runqueue' = rq \o order
  /\ halted' = IF W \cap held # {} THEN deadlock
               ELSE IF \E t \in W : state[t] # "Blocked" THEN "UnblockNotBlocked"
               ELSE halted

(* PollEmitter::set and PollEmitter::clear, given the new readiness l. *)
Emit(o, l, held, deadlock) ==
  /\ latest' = [latest EXCEPT ![o] = l]
  /\ polls' = NotifyAll(listeners[o], l, polls)
  /\ Unblock(WokenBy(listeners[o], l, polls), runqueue, held, deadlock)

(* Poll::add and Poll::remove on the poll's own state. *)
Register(q, id) ==
  [q EXCEPT !.objects = @ \cup {id}, !.ready = [q.ready EXCEPT ![id] = {}]]

Unregister(q, id) ==
  [q EXCEPT !.objects = @ \ {id}, !.ready = [q.ready EXCEPT ![id] = {}]]

(* PollEmitter::add_listener and update_listener store the listener. *)
StoreListener(o, p, listener) ==
  [listeners EXCEPT ![o] = [listeners[o] EXCEPT ![p] = listener]]

(* Mutant: remove_listener is forgotten. *)
ListenerLeft(o, p) == listeners

(* PollEmitter::remove_listener. *)
RemoveListener(o, p) == StoreListener(o, p, NoListener)

(* Mutant: the thread blocks without joining the waiters. *)
NotJoined(q, t) == q

(* Poll::wait adds the thread to the waiters. *)
JoinWaiters(q, t) == [q EXCEPT !.waiters = Append(@, t)]

(* Ready-queue positions whose object has not been removed meanwhile. *)
LiveAt(q) == {i \in DOMAIN q.ready_queue : q.ready_queue[i] \in q.objects}

(* The first of them, which is where do_try_wait stops popping. *)
FirstLive(q) == {i \in LiveAt(q) : \A j \in LiveAt(q) : i <= j}

(* It has popped the ids up to position i; it clears the pending events. *)
PopReady(q, i) ==
  [q EXCEPT !.ready = [q.ready EXCEPT ![q.ready_queue[i]] = {}],
            !.ready_queue = SubSeq(@, i + 1, Len(@))]

DropStale(q) == [q EXCEPT !.ready_queue = <<>>]

(* do_try_wait with an event for thread t at position i.  An edge-         *)
(* triggered object's emitter is cleared, which notifies its listeners     *)
(* again.  rq and held are as in Unblock.                                  *)
TryWaitReady(t, p, i, rq, held) ==
  LET q  == polls[p]
      id == q.ready_queue[i]
      r  == q.ready[id]
      o  == Object[id]
      l  == latest[o] \ r
      ps == [polls EXCEPT ![p] = PopReady(q, i)]
  IN  /\ i \in FirstLive(q)
      /\ event' = [thread |-> t, poll |-> p, id |-> id, readiness |-> r]
      /\ \/ /\ r = {}
            /\ halted' = "EmptyEvent"
            /\ polls' = ps
            /\ runqueue' = rq
            /\ UNCHANGED latest
         \/ /\ r # {}
            /\ o \notin EdgeTriggered
            /\ polls' = ps
            /\ runqueue' = rq
            /\ UNCHANGED <<latest, halted>>
         \/ /\ r # {}
            /\ o \in EdgeTriggered
            /\ latest' = [latest EXCEPT ![o] = l]
            /\ polls' = NotifyAll(listeners[o], l, ps)
            /\ Unblock(WokenBy(listeners[o], l, ps), rq, held, "ScheduleDeadlock")

-----------------------------------------------------------------------------
(* System calls of the current thread                                      *)

(* Thread t is in user mode and traps into the kernel. *)
Syscall(t) ==
  /\ halted = "No"
  /\ mode = "user"
  /\ current = t

(* return_to_user when the handler leaves the current thread Runnable. *)
Return == UNCHANGED <<current, mode>>

(* sys_poll_add: register the object, then compare with the latest         *)
(* readiness before the listener is inserted (one listener per poll, so an *)
(* earlier listener of the same object is replaced).                       *)
PollAdd(t, p, id, interests) ==
  LET o  == Object[id]
      ev == interests \cap latest[o]
      q  == Register(polls[p], id)
  IN  /\ Syscall(t)
      /\ <<t, p>> \in Uses
      /\ id \in handles
      /\ id \notin polls[p].objects
      /\ polls' = [polls EXCEPT ![p] = IF ev = {} THEN q ELSE Notify(q, id, ev)]
      /\ Unblock(IF ev = {} THEN {} ELSE Woken(q, id), runqueue, {}, "No")
      /\ listeners' = StoreListener(o, p, [id |-> id, interests |-> interests])
      /\ event' = NoEvent
      /\ Return
      /\ UNCHANGED <<handles, latest, state, promise, removed>>

(* PollEmitter::update_listener: the new interests. *)
UpdateListener(lis, or_mask, and_mask) ==
  [lis EXCEPT !.interests = (@ \cap and_mask) \cup or_mask]

(* sys_poll_update: change the interests of the listener, if the emitter   *)
(* still has one for this poll, and compare with the latest readiness.     *)
PollUpdate(t, p, id, or_mask, and_mask) ==
  LET o   == Object[id]
      lis == listeners[o][p]
      new == UpdateListener(lis, or_mask, and_mask)
      ev  == new.interests \cap latest[o]
  IN  /\ Syscall(t)
      /\ <<t, p>> \in Uses
      /\ id \in polls[p].objects
      /\ lis # NoListener
      /\ listeners' = StoreListener(o, p, new)
      /\ polls' = [polls EXCEPT ![p] = IF ev = {} THEN @ ELSE Notify(@, new.id, ev)]
      /\ Unblock(IF ev = {} THEN {} ELSE Woken(polls[p], new.id), runqueue, {}, "No")
      /\ event' = NoEvent
      /\ Return
      /\ UNCHANGED <<handles, latest, state, promise, removed>>

(* sys_poll_remove: forget the object and its listener.  The id stays in   *)
(* the ready queue if it is there.                                         *)
PollRemove(t, p, id) ==
  LET o == Object[id]
  IN  /\ Syscall(t)
      /\ <<t, p>> \in Uses
      /\ id \in polls[p].objects
      /\ Len(polls[p].ready_queue) <= ReadyQueueMax
      /\ polls' = [polls EXCEPT ![p] = Unregister(@, id)]
      /\ listeners' = RemoveListener(o, p)
      /\ removed' = removed \cup {<<p, id>>}
      /\ event' = NoEvent
      /\ Return
      /\ UNCHANGED <<handles, latest, state, promise, runqueue, halted>>

(* sys_poll_wait when an event is ready: it is returned at once. *)
PollWaitReturn(t, p) ==
  /\ Syscall(t)
  /\ <<t, p>> \in Uses
  /\ \E i \in LiveAt(polls[p]) : TryWaitReady(t, p, i, runqueue, {})
  /\ Return
  /\ UNCHANGED <<handles, listeners, state, promise, removed>>

(* sys_poll_wait when none is ready: join the waiters and block. *)
PollWaitBlock(t, p) ==
  /\ Syscall(t)
  /\ <<t, p>> \in Uses
  /\ LiveAt(polls[p]) = {}
  /\ polls' = [polls EXCEPT ![p] = JoinWaiters(DropStale(@), t)]
  /\ state' = [state EXCEPT ![t] = "Blocked"]
  /\ promise' = [promise EXCEPT ![t] = p]
  /\ mode' = "sched"
  /\ event' = NoEvent
  /\ UNCHANGED <<handles, latest, listeners, runqueue, current, halted, removed>>

(* sys_thread_spawn: a Runnable thread, its handle, and a run-queue entry. *)
ThreadSpawn(t, id) ==
  /\ Syscall(t)
  /\ id \notin handles
  /\ Object[id] \in Threads
  /\ state[Object[id]] = "Unborn"
  /\ handles' = handles \cup {id}
  /\ state' = [state EXCEPT ![Object[id]] = "Runnable"]
  /\ runqueue' = Push(Object[id])
  /\ event' = NoEvent
  /\ Return
  /\ UNCHANGED <<latest, listeners, polls, promise, halted, removed>>

(* sys_thread_exit: Thread::exit emits while it holds the thread's lock. *)
ThreadExit(t) ==
  /\ Syscall(t)
  /\ state' = [state EXCEPT ![t] = "Exited"]
  /\ Emit(t, latest[t] \cup {"PEER_CLOSED"}, {t}, "ExitDeadlock")
  /\ mode' = "sched"
  /\ event' = NoEvent
  /\ UNCHANGED <<handles, listeners, promise, current, removed>>

(* sys_handle_close on a thread that is still alive: Thread::close emits   *)
(* while it holds the thread's lock.  A thread may close its own handle.   *)
ThreadClose(t, id) ==
  LET c == Object[id]
  IN  /\ Syscall(t)
      /\ id \in handles
      /\ c \in Threads
      /\ state[c] \in {"Runnable", "Blocked"}
      /\ handles' = handles \ {id}
      /\ state' = [state EXCEPT ![c] = "Destroyed"]
      /\ Emit(c, latest[c] \cup {"PEER_CLOSED"}, {c}, "CloseDeadlock")
      /\ mode' = IF c = t THEN "sched" ELSE mode
      /\ event' = NoEvent
      /\ UNCHANGED <<listeners, promise, current, removed>>

(* sys_handle_close on anything else, a finished thread included: only the *)
(* table entry goes.  A poll that listens on the object keeps it alive.    *)
HandleClose(t, id) ==
  /\ Syscall(t)
  /\ id \in handles
  /\ Object[id] \in Threads => state[Object[id]] \in {"Exited", "Destroyed"}
  /\ handles' = handles \ {id}
  /\ event' = NoEvent
  /\ Return
  /\ UNCHANGED <<latest, listeners, polls, state, promise, runqueue, halted, removed>>

(* PollEmitter::set and clear as the system calls on channels, timers and  *)
(* interrupts invoke them: Channel::send, try_recv and close raise and     *)
(* lower bits; Timer::set and Interrupt::acknowledge lower READABLE.       *)
SourceSet(t, o, bit) ==
  /\ Syscall(t)
  /\ Emit(o, latest[o] \cup {bit}, {}, "No")
  /\ event' = NoEvent
  /\ Return
  /\ UNCHANGED <<handles, listeners, state, promise, removed>>

SourceClear(t, o, bit) ==
  /\ Syscall(t)
  /\ Emit(o, latest[o] \ {bit}, {}, "No")
  /\ event' = NoEvent
  /\ Return
  /\ UNCHANGED <<handles, listeners, state, promise, removed>>

-----------------------------------------------------------------------------
(* Interrupts and the scheduler                                            *)

(* handle_irq raises READABLE from an interrupt, which can arrive in user  *)
(* mode or in arch::idle().  return_to_user then resumes the current       *)
(* thread, or looks for another one.                                       *)
Interrupt(o) ==
  /\ halted = "No"
  /\ mode \in {"user", "idle"}
  /\ Emit(o, latest[o] \cup {"READABLE"}, {}, "No")
  /\ mode' = IF mode = "idle" THEN "sched" ELSE mode
  /\ event' = NoEvent
  /\ UNCHANGED <<handles, listeners, state, promise, current, removed>>

(* Timer::fire: the timer interrupt fires every expired timer before it    *)
(* returns.  In user mode the next one is one more step; out of arch::idle *)
(* the mode is "fire" until the last one.                                  *)
TimerFire(o) ==
  /\ halted = "No"
  /\ mode \in {"user", "idle", "fire"}
  /\ Emit(o, latest[o] \cup {"READABLE"}, {}, "No")
  /\ IF mode = "user" THEN mode' = mode ELSE mode' \in {"fire", "sched"}
  /\ event' = NoEvent
  /\ UNCHANGED <<handles, listeners, state, promise, current, removed>>

(* One iteration of the loop of schedule(), for the thread t popped.       *)
Schedule(t) ==
  /\ halted = "No"
  /\ mode = "sched"
  /\ runqueue # <<>>
  /\ t = Head(runqueue)

(* Mutant: CurrentThread::update is forgotten. *)
SwitchToStale(t) ==
  /\ current' = current
  /\ mode' = "user"

SwitchTo(t) ==
  /\ current' = t
  /\ mode' = "user"

ScheduleRunnable(t) ==
  /\ Schedule(t)
  /\ state[t] = "Runnable"
  /\ runqueue' = PopNext
  /\ SwitchTo(t)
  /\ event' = NoEvent
  /\ UNCHANGED <<handles, latest, listeners, polls, state, promise, halted, removed>>

(* Promise::poll returns an event: the thread becomes Runnable and runs.   *)
(* schedule() holds the thread's lock while it polls.                      *)
SchedulePollReady(t) ==
  /\ Schedule(t)
  /\ state[t] = "Blocked"
  /\ \E i \in LiveAt(polls[promise[t]]) : TryWaitReady(t, promise[t], i, PopNext, {t})
  /\ state' = [state EXCEPT ![t] = "Runnable"]
  /\ SwitchTo(t)
  /\ UNCHANGED <<handles, listeners, promise, removed>>

(* Promise::poll returns None: the thread stays Blocked, and is skipped.   *)
SchedulePollNone(t) ==
  /\ Schedule(t)
  /\ state[t] = "Blocked"
  /\ LiveAt(polls[promise[t]]) = {}
  /\ polls' = [polls EXCEPT ![promise[t]] = DropStale(@)]
  /\ runqueue' = PopNext
  /\ event' = NoEvent
  /\ UNCHANGED <<handles, latest, listeners, state, promise, current, mode, halted, removed>>

ScheduleDestroyed(t) ==
  /\ Schedule(t)
  /\ state[t] = "Destroyed"
  /\ runqueue' = PopNext
  /\ event' = NoEvent
  /\ UNCHANGED <<handles, latest, listeners, polls, state, promise, current, mode, halted, removed>>

ScheduleIdle ==
  /\ halted = "No"
  /\ mode = "sched"
  /\ runqueue = <<>>
  /\ mode' = "idle"
  /\ event' = NoEvent
  /\ UNCHANGED <<handles, latest, listeners, polls, state, promise, runqueue, current, halted, removed>>

-----------------------------------------------------------------------------
(* startup.rs pushes one thread per application on the run queue, then     *)
(* boot enters return_to_user with the idle thread as the current one.     *)
Init ==
  /\ handles = {id \in Ids : Object[id] \in Sources}
  /\ latest = [o \in Objects |-> InitialReadiness(o)]
  /\ listeners = [o \in Objects |-> [p \in Polls |-> NoListener]]
  /\ polls = [p \in Polls |-> NewPoll]
  /\ state = [t \in Threads |-> IF t \in BootThreads THEN "Runnable" ELSE "Unborn"]
  /\ promise = [t \in Threads |-> NoPoll]
  /\ runqueue \in Orders(BootThreads)
  /\ current = IdleThread
  /\ mode = "sched"
  /\ event = NoEvent
  /\ halted = "No"
  /\ removed = {}

PollSyscall(t) ==
  \/ \E p \in Polls, id \in Ids, m \in Masks : PollAdd(t, p, id, m)
  \/ \E p \in Polls, id \in Ids, m \in Masks :
       \/ PollUpdate(t, p, id, m, Readiness)
       \/ PollUpdate(t, p, id, {}, Readiness \ m)
  \/ \E p \in Polls, id \in Ids : PollRemove(t, p, id)
  \/ \E p \in Polls : PollWaitReturn(t, p) \/ PollWaitBlock(t, p)

ThreadSyscall(t) ==
  \/ \E id \in Ids : ThreadSpawn(t, id) \/ ThreadClose(t, id) \/ HandleClose(t, id)
  \/ ThreadExit(t)

SourceSyscall(t) ==
  \/ \E o \in Channels, bit \in Readiness : SourceSet(t, o, bit)
  \/ \E o \in Channels, bit \in {"READABLE", "WRITABLE"} : SourceClear(t, o, bit)
  \/ \E o \in Timers \cup Irqs : SourceClear(t, o, "READABLE")

ScheduleStep ==
  \/ \E t \in Threads : \/ ScheduleRunnable(t)
                        \/ SchedulePollReady(t)
                        \/ SchedulePollNone(t)
                        \/ ScheduleDestroyed(t)
  \/ ScheduleIdle

Next ==
  \/ \E t \in Threads : PollSyscall(t) \/ ThreadSyscall(t) \/ SourceSyscall(t)
  \/ \E o \in Irqs : Interrupt(o)
  \/ \E o \in Timers : TimerFire(o)
  \/ ScheduleStep

Spec == Init /\ [][Next]_vars
-----------------------------------------------------------------------------
(* Properties                                                              *)

NoDuplicates(s) == \A i, j \in DOMAIN s : s[i] = s[j] => i = j

Waiting(t, p) == InSeq(t, polls[p].waiters)

Queued(t) == InSeq(t, runqueue)

OnCpu(t) == mode = "user" /\ current = t

(* An event is pending in poll p: do_try_wait would return one. *)
Pending(p) == LiveAt(polls[p]) # {}

(* Types, and there is always a thread to run in user mode. *)
TypeOK ==
  /\ handles \subseteq Ids
  /\ latest \in [Objects -> SUBSET Readiness]
  /\ listeners \in [Objects -> [Polls -> Listener]]
  /\ polls \in [Polls -> PollState]
  /\ state \in [Threads -> ThreadState]
  /\ promise \in [Threads -> Polls \cup {NoPoll}]
  /\ runqueue \in Seq(Threads)
  /\ current \in Threads \cup {IdleThread}
  /\ mode \in {"user", "sched", "idle", "fire"}
  /\ mode = "user" => current \in Threads
  /\ event \in PollEvent \cup {NoEvent}
  /\ halted \in Halts
  /\ removed \subseteq Polls \X Ids

(* A thread is in at most one place: on the CPU, in the run queue, or      *)
(* among the waiters of one poll; and in a queue at most once.  A second   *)
(* entry would let schedule() switch to a thread that runs or waits        *)
(* elsewhere (thread.rs schedule, poll.rs notify and wait).                *)
OnePlace ==
  /\ NoDuplicates(runqueue)
  /\ \A p \in Polls : NoDuplicates(polls[p].waiters)
  /\ \A t \in Threads :
       /\ OnCpu(t) => ~Queued(t) /\ \A p \in Polls : ~Waiting(t, p)
       /\ Queued(t) => \A p \in Polls : ~Waiting(t, p)
       /\ \A p, q \in Polls : Waiting(t, p) /\ Waiting(t, q) => p = q

(* schedule() never meets the states its match calls unreachable!(), and   *)
(* the waiter that Poll::notify takes was Blocked when it joined.          *)
QueuedStates ==
  /\ \A t \in Threads : Queued(t) => state[t] \in {"Runnable", "Blocked", "Destroyed"}
  /\ \A t \in Threads, p \in Polls :
       Waiting(t, p) => /\ state[t] \in {"Blocked", "Destroyed"}
                        /\ promise[t] = p

(* No runnable thread is lost: it is on the CPU or in the run queue, where *)
(* schedule() finds it; and only a Runnable thread is ever on the CPU      *)
(* (thread.rs schedule, scheduler.rs).                                     *)
RunnableScheduled ==
  \A t \in Threads : /\ state[t] = "Runnable" => OnCpu(t) \/ Queued(t)
                     /\ OnCpu(t) => state[t] = "Runnable"

(* schedule() and Thread::exit hold a thread's spinlock while the emitter  *)
(* unblocks waiters; they never try to take that same lock again (poll.rs  *)
(* module comment, spinlock.rs lock).                                      *)
NoSelfDeadlock == halted \notin {"ScheduleDeadlock", "ExitDeadlock"}

(* The two halves of a registration agree: the listener that an emitter    *)
(* keeps for a poll names an id which that poll has registered for that    *)
(* object, so Poll::notify's early return is never taken.                  *)
ListenersRegistered ==
  \A o \in Objects, p \in Polls :
    listeners[o][p] # NoListener =>
      /\ listeners[o][p].id \in polls[p].objects
      /\ Object[listeners[o][p].id] = o

(* An object with pending events is in the ready queue, whatever was       *)
(* removed and added before: no recorded event can be forgotten.           *)
ReadyIsQueued ==
  \A p \in Polls : \A id \in polls[p].objects :
    polls[p].ready[id] # {} => InSeq(id, polls[p].ready_queue)

(* For an id that was never removed from the poll, the ready queue is      *)
(* exact: the id is in it once if it has pending events, else not at all.  *)
ReadyQueueExact ==
  \A p \in Polls : \A id \in Ids :
    <<p, id>> \notin removed =>
      /\ InSeq(id, polls[p].ready_queue) <=> id \in polls[p].objects /\ polls[p].ready[id] # {}
      /\ \A i, j \in DOMAIN polls[p].ready_queue :
           polls[p].ready_queue[i] = id /\ polls[p].ready_queue[j] = id => i = j

(* Every event that poll_wait returns has a readiness bit, as do_try_wait  *)
(* asserts, as long as the id was never removed from the poll.             *)
EventNotEmpty ==
  event # NoEvent /\ <<event.poll, event.id>> \notin removed => event.readiness # {}

(* Each poll is used by one thread only, as an EventLoop is. *)
ExclusivePolls ==
  \A t, u \in Threads, p \in Polls : <<t, p>> \in Uses /\ <<u, p>> \in Uses => t = u

(* A blocked thread can still make progress: it waits where Poll::notify   *)
(* finds it, or schedule() will poll its promise ("contains the complete   *)
(* state to make progress", thread.rs Promise).                            *)
BlockedCanProgress ==
  \A t \in Threads : state[t] = "Blocked" => Queued(t) \/ Waiting(t, promise[t])

(* No lost wakeup: a thread that still waits on a poll has no event        *)
(* pending there, so it never sleeps while poll_wait would return.         *)
NoLostWakeup ==
  \A t \in Threads, p \in Polls :
    state[t] = "Blocked" /\ Waiting(t, p) => ~Pending(p)

(* Thread::unblock is only called on a Blocked thread, as its debug_assert *)
(* says.                                                                   *)
UnblockFindsBlocked == halted # "UnblockNotBlocked"

(* do_try_wait's debug_assert!(!readiness.is_empty()) never fails. *)
ReadyNeverEmpty == halted # "EmptyEvent"
=============================================================================
