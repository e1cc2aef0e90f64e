------------------------------ MODULE ReseaIpc ------------------------------
(***************************************************************************)
(* The kernel of Resea (resea-old-c-userland/kernel): channels, the IPC    *)
(* system call, notifications, the run queue and the kernel server thread. *)
(*                                                                         *)
(* The kernel runs on one CPU with interrupts off; a step is what runs     *)
(* between two context switches.  A thread that blocks inside sys_ipc()    *)
(* continues at pc[t] when it is scheduled again.  Destroying a channel    *)
(* calls itself through channel_link(); those nested calls are the stack   *)
(* todo, and while it is not empty nothing else runs.  Failed assertions   *)
(* and accesses to freed objects stop the model with a reason in halted.   *)
(* A channel id and the channel object are one: a freed slot is reused.    *)
(* The pager that fills a page is external: it answers some time later.    *)
(* None of the processes is init, whose exit is a panic.                   *)
(***************************************************************************)
EXTENDS Naturals, FiniteSets, SequencesExt

CONSTANTS
  None,        \* NULL
  Kernel,      \* kernel_process
  Procs,       \* the user processes
  Ks,          \* the kernel server thread
  Idle,        \* the idle thread
  Users,       \* the user threads
  ProcessOf,   \* the process of each thread
  Chans,       \* slots of the object arena used for channels
  ServerCh,    \* kernel_server_ch
  KernelEnd,   \* the kernel's end of the connection of each process
  UserEnd,     \* the process's end
  Programs,    \* sets of message types that the user programs send, "link" for
               \* those that make link and transfer calls
  LinkMax      \* bound on the number of link and transfer calls, for TLC

VARIABLES
  chan,        \* slot -> channel
  threads,     \* threads that exist
  blocked,     \* thread -> bool
  abort,       \* thread -> abort_reason
  blockedOn,   \* thread -> channel whose sender queue holds it
  pc,          \* thread -> where it is in the kernel
  buf,         \* thread -> ipc_buffer
  runqueue,
  current,
  listeners,   \* channels of active_irq_listeners
  todo,        \* nested calls that remain
  links,       \* link and transfer calls so far
  program,     \* the message types of this behaviour, an element of Programs
  halted

vars == <<chan, threads, blocked, abort, blockedOn, pc, buf, runqueue, current,
          listeners, todo, links, program, halted>>

Free == [owner |-> None]
(* A message; `to` is the receiver that its sender has taken off a channel *)
(* while the page of the message is filled.                                *)
Empty == [hdr |-> "none", from |-> None, ch |-> None, notif |-> FALSE, to |-> None]
User == [at |-> "user", ch |-> None, recv |-> FALSE]
Live(c) == chan[c] # Free

(* channel_create: the fields of a new channel. *)
NewChannel(c, p) ==
  [owner |-> p, ref |-> 1, destructed |-> FALSE, link |-> c, xfer |-> c,
   receiver |-> None, queue |-> <<>>, notif |-> FALSE]

(* channel_link of two different channels; the old partners keep theirs. *)
Link(H, x, y) ==
  [H EXCEPT ![x].link = y, ![y].link = x, ![x].ref = @ + 1, ![y].ref = @ + 1]

(* channel_transfer to another channel. *)
Transfer(H, src, dst) == [H EXCEPT ![src].xfer = dst, ![dst].ref = @ + 1]

FreeSlots(H) == {c \in Chans : H[c] = Free}
Fresh(H) == CHOOSE c \in Chans : H[c] = Free
Table(p) == {c \in Chans : Live(c) /\ chan[c].owner = p}

(* thread_resume *)
Resume(Q, B, t) == IF B[t] THEN Append(Q, t) ELSE Q

(* thread_switch, with scheduler(): the current thread is already queued or *)
(* blocked.                                                                 *)
SwitchFrom(Q) ==
  /\ current' = IF Q = <<>> THEN Idle ELSE Head(Q)
  /\ runqueue' = IF Q = <<>> THEN Q ELSE Tail(Q)

Halt(reason) ==
  /\ halted' = reason
  /\ UNCHANGED <<chan, threads, blocked, abort, blockedOn, pc, buf, runqueue,
                 current, listeners, todo, links>>

-----------------------------------------------------------------------------
(* userland() and the connections made at boot: every process has a        *)
(* channel linked with one of the kernel's, which transfers to the server  *)
(* channel.                                                                *)
BootChannel(c) ==
  IF c = ServerCh
  THEN [NewChannel(c, Kernel) EXCEPT !.ref = 1 + Cardinality(Procs), !.receiver = Ks]
  ELSE IF \E p \in Procs : c = KernelEnd[p]
  THEN [NewChannel(c, Kernel) EXCEPT !.ref = 2, !.xfer = ServerCh,
          !.link = UserEnd[CHOOSE p \in Procs : c = KernelEnd[p]]]
  ELSE IF \E p \in Procs : c = UserEnd[p]
  THEN LET p == CHOOSE q \in Procs : c = UserEnd[q]
       IN  [NewChannel(c, p) EXCEPT !.ref = 2, !.link = KernelEnd[p]]
  ELSE Free

(* boot(): the kernel server has run first and waits for a request. *)
Init ==
  /\ chan = [c \in Chans |-> BootChannel(c)]
  /\ threads = Users \cup {Ks}
  /\ blocked = [t \in threads |-> t = Ks]
  /\ abort = [t \in threads |-> "OK"]
  /\ blockedOn = [t \in threads |-> None]
  /\ pc = [t \in threads |->
             IF t = Ks THEN [User EXCEPT !.at = "receiving", !.ch = ServerCh] ELSE User]
  /\ buf = [t \in threads |-> Empty]
  /\ \E q \in SetToSeqs(Users) : current = Head(q) /\ runqueue = Tail(q)
  /\ listeners = {}
  /\ todo = <<>>
  /\ links = 0
  /\ program \in Programs
  /\ halted = "No"

(* Interrupts are taken in user mode or while the CPU is idle. *)
Interruptible ==
  /\ halted = "No"
  /\ todo = <<>>
  /\ current = Idle \/ (current \in threads /\ pc[current].at = "user")

Running(t, at) ==
  /\ halted = "No"
  /\ todo = <<>>
  /\ current = t
  /\ t \in threads
  /\ pc[t].at = at

-----------------------------------------------------------------------------
(* sys_ipc *)

(* Where a thread continues when it has sent, or failed to: in the user    *)
(* program, or the loop of the kernel server, which ignores errors; and    *)
(* when it has received, or failed to: the kernel server then looks at its *)
(* buffer.                                                                 *)
Returned(t) == IF t = Ks THEN [User EXCEPT !.at = "loop"] ELSE User
Received(t) == IF t = Ks THEN [User EXCEPT !.at = "serve"] ELSE User

(* The receive phase of t on channel c, on the heap H, with the blocked    *)
(* flags B and run queue Q that the send phase left.  A sender that waits  *)
(* is resumed to try again.                                                *)
ReceivePhase(t, c, H, B, Q) ==
  LET rc == H[c].xfer
      closed == H[rc].destructed \/ H[rc].receiver # None
      waiting == H[rc].queue
      s == Head(waiting)
      B1 == [B EXCEPT ![t] = TRUE]
  IN
  \/ /\ closed
     /\ chan' = H
     /\ blocked' = B
     /\ pc' = [pc EXCEPT ![t] = Received(t)]
     /\ runqueue' = Q
     /\ UNCHANGED <<blockedOn, current>>
  \/ /\ ~closed
     /\ pc' = [pc EXCEPT ![t] = [at |-> "receiving", ch |-> rc, recv |-> TRUE]]
     /\ IF waiting = <<>>
        THEN /\ chan' = [H EXCEPT ![rc].receiver = t]
             /\ blocked' = B1
             /\ SwitchFrom(Q)
             /\ UNCHANGED blockedOn
        ELSE /\ chan' = [H EXCEPT ![rc].receiver = t, ![rc].queue = Tail(@)]
             /\ blocked' = [B1 EXCEPT ![s] = FALSE]
             /\ blockedOn' = [blockedOn EXCEPT ![s] = None]
             /\ SwitchFrom(Resume(Q, B1, s))

(* What follows a send that succeeded: the receive phase, or the return. *)
AfterSend(t, c, recv, H, B, Q) ==
  IF recv
  THEN ReceivePhase(t, c, H, B, Q)
  ELSE /\ chan' = H
       /\ blocked' = B
       /\ pc' = [pc EXCEPT ![t] = Returned(t)]
       /\ runqueue' = Q
       /\ UNCHANGED <<blockedOn, current>>

(* The places of a receiver that a sender has taken off its channel. *)
Taken(at) == IF at = "fastpath" THEN "takenfast" ELSE "taken"
Untaken(at) == IF at = "takenfast" THEN "fastpath" ELSE "receiving"

(* The message m of t reaches the receiver r that waits on dst.  A channel *)
(* payload becomes a new channel of the receiver, linked with the partner  *)
(* of the sender's.  A page payload may be refused by the receiver, unless *)
(* it is the kernel, and may have to be filled first: then the sender      *)
(* waits for its pager, and the receiver for the sender.  When the payload *)
(* fails the receiver is not resumed.                                      *)
Deliver(t, c, recv, m) ==
  LET lw == chan[c].link
      dst == chan[lw].xfer
      r == chan[dst].receiver
      H == [chan EXCEPT ![dst].receiver = None]
      B == [blocked EXCEPT ![r] = FALSE]
      Q == Resume(runqueue, blocked, r)
      arrived == [Empty EXCEPT !.hdr = m.hdr, !.from = lw]
      bad == m.ch # None /\ (m.ch \notin Table(ProcessOf[t]) \/ FreeSlots(chan) = {})
      n == Fresh(chan)
      lost == ~bad /\ ~((m.ch # None => Live(chan[m.ch].link)) /\ (recv => Live(chan[c].xfer)))
  IN
  \/ /\ m.ch = None
     /\ ~lost
     /\ buf' = [buf EXCEPT ![r] = arrived, ![t] = Empty]
     /\ AfterSend(t, c, recv, H, B, Q)
     /\ UNCHANGED <<abort, threads, listeners, todo, links, halted>>
  \/ /\ bad \/ (m.hdr = "page" /\ r # Ks)
     /\ abort' = [abort EXCEPT ![r] = "NEEDS_RETRY"]
     /\ buf' = [buf EXCEPT ![r] = arrived, ![t] = Empty]
     /\ chan' = H
     /\ pc' = [pc EXCEPT ![t] = Returned(t)]
     /\ UNCHANGED <<blocked, runqueue, current, blockedOn, threads, listeners, todo,
                    links, halted>>
  \/ /\ m.ch # None
     /\ ~bad
     /\ ~lost
     /\ buf' = [buf EXCEPT ![r] = [arrived EXCEPT !.ch = n], ![t] = Empty]
     /\ AfterSend(t, c, recv,
          Link([H EXCEPT ![n] = NewChannel(n, ProcessOf[r])], chan[m.ch].link, n),
          B, Q)
     /\ UNCHANGED <<abort, threads, listeners, todo, links, halted>>
  \/ /\ m.hdr = "page"
     /\ buf' = [buf EXCEPT ![r] = arrived, ![t] = [m EXCEPT !.to = r]]
     /\ chan' = H
     /\ blocked' = [blocked EXCEPT ![t] = TRUE]
     /\ pc' = [pc EXCEPT ![t] = [at |-> "filling", ch |-> c, recv |-> recv],
                         ![r].at = Taken(@)]
     /\ SwitchFrom(runqueue)
     /\ UNCHANGED <<abort, blockedOn, threads, listeners, todo, links, halted>>
  \/ /\ lost
     /\ Halt("use after free")

(* The loop of the send phase: once for each time the thread looks for a   *)
(* receiver.                                                               *)
SendPhase(t, c, recv, noblock, m) ==
  LET lw == chan[c].link
      dst == chan[lw].xfer
      there == /\ Live(c) /\ Live(lw) /\ Live(dst)
               /\ chan[dst].destructed \/ chan[dst].receiver \in threads \cup {None}
  IN
  \/ /\ ~there
     /\ Halt("use after free")
  \/ /\ there
     /\ chan[dst].destructed \/ (chan[dst].receiver = None /\ noblock)
     /\ pc' = [pc EXCEPT ![t] = Returned(t)]
     /\ buf' = [buf EXCEPT ![t] = Empty]
     /\ UNCHANGED <<chan, threads, blocked, abort, blockedOn, runqueue, current,
                    listeners, todo, links, halted>>
  \/ /\ there
     /\ ~chan[dst].destructed
     /\ chan[dst].receiver # None
     /\ Deliver(t, c, recv, m)
  \/ /\ there
     /\ ~chan[dst].destructed
     /\ chan[dst].receiver = None
     /\ ~noblock
     /\ chan' = [chan EXCEPT ![dst].queue = Append(@, t)]
     /\ blockedOn' = [blockedOn EXCEPT ![t] = dst]
     /\ blocked' = [blocked EXCEPT ![t] = TRUE]
     /\ pc' = [pc EXCEPT ![t] = [at |-> "sending", ch |-> c, recv |-> recv]]
     /\ buf' = [buf EXCEPT ![t] = m]
     /\ SwitchFrom(runqueue)
     /\ UNCHANGED <<threads, abort, listeners, todo, links, halted>>

(* sys_ipc_fastpath: a call whose partner waits, with no payload and nobody *)
(* waiting for the caller; it switches to the receiver directly.            *)
FastpathOk(t, c, m) ==
  LET lw == chan[c].link
      dst == chan[lw].xfer
      rc == chan[c].xfer
  IN  /\ Live(lw) /\ Live(dst) /\ Live(rc)
      /\ m.ch = None /\ m.hdr # "page"
      /\ ~chan[c].destructed /\ ~chan[rc].destructed /\ ~chan[dst].destructed
      /\ chan[rc].receiver = None
      /\ chan[rc].queue = <<>>
      /\ chan[dst].receiver \in threads

Fastpath(t, c, m) ==
  LET lw == chan[c].link
      dst == chan[lw].xfer
      rc == chan[c].xfer
      r == chan[dst].receiver
  IN  /\ chan' = [[chan EXCEPT ![rc].receiver = t] EXCEPT ![dst].receiver = None]
      /\ blocked' = [blocked EXCEPT ![t] = TRUE, ![r] = FALSE]
      /\ pc' = [pc EXCEPT ![t] = [at |-> "fastpath", ch |-> rc, recv |-> TRUE]]
      /\ buf' = [buf EXCEPT ![r] = [Empty EXCEPT !.hdr = m.hdr, !.from = lw], ![t] = Empty]
      /\ current' = r
      /\ UNCHANGED <<threads, abort, blockedOn, runqueue, listeners, todo, links, halted>>

(* The messages a user program may send: a request without payload, or one *)
(* with one of its channels, which it may have closed.                     *)
Messages(t) ==
  {[Empty EXCEPT !.hdr = h] : h \in program \ {"give", "listen", "link"}}
    \cup {[Empty EXCEPT !.hdr = h, !.ch = c] :
            h \in program \cap {"give", "listen"}, c \in Table(ProcessOf[t])}

(* The ipc system call of a user thread with IPC_SEND. *)
SysIpcSend(t) ==
  /\ Running(t, "user")
  /\ \E c \in Table(ProcessOf[t]), recv, noblock \in BOOLEAN, m \in Messages(t) :
       /\ ~chan[c].destructed
       /\ IF recv /\ FastpathOk(t, c, m)
          THEN Fastpath(t, c, m)
          ELSE SendPhase(t, c, recv, noblock, m)

(* The ipc system call of a user thread with IPC_RECV alone. *)
SysIpcRecv(t) ==
  /\ Running(t, "user")
  /\ \E c \in Table(ProcessOf[t]) :
       /\ ~chan[c].destructed
       /\ IF Live(chan[c].xfer)
          THEN /\ ReceivePhase(t, c, chan, blocked, runqueue)
               /\ UNCHANGED <<threads, abort, buf, listeners, todo, links, halted>>
          ELSE Halt("use after free")

(* sys_ipc after thread_switch() in the send phase. *)
ResumeSend(t) ==
  /\ Running(t, "sending")
  /\ IF abort[t] # "OK"
     THEN /\ abort' = [abort EXCEPT ![t] = "OK"]
          /\ pc' = [pc EXCEPT ![t] = Returned(t)]
          /\ buf' = [buf EXCEPT ![t] = Empty]
          /\ blockedOn' = [blockedOn EXCEPT ![t] = None]
          /\ UNCHANGED <<chan, threads, blocked, runqueue, current, listeners, todo,
                         links, halted>>
     ELSE SendPhase(t, pc[t].ch, pc[t].recv, FALSE, buf[t])

(* page_fault_handler in the send phase: the pager has answered. *)
PagerReplies(t) ==
  /\ Interruptible
  /\ t \in threads /\ pc[t].at = "filling" /\ blocked[t]
  /\ blocked' = [blocked EXCEPT ![t] = FALSE]
  /\ runqueue' = Append(runqueue, t)
  /\ UNCHANGED <<chan, threads, abort, blockedOn, pc, buf, current, listeners, todo, links,
                 halted>>

(* The page is there: the receiver, which the sender still points to, gets *)
(* it or refuses it; or the pager failed, and the current thread is killed,*)
(* which is not implemented.                                               *)
ResumeFill(t) ==
  LET r == buf[t].to
      back == [pc EXCEPT ![r].at = Untaken(@)]
      held == r \in threads /\ pc[r].at \in {"taken", "takenfast"}
  IN
  /\ Running(t, "filling")
  /\ \/ Halt("unimplemented")
     \/ r \notin threads /\ Halt("use after free")
     \/ /\ held
        /\ blocked' = [blocked EXCEPT ![r] = FALSE]
        /\ runqueue' = Resume(runqueue, blocked, r)
        /\ pc' = [back EXCEPT ![t].at = "filled"]
        /\ UNCHANGED <<chan, threads, abort, blockedOn, buf, current, listeners, todo,
                       links, halted>>
     \/ /\ held /\ r # Ks
        /\ abort' = [abort EXCEPT ![r] = "NEEDS_RETRY"]
        /\ pc' = [back EXCEPT ![t] = Returned(t)]
        /\ buf' = [buf EXCEPT ![t] = Empty]
        /\ UNCHANGED <<chan, threads, blocked, blockedOn, runqueue, current, listeners,
                       todo, links, halted>>

(* The rest of sys_ipc; the kernel goes on from ResumeFill at once. *)
AfterFill(t) ==
  LET c == pc[t].ch
  IN
  /\ Running(t, "filled")
  /\ IF pc[t].recv /\ ~(Live(c) /\ Live(chan[c].xfer)) THEN Halt("use after free")
     ELSE /\ AfterSend(t, c, pc[t].recv, chan, blocked, runqueue)
          /\ buf' = [buf EXCEPT ![t] = Empty]
          /\ UNCHANGED <<threads, abort, listeners, todo, links, halted>>

(* sys_ipc after thread_switch() in the receive phase: an abort is         *)
(* returned, a message is taken together with the pending notifications.   *)
(* The fast path takes them before it looks at the abort.  A user program  *)
(* then forgets the message.                                               *)
ResumeReceive(t) ==
  /\ Running(t, "receiving") \/ Running(t, "fastpath")
  /\ LET rc == pc[t].ch
         takes == abort[t] = "OK" \/ pc[t].at = "fastpath"
     IN
     \/ /\ takes
        /\ ~Live(rc)
        /\ Halt("use after free")
     \/ /\ takes => Live(rc)
        /\ abort' = [abort EXCEPT ![t] = "OK"]
        /\ chan' = IF takes THEN [chan EXCEPT ![rc].notif = FALSE] ELSE chan
        /\ pc' = [pc EXCEPT ![t] = Received(t)]
        /\ buf' = [buf EXCEPT ![t] =
                     IF t = Ks THEN (IF takes THEN [@ EXCEPT !.notif = chan[rc].notif] ELSE @)
                     ELSE Empty]
        /\ UNCHANGED <<threads, blocked, blockedOn, runqueue, current, listeners, todo,
                       links, halted>>

-----------------------------------------------------------------------------
(* The other system calls. *)

(* sys_open *)
SysOpen(t) ==
  /\ Running(t, "user")
  /\ FreeSlots(chan) # {}
  /\ LET n == Fresh(chan)
     IN  chan' = [chan EXCEPT ![n] = NewChannel(n, ProcessOf[t])]
  /\ UNCHANGED <<threads, blocked, abort, blockedOn, pc, buf, runqueue, current,
                 listeners, todo, links, halted>>

(* sys_close: channel_destroy of any channel of the table. *)
SysClose(t) ==
  /\ Running(t, "user")
  /\ \E c \in Table(ProcessOf[t]) : todo' = <<[op |-> "destroy", ch |-> c]>>
  /\ UNCHANGED <<chan, threads, blocked, abort, blockedOn, pc, buf, runqueue, current,
                 listeners, links, halted>>

Unlink(c) == <<[op |-> "unlink", ch |-> c], [op |-> "unlink", ch |-> c],
               [op |-> "selflink", ch |-> c]>>
Untransfer(c) == <<[op |-> "untransfer", ch |-> c]>>

(* sys_link: with itself the channel gives its partner up. *)
SysLink(t) ==
  /\ Running(t, "user")
  /\ "link" \in program /\ links < LinkMax
  /\ links' = links + 1
  /\ \E x, y \in Table(ProcessOf[t]) :
       IF x = y
       THEN todo' = Unlink(x) /\ UNCHANGED chan
       ELSE chan' = Link(chan, x, y) /\ UNCHANGED todo
  /\ UNCHANGED <<threads, blocked, abort, blockedOn, pc, buf, runqueue, current,
                 listeners, halted>>

(* sys_transfer *)
SysTransfer(t) ==
  /\ Running(t, "user")
  /\ "link" \in program /\ links < LinkMax
  /\ links' = links + 1
  /\ \E x, y \in Table(ProcessOf[t]) :
       IF x = y
       THEN todo' = Untransfer(x) /\ UNCHANGED chan
       ELSE chan' = Transfer(chan, x, y) /\ UNCHANGED todo
  /\ UNCHANGED <<threads, blocked, abort, blockedOn, pc, buf, runqueue, current,
                 listeners, halted>>

(* channel_notify from channel c: the bit is set, and a receiver that      *)
(* waits gets NOTIFICATION_MSG.  It does not ask whether the destination   *)
(* is destructed.                                                          *)
Notify(c, rest) ==
  LET lw == chan[c].link
      dst == chan[lw].xfer
      r == chan[dst].receiver
  IN
  \/ /\ ~(Live(c) /\ Live(lw) /\ Live(dst) /\ r \in threads \cup {None})
     /\ Halt("use after free")
  \/ /\ Live(c) /\ Live(lw) /\ Live(dst)
     /\ r = None
     /\ chan' = [chan EXCEPT ![dst].notif = TRUE]
     /\ todo' = rest
     /\ UNCHANGED <<threads, blocked, abort, blockedOn, pc, buf, runqueue, current,
                    listeners, links, halted>>
  \/ /\ Live(c) /\ Live(lw) /\ Live(dst)
     /\ r \in threads
     /\ chan' = [chan EXCEPT ![dst].notif = TRUE, ![dst].receiver = None]
     /\ buf' = [buf EXCEPT ![r].hdr = "NOTIFICATION", ![r].from = None]
     /\ blocked' = [blocked EXCEPT ![r] = FALSE]
     /\ runqueue' = Resume(runqueue, blocked, r)
     /\ todo' = rest
     /\ UNCHANGED <<threads, abort, blockedOn, pc, current, listeners, links, halted>>

(* sys_notify *)
SysNotify(t) ==
  /\ Running(t, "user")
  /\ \E c \in Table(ProcessOf[t]) : Notify(c, <<>>)

(* deliver_interrupt: every listener of the interrupt is notified. *)
Interrupt ==
  /\ Interruptible
  /\ \E S \in SUBSET listeners : S # {} /\ todo' = <<[op |-> "irq", ch |-> S]>>
  /\ UNCHANGED <<chan, threads, blocked, abort, blockedOn, pc, buf, runqueue, current,
                 listeners, links, halted>>

(* thread_switch_by_timeout: a running thread goes to the end of the queue. *)
TimerSwitch ==
  /\ Interruptible
  /\ runqueue # <<>>
  /\ SwitchFrom(IF current = Idle THEN runqueue ELSE Append(runqueue, current))
  /\ UNCHANGED <<chan, threads, blocked, abort, blockedOn, pc, buf, listeners, todo,
                 links, halted>>

-----------------------------------------------------------------------------
(* Nested calls: channel_destroy, channel_decref, the parts of             *)
(* channel_link(ch, ch) and channel_transfer(ch, ch), the end of           *)
(* channel_decref, thread_destroy, and the loop over the listeners of an   *)
(* interrupt, here in any order.                                           *)

Decref(c, rest) ==
  IF ~Live(c) THEN Halt("use after free")
  ELSE IF chan[c].ref = 0 THEN Halt("ref_count")
  ELSE /\ chan' = [chan EXCEPT ![c].ref = @ - 1]
       /\ todo' = IF chan[c].ref > 1 THEN rest
                  ELSE Unlink(c) \o Untransfer(c) \o <<[op |-> "free", ch |-> c]>> \o rest
       /\ UNCHANGED <<threads, blocked, abort, blockedOn, pc, buf, runqueue, current,
                      listeners, links, halted>>

(* channel_destroy; DEBUG_ASSERT refuses a channel that is destructed. *)
Destroy(c, rest) ==
  IF ~Live(c) THEN Halt("use after free")
  ELSE IF chan[c].destructed THEN Halt("destructed")
  ELSE /\ chan' = [chan EXCEPT ![c].destructed = TRUE]
       /\ todo' = <<[op |-> "decref", ch |-> c]>> \o rest
       /\ UNCHANGED <<threads, blocked, abort, blockedOn, pc, buf, runqueue, current,
                      listeners, links, halted>>

(* A call that leaves the heap H: the fields it reads are those of c. *)
Pop(c, H, rest) ==
  IF ~Live(c) THEN Halt("use after free")
  ELSE /\ chan' = H
       /\ todo' = rest
       /\ UNCHANGED <<threads, blocked, abort, blockedOn, pc, buf, runqueue, current,
                      listeners, links, halted>>

(* The end of channel_decref: threads that wait are aborted and resumed;   *)
(* senders are looked up through the wrong list field.                     *)
Release(c, rest) ==
  LET r == chan[c].receiver
  IN
  IF ~Live(c) THEN Halt("use after free")
  ELSE IF chan[c].queue # <<>> \/ r \notin threads \cup {None}
  THEN Halt("bad pointer")
  ELSE /\ chan' = [chan EXCEPT ![c] = Free]
       /\ todo' = rest
       /\ IF r = None
          THEN UNCHANGED <<blocked, abort, runqueue>>
          ELSE /\ abort' = [abort EXCEPT ![r] = "CHANNEL_CLOSED"]
               /\ blocked' = [blocked EXCEPT ![r] = FALSE]
               /\ runqueue' = Resume(runqueue, blocked, r)
       /\ UNCHANGED <<threads, blockedOn, pc, buf, current, listeners, links, halted>>

(* list_remove of the entry of a thread. *)
ListRemove(q, t) ==
  IF t \in ToSet(q) THEN RemoveAt(q, CHOOSE i \in DOMAIN q : q[i] = t) ELSE q

(* thread_destroy of a thread that is not current. *)
Kill(t, rest) ==
  /\ threads' = threads \ {t}
  /\ todo' = rest
  /\ runqueue' = IF blocked[t] THEN runqueue ELSE ListRemove(runqueue, t)
  /\ chan' = IF blockedOn[t] = None \/ ~Live(blockedOn[t]) THEN chan
             ELSE [chan EXCEPT ![blockedOn[t]].queue = ListRemove(@, t)]
  /\ UNCHANGED <<blocked, abort, blockedOn, pc, buf, current, listeners, links, halted>>

Nested ==
  /\ halted = "No"
  /\ todo # <<>>
  /\ LET c == Head(todo).ch
         op == Head(todo).op
         rest == Tail(todo)
     IN
     \/ op = "destroy" /\ Destroy(c, rest)
     \/ op = "decref" /\ Decref(c, rest)
     \/ op = "unlink" /\ Pop(c, chan, IF chan[c].link # c
                                   THEN <<[op |-> "decref", ch |-> chan[c].link]>> \o rest
                                   ELSE rest)
     \/ op = "selflink" /\ Pop(c, [chan EXCEPT ![c].link = c], rest)
     \/ op = "untransfer" /\ Pop(c, [chan EXCEPT ![c].xfer = c],
                                 IF chan[c].xfer # c
                                 THEN <<[op |-> "decref", ch |-> chan[c].xfer]>> \o rest
                                 ELSE rest)
     \/ op = "free" /\ Release(c, rest)
     \/ op = "kill" /\ Kill(c, rest)
     \/ op = "irq" /\ \E l \in c :
          Notify(l, IF c = {l} THEN rest ELSE <<[op |-> "irq", ch |-> c \ {l}]>> \o rest)

-----------------------------------------------------------------------------
(* The kernel server. *)

Serves(h) == Running(Ks, "serve") /\ buf[Ks].hdr = h

Reply(m) ==
  /\ buf' = [buf EXCEPT ![Ks] = [m EXCEPT !.from = buf[Ks].from]]
  /\ pc' = [pc EXCEPT ![Ks] = [User EXCEPT !.at = "reply"]]

(* get_sender_process *)
SenderProcess == chan[chan[buf[Ks].from].link].owner
SenderKnown == buf[Ks].from \in Table(Kernel) /\ Live(chan[buf[Ks].from].link)

(* A request that changes nothing in this model (printchar), one that is   *)
(* not understood, and a notification: process_message answers them all.   *)
HandleOther ==
  /\ Running(Ks, "serve")
  /\ buf[Ks].hdr \notin {"exit", "connect", "give", "listen"}
  /\ Reply([Empty EXCEPT !.hdr = "reply"])
  /\ UNCHANGED <<chan, threads, blocked, abort, blockedOn, runqueue, current, listeners,
                 todo, links, halted>>

(* handle_server_connect: the reply carries a new channel that transfers   *)
(* to the server channel.                                                  *)
HandleConnect ==
  /\ Serves("connect")
  /\ IF FreeSlots(chan) # {} /\ ~Live(ServerCh) THEN Halt("use after free")
     ELSE /\ IF FreeSlots(chan) = {}
             THEN UNCHANGED chan /\ Reply([Empty EXCEPT !.hdr = "error"])
             ELSE LET n == Fresh(chan)
                  IN  /\ chan' = Transfer([chan EXCEPT ![n] = NewChannel(n, Kernel)], n, ServerCh)
                      /\ Reply([Empty EXCEPT !.hdr = "reply", !.ch = n])
          /\ UNCHANGED <<threads, blocked, abort, blockedOn, runqueue, current, listeners,
                         todo, links, halted>>

(* handle_io_listen_irq keeps a pointer to the channel it was sent, unless *)
(* there is no memory for the listener.                                    *)
HandleListen ==
  /\ Serves("listen")
  /\ IF buf[Ks].ch \notin Table(Kernel) THEN Halt("assertion")
     ELSE /\ \/ /\ listeners' = listeners \cup {buf[Ks].ch}
                /\ Reply([Empty EXCEPT !.hdr = "reply"])
             \/ UNCHANGED listeners /\ Reply([Empty EXCEPT !.hdr = "error"])
          /\ UNCHANGED <<chan, threads, blocked, abort, blockedOn, runqueue, current, todo,
                         links, halted>>

(* handle_process_send_channel: the channel is recreated in process p, and *)
(* the kernel's own one is destroyed.                                      *)
SendChannel(c, p) ==
  \/ /\ FreeSlots(chan) = {}
     /\ UNCHANGED chan
     /\ Reply([Empty EXCEPT !.hdr = "error"])
     /\ todo' = <<[op |-> "destroy", ch |-> c]>>
     /\ UNCHANGED halted
  \/ /\ FreeSlots(chan) # {}
     /\ ~Live(chan[c].link)
     /\ halted' = "use after free"
     /\ UNCHANGED <<chan, buf, pc, todo>>
  \/ /\ FreeSlots(chan) # {}
     /\ Live(chan[c].link)
     /\ LET n == Fresh(chan)
        IN  chan' = Link([chan EXCEPT ![n] = NewChannel(n, p)], chan[c].link, n)
     /\ Reply([Empty EXCEPT !.hdr = "reply"])
     /\ todo' = <<[op |-> "destroy", ch |-> c]>>
     /\ UNCHANGED halted
InvalidPid ==
  /\ Reply([Empty EXCEPT !.hdr = "error"])
  /\ UNCHANGED <<chan, todo, halted>>
HandleGive ==
  /\ Serves("give")
  /\ \/ buf[Ks].ch \notin Table(Kernel) /\ Halt("assertion")
     \/ /\ \/ InvalidPid
           \/ /\ buf[Ks].ch \in Table(Kernel)
              /\ \E p \in Procs : SendChannel(buf[Ks].ch, p)
        /\ UNCHANGED <<threads, blocked, abort, blockedOn, runqueue, current, listeners,
                       links>>

(* handle_runtime_exit: process_destroy of the sender's process, and no    *)
(* reply.                                                                  *)
HandleExit ==
  /\ Serves("exit")
  /\ IF ~SenderKnown THEN Halt("assertion")
     ELSE /\ LET p == SenderProcess
                 dead == SetToSeq({t \in threads : ProcessOf[t] = p})
                 own == SetToSeq(Table(p))
             IN  todo' = [i \in 1..Len(own) |-> [op |-> "destroy", ch |-> own[i]]]
                           \o [i \in 1..Len(dead) |-> [op |-> "kill", ch |-> dead[i]]]
          /\ pc' = [pc EXCEPT ![Ks] = Returned(Ks)]
          /\ buf' = [buf EXCEPT ![Ks] = Empty]
          /\ UNCHANGED <<chan, threads, blocked, abort, blockedOn, runqueue, current,
                         listeners, links, halted>>

(* mainloop: kernel_ipc(m->from, IPC_SEND), which fails if the channel is  *)
(* gone.                                                                   *)
SendReply ==
  /\ Running(Ks, "reply")
  /\ LET c == buf[Ks].from
     IN  IF c \in Table(Kernel) /\ ~chan[c].destructed
         THEN SendPhase(Ks, c, FALSE, FALSE, buf[Ks])
         ELSE /\ pc' = [pc EXCEPT ![Ks] = Returned(Ks)]
              /\ buf' = [buf EXCEPT ![Ks] = Empty]
              /\ UNCHANGED <<chan, threads, blocked, abort, blockedOn, runqueue, current,
                             listeners, todo, links, halted>>

(* mainloop: kernel_ipc(server_ch, IPC_RECV). *)
NextRequest ==
  /\ Running(Ks, "loop")
  /\ IF ServerCh \in Table(Kernel)
     THEN ReceivePhase(Ks, ServerCh, chan, blocked, runqueue)
     ELSE /\ pc' = [pc EXCEPT ![Ks] = Received(Ks)]
          /\ UNCHANGED <<chan, blocked, blockedOn, runqueue, current>>
  /\ UNCHANGED <<threads, abort, buf, listeners, todo, links, halted>>

KernelServer ==
  HandleOther \/ HandleConnect \/ HandleListen \/ HandleGive \/ HandleExit \/ SendReply
    \/ NextRequest

Next ==
  /\ \/ \E t \in Users :
          \/ SysIpcSend(t) \/ SysIpcRecv(t) \/ SysNotify(t)
          \/ SysOpen(t) \/ SysClose(t) \/ SysLink(t) \/ SysTransfer(t)
     \/ \E t \in Users \cup {Ks} :
          \/ ResumeSend(t) \/ ResumeReceive(t)
          \/ PagerReplies(t) \/ ResumeFill(t) \/ AfterFill(t)
     \/ KernelServer
     \/ Nested
     \/ Interrupt
     \/ TimerSwitch
  /\ UNCHANGED program

Spec == Init /\ [][Next]_vars

-----------------------------------------------------------------------------
(* Properties.  A nested call in progress and a stopped kernel are exempt  *)
(* from what the code restores before it returns to a thread.              *)
Settled == halted = "No" /\ todo = <<>>
Receiving(t) == pc[t].at \in {"receiving", "fastpath"}

(* Type correctness of channels, threads and the scheduler. *)
TypeOK ==
  /\ \A c \in Chans : Live(c) =>
       /\ chan[c].owner \in Procs \cup {Kernel}
       /\ chan[c].ref \in Nat
       /\ chan[c].link \in Chans /\ chan[c].xfer \in Chans
       /\ chan[c].receiver \in Users \cup {Ks, None}
       /\ chan[c].queue \in Seq(Users \cup {Ks})
  /\ threads \subseteq Users \cup {Ks}
  /\ current \in Users \cup {Ks, Idle}
  /\ runqueue \in Seq(Users \cup {Ks})
  /\ listeners \subseteq Chans
  /\ links \in 0..LinkMax

(* thread.c keeps a thread in the run queue exactly while it is not        *)
(* blocked and not current, and once: no wakeup by a message, an abort, a  *)
(* notification or an interrupt is lost, and none queues a thread twice.   *)
RunqueueExact ==
  Settled =>
    /\ IsInjective(runqueue)
    /\ \A t \in threads : t \in ToSet(runqueue) <=> ~blocked[t] /\ t # current

(* The receiver a channel remembers is blocked in the receive phase on     *)
(* this very channel, so that a sender may write into its buffer and wake  *)
(* it; and it lives, unless the channel was destructed or is another       *)
(* process's (a slot that was freed while a channel still transferred to   *)
(* it, which the reference counts of channel_link allow).                  *)
ReceiverWaits ==
  halted = "No" =>
    \A c \in Chans : Live(c) /\ chan[c].receiver # None =>
      LET r == chan[c].receiver
      IN  /\ ~chan[c].destructed /\ chan[c].owner = ProcessOf[r] => r \in threads
          /\ r \in threads => blocked[r] /\ Receiving(r) /\ pc[r].ch = c

(* A thread is in the sender queue of a channel exactly while it is        *)
(* blocked in the send phase on it; thread_destroy relies on it to unlink. *)
QueueExact ==
  Settled =>
    \A t \in threads, c \in Chans :
      (Live(c) /\ t \in ToSet(chan[c].queue))
        <=> (blockedOn[t] = c /\ blocked[t] /\ pc[t].at = "sending")

(* A thread that sleeps in the receive phase, without a pending abort and  *)
(* without a sender that has taken it, can still be found by a sender: its *)
(* channel exists and names it.  A sender that is destroyed while its page *)
(* is filled leaves the receiver it has taken asleep for ever.             *)
Findable ==
  Settled =>
    \A t \in threads : blocked[t] /\ Receiving(t) /\ abort[t] = "OK" =>
      Live(pc[t].ch) /\ chan[pc[t].ch].receiver = t

(* A receiver that a sender has taken sleeps until that sender goes on:    *)
(* its page may take any time, and yet no channel, notification or abort   *)
(* wakes the receiver with half a message, and no other sender has it.     *)
TakenSleeps ==
  halted = "No" =>
    \A t \in threads : pc[t].at = "filling" /\ buf[t].to \in threads =>
      /\ blocked[buf[t].to] /\ pc[buf[t].to].at \in {"taken", "takenfast"}
      /\ \A u \in threads \ {t} : pc[u].at = "filling" => buf[u].to # buf[t].to

(* A message that was put in the buffer of a receiver stays there until    *)
(* the receiver has run: no second sender, notification or reply           *)
(* overwrites it.                                                          *)
KeepsMessages ==
  \A r \in threads : ~blocked[r] /\ Receiving(r) /\ current # r => buf'[r] = buf[r]
MessageKept == [][KeepsMessages]_vars
=============================================================================
