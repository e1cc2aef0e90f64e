------------------------------- MODULE Mk3Ipc -------------------------------
(***************************************************************************)
(* Channels, threads and the kernel server of microkernel3.  The calls run *)
(* on one CPU with interrupts disabled, so a system call is one step up to *)
(* the point where its thread blocks or enables them; a blocked thread     *)
(* goes on from there once thread_switch picks it.  A channel is <<process, cid>>.      *)
(* The kernel's state is one record k, and each operation of the kernel is *)
(* an operator on it.                                                      *)
(***************************************************************************)
EXTENDS Naturals, Integers, FiniteSets, SequencesExt

CONSTANTS
  NULL,
  Users,       \* user threads, each the only thread of its process
  Calls,       \* user thread -> names of the system calls its program uses
  CidMax,      \* channels_max
  Args,        \* cids that user threads pass, for TLC
  CallMax,     \* system calls of a user thread, for TLC
  IrqMax       \* interrupts, for TLC

VARIABLES
  k,           \* [ch, th, rq, cur, fault] of the kernel
  srv,         \* [services, clients, listener, from, jobs] of the kernel server
  count        \* user thread or "irq" -> how often it acted

vars == <<k, srv, count>>

Threads == Users \cup {"kernel"}
Procs == Threads
Cids == 1..CidMax
Chans == Procs \X Cids

-----------------------------------------------------------------------------
(* list_append of a thread that is in the list would make it circular. *)
Crash(S, why, spurious) ==
  IF S.fault # NULL THEN S ELSE [S EXCEPT !.fault = [why |-> why, spurious |-> spurious]]

(* thread_resume, and a form of it that queues a thread at every resumption. *)
ResumeQueued(S, t) ==
  [S EXCEPT !.th[t].count = @ + 1, !.th[t].state = "runnable", !.rq = Append(@, t)]
Resume(S, t) ==
  IF S.th[t].count = 0
  THEN [S EXCEPT !.th[t].count = 1, !.th[t].state = "runnable", !.rq = Append(@, t)]
  ELSE [S EXCEPT !.th[t].count = @ + 1]

(* thread_switch; the idle thread is never in the run queue. *)
Switch(S) ==
  LET runnable == S.cur # "idle" /\ S.th[S.cur].state = "runnable"
  IN  IF S.rq # <<>>
      THEN [S EXCEPT !.rq = IF runnable THEN Append(Tail(@), S.cur) ELSE Tail(@),
                     !.cur = Head(S.rq)]
      ELSE IF runnable THEN S ELSE [S EXCEPT !.cur = "idle"]

(* thread_block_current, with the place at which the thread goes on.  A    *)
(* thread that was resumed more than once does not block.                  *)
Block(S, t, pc) ==
  LET B == [S EXCEPT !.th[t].count = @ - 1, !.th[t].pc = pc,
                     !.th[t].spurious = S.th[t].count > 1]
  IN  IF B.th[t].count > 0 THEN B ELSE Switch([B EXCEPT !.th[t].state = "blocked"])

Result(kind) == [kind |-> kind, from |-> 0, cid |-> 0]
Ok == Result("ok")
Error == Result("error")
Return(S, t, result) == [S EXCEPT !.th[t].pc = "user", !.th[t].ret = result]

(* get_channel_by_id_of *)
Channel(S, p, cid) == IF cid \in Cids /\ S.ch[<<p, cid>>].state = "opened" THEN <<p, cid>> ELSE NULL

(* channel_create: the first unused slot of the process *)
Slot(S, p) ==
  LET free == {i \in Cids : S.ch[<<p, i>>].state = "unused"}
  IN  IF free = {} THEN NULL ELSE <<p, CHOOSE i \in free : \A j \in free : i <= j>>
NewChannel(c) ==
  [state |-> "opened", refs |-> 1, notified |-> FALSE, linked |-> c, transfer |-> c,
   receiver |-> NULL, sender |-> NULL, wq |-> <<>>]
Create(S, c) == [S EXCEPT !.ch[c] = NewChannel(c)]

(* channel_link, channel_transfer, channel_connect *)
Link(S, c, d) ==
  [S EXCEPT !.ch[c].linked = d, !.ch[d].linked = c,
            !.ch[c].refs = @ + 1, !.ch[d].refs = @ + 1]
Transfer(S, c, d) == [S EXCEPT !.ch[c].transfer = d, !.ch[d].refs = @ + 1]
ConnectTo(S, server, p) ==
  LET s == Slot(S, server[1])
      T == Create(S, s)
      c == Slot(T, p)
  IN  IF s = NULL \/ c = NULL THEN [state |-> Crash(S, "no channel", TRUE), cid |-> 0]
      ELSE [state |-> Transfer(Link(Create(T, c), s, c), s, server), cid |-> c[2]]

(* channel_close: everyone who waits at the channel is marked and resumed; *)
(* thread_resume sets the state again unless the thread was runnable.  A   *)
(* channel whose references are gone is closed with it.                    *)
Wake(S, t) == [Resume([S EXCEPT !.th[t].state = "closed"], t) EXCEPT !.th[t].spurious = TRUE]
RECURSIVE Close(_, _), Release(_, _, _)
Release(S, d, c) ==
  LET R == [S EXCEPT !.ch[d].refs = @ - 1]
  IN  IF S.ch[d].refs = 1 /\ d # c THEN Close(R, d) ELSE R
Unlink(S, c, d) ==
  IF d # NULL /\ S.ch[d].linked = c
  THEN Release([S EXCEPT !.ch[d].linked = NULL, !.ch[c].refs = @ - 1], d, c)
  ELSE S
Forget(S, c) ==
  [S EXCEPT !.ch[c].refs = @ - 1, !.ch[c].state = IF S.ch[c].refs = 1 THEN "unused" ELSE @]
Close(S, c) ==
  LET o == S.ch[c]
      waiting == o.wq \o (IF o.sender = NULL THEN <<>> ELSE <<o.sender>>)
                      \o (IF o.receiver = NULL THEN <<>> ELSE <<o.receiver>>)
      W == FoldLeft(Wake, [S EXCEPT !.ch[c].state = "closed", !.ch[c].wq = <<>>], waiting)
  IN  Forget(Release(Unlink(W, c, o.linked), o.transfer, c), c)

(* channel_notify *)
Notify(S, c) ==
  LET N == [S EXCEPT !.ch[c].notified = TRUE]
  IN  IF S.ch[c].receiver = NULL THEN N ELSE Resume(N, S.ch[c].receiver)

(* copy_payload of a channel: its peer is linked to a new channel of the   *)
(* receiver's process, or the channel itself is when it had no peer.       *)
CopyChannel(S, src, dst, cid) ==
  LET c == Channel(S, src, cid)
      n == Slot(S, dst)
      d == S.ch[c].linked
      T == Create(S, n)
  IN  IF c = NULL \/ n = NULL THEN [state |-> S, cid |-> 0]
      ELSE IF d # NULL /\ d # c
      THEN [state |-> Close([T EXCEPT !.ch[d].linked = n, !.ch[n].linked = d], c), cid |-> n[2]]
      ELSE [state |-> [T EXCEPT !.ch[n].linked = c, !.ch[c].linked = n], cid |-> n[2]]

-----------------------------------------------------------------------------
(* The end of sys_send and of its slow path: the message is put into the   *)
(* buffer of the receiver, which is resumed.  Without a receiver this      *)
(* dereferences NULL, and a message that was not received is overwritten.  *)
Deliver(S, t, m) ==
  LET dst == S.ch[m.via].transfer
      r == S.ch[dst].receiver
      T == IF m.cid = 0 THEN [state |-> S, cid |-> 0] ELSE CopyChannel(S, t, dst[1], m.cid)
      M == [kind |-> m.kind, from |-> m.via[2], cid |-> T.cid]
  IN  IF r = NULL THEN Crash(S, "no receiver", S.th[t].spurious)
      ELSE IF S.th[r].fresh THEN Crash(S, "overwritten", S.th[t].spurious)
      ELSE Resume([T.state EXCEPT !.th[r].buffer = M, !.th[r].fresh = TRUE], r)

(* The slow path after the sender right was tried for: in the wait queue   *)
(* of the channel, or waiting for a receiver, or done.                     *)
TrySend(S, t) ==
  LET dst == S.ch[S.th[t].msg.via].transfer
      o == S.ch[dst]
      G == [S EXCEPT !.ch[dst].sender = t]
  IN  IF o.sender # NULL /\ t \in ToSet(o.wq) THEN Crash(S, "queued twice", S.th[t].spurious)
      ELSE IF o.sender # NULL
      THEN Block([S EXCEPT !.ch[dst].wq = Append(@, t)], t, "queued")
      ELSE IF o.receiver = NULL THEN Block(G, t, "sending")
      ELSE [Deliver(G, t, S.th[t].msg) EXCEPT !.th[t].pc = "sent"]

(* sys_send: the fast path is the slow path with a free sender right and a *)
(* receiver that waits.                                                    *)
Send(S, t, cid, kind, payload, next) ==
  LET c == Channel(S, t, cid)
  IN  IF c = NULL \/ S.ch[c].linked = NULL THEN Return(S, t, Error)
      ELSE TrySend([S EXCEPT !.th[t].msg =
             [via |-> S.ch[c].linked, kind |-> kind, cid |-> payload, own |-> cid],
             !.th[t].next = next], t)

(* channel_recv, up to the point where it blocks, and its end *)
TakeNotification(S, t, c) ==
  Return([S EXCEPT !.ch[c].notified = FALSE, !.ch[c].receiver = NULL], t,
         [kind |-> "notification", from |-> c[2], cid |-> 0])
Recv(S, t, cid) ==
  LET c == Channel(S, t, cid)
      o == S.ch[c]
      R == [S EXCEPT !.ch[c].receiver = t, !.th[t].on = c]
      W == IF o.sender # NULL THEN Resume(R, o.sender)
           ELSE IF o.wq # <<>> THEN Resume([R EXCEPT !.ch[c].wq = Tail(@)], Head(o.wq))
           ELSE R
  IN  IF c = NULL \/ o.receiver # NULL THEN Return(S, t, Error)
      ELSE IF o.notified THEN TakeNotification(S, t, c)
      ELSE Block(W, t, "recv")

Received(S, t) ==
  LET c == S.th[t].on
      T == [S EXCEPT !.ch[c].receiver = NULL, !.ch[c].sender = NULL, !.th[t].fresh = FALSE]
  IN  IF S.th[t].state = "closed"
      THEN Return([S EXCEPT !.th[t].state = "runnable"], t, Error)
      ELSE IF S.ch[c].sender = NULL
      THEN IF S.ch[c].notified THEN TakeNotification(S, t, c) ELSE Block(S, t, "recv")
      ELSE IF ~S.th[t].fresh THEN Crash(T, "stale", S.th[t].spurious)
      ELSE Return(T, t, S.th[t].buffer)

(* What follows the send in sys_send, sys_call and sys_replyrecv *)
AfterSend(S, t) ==
  LET cid == S.th[t].msg.own
      c == Channel(S, t, cid)
  IN  CASE S.th[t].next = "return" -> Return(S, t, Ok)
        [] S.th[t].next = "call" -> Recv(S, t, cid)
        [] S.th[t].next = "replyrecv" ->
             IF c = NULL THEN Crash(S, "no channel", TRUE) ELSE Recv(S, t, S.ch[c].transfer[2])

(* A thread that is running goes on inside the kernel. *)
Continue(t) ==
  /\ k.cur = t /\ k.fault = NULL
  /\ \/ k.th[t].pc = "queued"
        /\ k' = IF k.th[t].state = "closed"
                THEN Return([k EXCEPT !.th[t].state = "runnable"], t, Error)
                ELSE TrySend(k, t)
     \/ k.th[t].pc = "sending"
        /\ k' = [Deliver(k, t, k.th[t].msg) EXCEPT !.th[t].pc = "sent"]
     \/ k.th[t].pc = "sent" /\ k' = AfterSend(k, t)
     \/ k.th[t].pc = "recv" /\ k' = Received(k, t)
  /\ UNCHANGED <<srv, count>>

InUser(t) == k.cur = t /\ k.fault = NULL /\ k.th[t].pc = "user"

-----------------------------------------------------------------------------
(* kernel_server_mainloop.  A job is a call that the server still makes    *)
(* for the message it has received.                                        *)
RecvJob == [op |-> "recv", cid |-> 1]
ReplyJob(from, service) == [op |-> "reply", cid |-> from, service |-> service]
SendJob(to, service) == [op |-> "send", cid |-> to, service |-> service]

(* handle_discovery_register, handle_discovery_discover,                   *)
(* handle_io_listen_for_irq; logging and the other calls only reply.  The  *)
(* first registration empties the list of pending clients.  An error of    *)
(* the receive is taken for an unknown message of the last sender.         *)
Handle(m) ==
  CASE m.kind = "error" -> [srv EXCEPT !.jobs = <<ReplyJob(srv.from, 0)>>]
    [] m.kind = "register" ->
         [srv EXCEPT !.services = Append(@, m.cid), !.clients = <<>>,
                     !.jobs = [i \in 1..Len(srv.clients) |-> SendJob(srv.clients[i], m.cid)]
                                \o <<ReplyJob(m.from, 0)>>]
    [] m.kind = "discover" ->
         IF srv.services # <<>>
         THEN [srv EXCEPT !.jobs = <<ReplyJob(m.from, Head(srv.services))>>]
         ELSE [srv EXCEPT !.clients = Append(@, m.from), !.jobs = <<RecvJob>>]
    [] m.kind = "listen" ->
         [srv EXCEPT !.listener = m.cid, !.jobs = <<ReplyJob(m.from, 0)>>]
    [] m.kind = "exit" -> [srv EXCEPT !.jobs = <<RecvJob>>]
    [] OTHER -> [srv EXCEPT !.jobs = <<ReplyJob(m.from, 0)>>]

(* ipc_connect(service->server), whose channel is the reply's payload *)
Connected(S, t, cid) ==
  LET c == Channel(S, t, cid)
  IN  IF c = NULL \/ S.ch[c].linked = NULL THEN [state |-> S, cid |-> 0]
      ELSE ConnectTo(S, S.ch[c].linked, t)

KernelServer ==
  /\ InUser("kernel")
  /\ LET job == Head(srv.jobs)
         C == IF job.op # "recv" /\ job.service # 0 THEN Connected(k, "kernel", job.service)
              ELSE [state |-> k, cid |-> 0]
     IN  IF srv.jobs = <<>>
         THEN /\ srv' = [Handle(k.th["kernel"].ret) EXCEPT
                           !.from = IF k.th["kernel"].ret = Error THEN @
                                    ELSE k.th["kernel"].ret.from]
              /\ UNCHANGED k
         ELSE /\ srv' = [srv EXCEPT !.jobs = Tail(@)]
              /\ k' = CASE job.op = "recv" -> Recv(k, "kernel", job.cid)
                        [] job.op = "send" ->
                             Send(C.state, "kernel", job.cid, "reply", C.cid, "return")
                        [] job.op = "reply" ->
                             Send(C.state, "kernel", job.cid, "reply", C.cid, "replyrecv")
  /\ UNCHANGED count

-----------------------------------------------------------------------------
(* System calls of a user thread *)
Act(t, call) ==
  /\ InUser(t)
  /\ call \in Calls[t]
  /\ count[t] < CallMax
  /\ count' = [count EXCEPT ![t] = @ + 1]
  /\ UNCHANGED srv

SysOpen(t) ==
  /\ Act(t, "open")
  /\ LET c == Slot(k, t)
     IN  k' = IF c = NULL THEN Return(k, t, Error) ELSE Create(k, c)

SysClose(t, cid) ==
  /\ Act(t, "close")
  /\ Channel(k, t, cid) # NULL
  /\ k' = Close(k, <<t, cid>>)

SysSend(t, cid) == Act(t, "send") /\ k' = Send(k, t, cid, "data", 0, "return")
SysRecv(t, cid) == Act(t, "recv") /\ k' = Recv(k, t, cid)
SysCall(t, cid, kind) == Act(t, kind) /\ k' = Send(k, t, cid, kind, 0, "call")
SysCallChannel(t, cid, kind, payload) ==
  Act(t, kind) /\ k' = Send(k, t, cid, kind, payload, "call")
SysReplyrecv(t, cid) == Act(t, "replyrecv") /\ k' = Send(k, t, cid, "data", 0, "replyrecv")
SysConnect(t, cid) ==
  /\ Act(t, "connect")
  /\ k' = Connected(k, t, cid).state
SysTransfer(t, c, d) ==
  /\ Act(t, "transfer")
  /\ Channel(k, t, c) # NULL /\ Channel(k, t, d) # NULL
  /\ k' = Transfer(k, <<t, c>>, <<t, d>>)

(* do_notify; an unlinked channel dereferences NULL. *)
DoNotify(S, p, cid) ==
  LET c == Channel(S, p, cid)
  IN  IF c = NULL THEN S
      ELSE IF S.ch[c].linked = NULL THEN Crash(S, "no link", TRUE)
      ELSE Notify(S, S.ch[S.ch[c].linked].transfer)
SysNotify(t, cid) == Act(t, "notify") /\ k' = DoNotify(k, t, cid)

(* handle_irq, tick_timer: the interrupted code is idle, in user mode, or   *)
(* between the send and the receive of sys_call, which enables interrupts  *)
(* there; sys_replyrecv does not.                                          *)
Interruptible ==
  /\ k.fault = NULL
  /\ k.cur # "idle" =>
       LET t == k.th[k.cur] IN t.pc = "user" \/ (t.pc = "sent" /\ t.next # "replyrecv")
HandleIrq ==
  /\ Interruptible
  /\ srv.listener # 0
  /\ count["irq"] < IrqMax
  /\ count' = [count EXCEPT !["irq"] = @ + 1]
  /\ k' = DoNotify(k, "kernel", srv.listener)
  /\ UNCHANGED srv
TickTimer ==
  /\ Interruptible
  /\ k.rq # <<>>
  /\ k' = Switch(k)
  /\ UNCHANGED <<srv, count>>

(* kernel_init with launch_servers: each process has a channel to the      *)
(* kernel server at @1.                                                    *)
UnusedChannel == [NewChannel(NULL) EXCEPT !.state = "unused", !.refs = 0]
NewThread ==
  [state |-> "runnable", count |-> 1, pc |-> "user", ret |-> Ok, next |-> "return",
   buffer |-> NULL, fresh |-> FALSE, on |-> NULL, msg |-> NULL, spurious |-> FALSE]
Boot ==
  [ch |-> [c \in Chans |-> UnusedChannel], th |-> [t \in Threads |-> NewThread],
   rq |-> SetToSeq(Users), cur |-> "kernel", fault |-> NULL]
Init ==
  /\ k = FoldLeft(LAMBDA S, t : ConnectTo(S, <<"kernel", 1>>, t).state,
                  Create(Boot, <<"kernel", 1>>), SetToSeq(Users))
  /\ srv = [services |-> <<>>, clients |-> <<>>, listener |-> 0, from |-> 0, jobs |-> <<RecvJob>>]
  /\ count = [a \in Users \cup {"irq"} |-> 0]

Next ==
  \/ \E t \in Threads : Continue(t)
  \/ KernelServer \/ HandleIrq \/ TickTimer
  \/ \E t \in Users :
       \/ SysOpen(t)
       \/ \E cid \in Args :
            \/ SysClose(t, cid) \/ SysSend(t, cid) \/ SysRecv(t, cid)
            \/ SysReplyrecv(t, cid) \/ SysConnect(t, cid) \/ SysNotify(t, cid)
            \/ \E kind \in {"discover", "log", "exit"} : SysCall(t, cid, kind)
            \/ \E d \in Args :
                 \/ SysTransfer(t, cid, d)
                 \/ \E kind \in {"register", "listen"} : SysCallChannel(t, cid, kind, d)

Spec == Init /\ [][Next]_vars

-----------------------------------------------------------------------------
(* The run queue holds every runnable thread but the current one, once,    *)
(* and no other: thread_resume and thread_block count resumptions so that  *)
(* a thread is never queued twice nor forgotten.                           *)
RunqueueExact ==
  /\ \A i, j \in 1..Len(k.rq) : k.rq[i] = k.rq[j] => i = j
  /\ k.cur \notin ToSet(k.rq)
  /\ \A t \in Threads : t # k.cur => (t \in ToSet(k.rq) <=> k.th[t].count > 0)

(* Send and receive meet as intended: no message is delivered without a    *)
(* receiver or over one that was not received yet, none is received before *)
(* it was delivered, and no thread is queued twice at a channel, except by *)
(* a thread that was resumed more often than it blocked (by a notification *)
(* together with a message) or was woken by a close.                       *)
RendezvousSafe ==
  k.fault # NULL /\ k.fault.why \in {"no receiver", "overwritten", "stale", "queued twice"}
    => k.fault.spurious
=============================================================================
