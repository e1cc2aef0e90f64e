------------------------------- MODULE Mk2Ipc -------------------------------
(***************************************************************************)
(* microkernel2 on the ESP8266: channels, events, timers and threads, with *)
(* the channel server and the makestack driver on top, and two             *)
(* applications as users write them (external).                            *)
(*                                                                         *)
(* Threads run one at a time and switch only in yield(), which takes the   *)
(* first runnable thread of the run queue.  An interrupt handler fires an  *)
(* event between any two steps; timers fire while the kernel halts.  A     *)
(* step of a thread is what it does up to the next point where an          *)
(* interrupt matters, or up to its yield().                                *)
(***************************************************************************)
EXTENDS Integers, Sequences, FiniteSets, SequencesExt

CONSTANTS NULL,
          RunQueue,    \* the threads in the order of resources->runqueue
          Interval,    \* the interval of the application's timer, in ms
          TagMax       \* requests are numbered modulo TagMax

VARIABLES chans,       \* kproc->channels; a cid is an index
          thr,         \* the threads
          current,     \* the running thread, NULL while the kernel halts
          entries,     \* the channel server's table: interface -> channel
          timers,      \* timers: [ch, event, current, reset]
          listeners,   \* the channels of the listeners list
          next_timeout

vars == <<chans, thr, current, entries, timers, listeners, next_timeout>>

Threads == Range(RunQueue)

(* The messages: an operation with a channel and a tag (a pin's value).    *)
NoMsg == [op |-> "none", ch |-> 0, tag |-> 0]
Msg(op, ch, tag) == [op |-> op, ch |-> ch, tag |-> tag]

(***************************************************************************)
(* _open(): a channel of the only process.  sent_from is 0 for "nothing",  *)
(* -1 for an event message.                                                *)
(***************************************************************************)
NewChannel ==
  [linked_to |-> 0, transfer_to |-> 0, event |-> FALSE, sender_lock |-> NULL,
   receiver_lock |-> NULL, sender |-> NULL, receiver |-> NULL,
   sent_from |-> 0, buffer |-> NoMsg, events |-> <<>>]

Link(cs, c1, c2) == [cs EXCEPT ![c1].linked_to = c2, ![c2].linked_to = c1]

(* connect_to_local(to): a client channel and a proxy transferred to `to`. *)
ConnectToLocal(cs, to) ==
  LET c == Len(cs) + 1
  IN Link(cs \o <<NewChannel, [NewChannel EXCEPT !.transfer_to = to]>>, c, c + 1)

Transferred(c) == IF chans[c].transfer_to # 0 THEN chans[c].transfer_to ELSE c

(* create_thread() and start_thread() of every application in init_kernel. *)
NewThread == [state |-> "runnable", pc |-> "start", ch |-> 0, msg |-> NoMsg,
              reply |-> FALSE, got |-> NoMsg, from |-> 0, own |-> 0,
              client |-> 0, tag |-> 0]

Init == /\ chans = <<>>
        /\ thr = [t \in Threads |-> NewThread]
        /\ current = RunQueue[1]
        /\ entries = [i \in {"gpio", "interrupt"} |-> 0]
        /\ timers = <<>>
        /\ listeners = <<>>
        /\ next_timeout = -1

(* yield()'s search of the run queue.                                      *)
NextThread(th) ==
  LET S == {i \in DOMAIN RunQueue : th[RunQueue[i]].state = "runnable"}
  IN IF S = {} THEN NULL ELSE RunQueue[CHOOSE i \in S : \A j \in S : i <= j]

Yield(th) == thr' = th /\ current' = NextThread(th)
Go(th) == thr' = th /\ UNCHANGED current
Kernel == <<entries, timers, listeners, next_timeout>>

(***************************************************************************)
(* send(), _send(): the sender right is the destination's sender_lock; the *)
(* sender then waits, blocked, until a receiver offers its buffer, and     *)
(* copies the message into it.  A channel payload becomes a new channel of *)
(* the receiving process linked with the sent one.                         *)
(***************************************************************************)
SendLock(t) ==
  LET d == Transferred(chans[thr[t].ch].linked_to)
  IN /\ thr[t].pc = "send"
     /\ IF chans[d].sender_lock # NULL
          THEN Yield(thr) /\ UNCHANGED chans
          ELSE /\ chans' = [chans EXCEPT ![d].sender_lock = t, ![d].sender = t]
               /\ Go([thr EXCEPT ![t].pc = "wait", ![t].state = "blocked"])
     /\ UNCHANGED Kernel

Payload(cs, m) ==
  IF m.op # "listen" THEN [cs |-> cs, m |-> m]
  ELSE LET c == Len(cs) + 1
       IN [cs |-> Link(Append(cs, NewChannel), m.ch, c), m |-> [m EXCEPT !.ch = c]]

ReceiverReady(d) == chans[d].receiver # NULL /\ chans[d].sent_from = 0

SendWait(t) ==
  LET from == chans[thr[t].ch].linked_to
      d    == Transferred(from)
      p    == Payload(chans, thr[t].msg)
  IN /\ thr[t].pc = "wait"
     /\ IF ~ReceiverReady(d) THEN Yield(thr) /\ UNCHANGED chans
        ELSE /\ chans' = [p.cs EXCEPT ![d].buffer = p.m, ![d].sent_from = from,
                                      ![d].sender_lock = NULL]
             /\ Go([thr EXCEPT ![chans[d].receiver].state = "runnable",
                               ![t].pc = IF thr[t].reply THEN "recv" ELSE "next"])
     /\ UNCHANGED Kernel

(***************************************************************************)
(* recv() and _recv(): block, publish the buffer, look for a fired event   *)
(* under the sender lock, wake a waiting sender, yield, and look again when*)
(* resumed without a message.                                              *)
(***************************************************************************)
RecvStart(t) ==
  /\ thr[t].pc = "recv"
  /\ Go([thr EXCEPT ![t].state = "blocked", ![t].pc = "look"])
  /\ chans' = [chans EXCEPT ![thr[t].ch].receiver = t]
  /\ UNCHANGED Kernel

FiredEvents(c) == {i \in DOMAIN chans[c].events : chans[c].events[i].fired}

\* received: hand out the message, clear sent_from and the receiver.
\* Mutant: the sender of the first message is kept.
ReceivedFirstFrom(cs, th, t, from, m) ==
  /\ chans' = [cs EXCEPT ![th[t].ch].sent_from = 0, ![th[t].ch].receiver = NULL,
                         ![th[t].ch].receiver_lock = NULL]
  /\ Go([th EXCEPT ![t].pc = "next", ![t].from = IF @ = 0 THEN from ELSE @, ![t].got = m])
Received(cs, th, t, from, m) ==
  /\ chans' = [cs EXCEPT ![th[t].ch].sent_from = 0, ![th[t].ch].receiver = NULL,
                         ![th[t].ch].receiver_lock = NULL]
  /\ Go([th EXCEPT ![t].pc = "next", ![t].from = from, ![t].got = m])

RecvLook(t) ==
  LET c == thr[t].ch
      S == FiredEvents(c)
      i == CHOOSE x \in S : \A y \in S : x <= y
  IN /\ thr[t].pc = "look"
     /\ IF chans[c].event /\ chans[c].sender_lock = NULL /\ S # {}
          THEN Received([chans EXCEPT ![c].events[i].fired = FALSE], thr, t, -1,
                        Msg("event", c, i))
          ELSE Go([thr EXCEPT ![t].pc = "sleep"]) /\ UNCHANGED chans
     /\ UNCHANGED Kernel

RecvSleep(t) ==
  LET s  == chans[thr[t].ch].sender
      th == [x \in Threads |-> IF x = s THEN [thr[x] EXCEPT !.state = "runnable"]
                               ELSE thr[x]]
      nx == [th EXCEPT ![t].pc = "check"]
  IN /\ thr[t].pc = "sleep"
     /\ IF th[t].state = "blocked" THEN Yield(nx) ELSE Go(nx)
     /\ UNCHANGED <<chans, Kernel>>

\* Mutant: a thread resumed by an event goes back to sleep without looking.
RecvCheckBlind(t) ==
  LET c == thr[t].ch
  IN /\ thr[t].pc = "check"
     /\ IF chans[c].sent_from = 0
          THEN Go([thr EXCEPT ![t].pc = "sleep"]) /\ UNCHANGED chans
          ELSE Received(chans, thr, t, chans[c].sent_from, chans[c].buffer)
     /\ UNCHANGED Kernel
RecvCheck(t) ==
  LET c == thr[t].ch
  IN /\ thr[t].pc = "check"
     /\ IF chans[c].sent_from = 0
          THEN Go([thr EXCEPT ![t].pc = "recv"]) /\ UNCHANGED chans
          ELSE Received(chans, thr, t, chans[c].sent_from, chans[c].buffer)
     /\ UNCHANGED Kernel

(* What a program asks for next: send, call, or recv on a channel.  call() *)
(* and recv() take the receiver lock, recv() giving up if it is held.      *)
Sending(th, t, c, m) == [th EXCEPT ![t].pc = "send", ![t].ch = c, ![t].msg = m,
                                   ![t].reply = FALSE]
Call(cs, th, t, c, m) ==
  /\ cs[c].receiver_lock = NULL
  /\ chans' = [cs EXCEPT ![c].receiver_lock = t]
  /\ Go([Sending(th, t, c, m) EXCEPT ![t].reply = TRUE])
Recv(cs, th, t, c) ==
  IF cs[c].receiver_lock # NULL THEN Go(th) /\ UNCHANGED chans
  ELSE /\ chans' = [cs EXCEPT ![c].receiver_lock = t]
       /\ Go([th EXCEPT ![t].pc = "recv", ![t].ch = c, ![t].reply = FALSE])

(***************************************************************************)
(* The channel server: entries, register, and connect, which waits with    *)
(* yield() until the interface is registered.                              *)
(***************************************************************************)
ServerStart(t) ==
  /\ t = "channel-server" /\ thr[t].pc = "start"
  /\ Recv(Append(chans, NewChannel), thr, t, 1)
  /\ UNCHANGED Kernel

ServerNext(t) ==
  LET th == thr[t]  m == th.got
  IN /\ t = "channel-server" /\ th.pc = "next"
     /\ CASE m.op = "connect" /\ entries["gpio"] = 0 ->
               Yield(thr) /\ UNCHANGED <<chans, entries>>
          [] m.op = "connect" /\ entries["gpio"] # 0 ->
               /\ chans' = Link(Append(chans, [NewChannel EXCEPT
                                               !.transfer_to = entries["gpio"]]),
                                m.ch, Len(chans) + 1)
               /\ Go(Sending([thr EXCEPT ![t].got = NoMsg], t, th.from, Msg("ok", 0, m.tag)))
               /\ UNCHANGED entries
          [] m.op = "register" ->
               /\ entries' = [entries EXCEPT ![IF m.tag = 0 THEN "gpio" ELSE "interrupt"] = m.ch]
               /\ Go(Sending([thr EXCEPT ![t].got = NoMsg], t, th.from, Msg("ok", 0, m.tag)))
               /\ UNCHANGED chans
          [] OTHER -> Recv(chans, thr, t, 1) /\ UNCHANGED entries
     /\ UNCHANGED <<timers, listeners, next_timeout>>

(***************************************************************************)
(* The driver: it registers its channel under each interface and answers   *)
(* requests.  listen_event() and add_interval_timer() put the event on the *)
(* channel at the other end of the one that came with the request.         *)
(***************************************************************************)
DriverStart(t) ==
  LET c == Len(chans) + 1
  IN /\ t = "driver" /\ thr[t].pc = "start"
     /\ Call(ConnectToLocal(Append(chans, NewChannel), 1),
             [thr EXCEPT ![t].own = c, ![t].client = c + 1], t, c + 1,
             Msg("register", c, 0))
     /\ UNCHANGED Kernel

ListenEvent(c, type) ==
  /\ chans[c].receiver_lock = NULL
  /\ chans' = [chans EXCEPT ![c].event = TRUE,
                            ![c].events = Append(@, [type |-> type, fired |-> FALSE])]
  /\ listeners' = Append(listeners, c)

(* add_interval_timer(), or add_oneshot_timer(), which has no reset.       *)
AddTimer(c, n, oneshot) ==
  timers' = Append(timers, [ch |-> c, event |-> n, current |-> Interval,
                            reset |-> IF oneshot THEN 0 ELSE Interval])

DriverNext(t) ==
  LET th   == thr[t]
      m    == th.got
      seen == [thr EXCEPT ![t].got = NoMsg]
      on   == Transferred(chans[m.ch].linked_to)
      n    == Len(chans[on].events) + 1
  IN /\ t = "driver" /\ th.pc = "next"
     /\ CASE m.op = "ok" /\ m.tag = 0 ->
               Call(chans, seen, t, th.client, Msg("register", th.own, 1))
               /\ UNCHANGED <<timers, listeners>>
          [] m.op = "write" ->
               Go(Sending(seen, t, th.from, Msg("reply", 0, m.tag)))
               /\ UNCHANGED <<chans, timers, listeners>>
          [] m.op = "listen" /\ m.tag = 0 ->
               ListenEvent(on, "interrupt")
               /\ Go(Sending(seen, t, th.from, Msg("reply", 0, m.tag)))
               /\ UNCHANGED timers
          [] m.op = "listen" /\ m.tag \in {1, 2} ->
               ListenEvent(on, "timeout")
               /\ AddTimer(on, n, m.tag = 2)
               /\ Go(Sending(seen, t, th.from, Msg("reply", 0, m.tag)))
          [] OTHER -> Recv(chans, seen, t, th.own) /\ UNCHANGED <<timers, listeners>>
     /\ UNCHANGED <<entries, next_timeout>>

(***************************************************************************)
(* An application: connect a channel to the gpio interface, ask for        *)
(* interval, one-shot and interrupt events on a second channel, then write *)
(* and wait for an event in turn.                                          *)
(***************************************************************************)
AppStart(t) ==
  LET c == Len(chans) + 1
  IN /\ t \in {"app", "writer"} /\ thr[t].pc = "start"
     /\ Call(ConnectToLocal(Append(chans, NewChannel), 1), [thr EXCEPT ![t].own = c],
             t, c + 1, Msg("connect", c, 0))
     /\ UNCHANGED Kernel

AppNext(t) ==
  LET th == thr[t]
      m  == th.got
      c  == Len(chans) + 1
      n  == (th.tag + 1) % TagMax
  IN /\ t = "app" /\ th.pc = "next"
     /\ CASE th.msg.op = "connect" ->
               Call(Append(chans, NewChannel), [thr EXCEPT ![t].client = c], t, th.own,
                    Msg("listen", c, 1))
          [] th.msg.op = "listen" /\ th.msg.tag # 0 ->
               Call(Append(chans, [NewChannel EXCEPT !.transfer_to = th.client]), thr, t,
                    th.own, Msg("listen", c, IF th.msg.tag = 1 THEN 2 ELSE 0))
          [] m.op = "reply" /\ ~(th.msg.op = "listen" /\ th.msg.tag # 0) ->
               Recv(chans, [thr EXCEPT ![t].got = NoMsg], t, th.client)
          [] OTHER ->
               Call(chans, [thr EXCEPT ![t].tag = n], t, th.own, Msg("write", 0, n))
     /\ UNCHANGED Kernel

(***************************************************************************)
(* A second application that only writes, and stops after TagMax requests  *)
(* to wait on a channel of its own.                                        *)
(***************************************************************************)
WriterNext(t) ==
  LET th == thr[t]
      n  == (th.tag + 1) % TagMax
  IN /\ t = "writer" /\ th.pc = "next"
     /\ IF th.msg.op = "write" /\ n = 0
          THEN Recv(Append(chans, NewChannel), thr, t, Len(chans) + 1)
          ELSE Call(chans, [thr EXCEPT ![t].tag = n], t, th.own, Msg("write", 0, n))
     /\ UNCHANGED Kernel

(***************************************************************************)
(* Events.  __fire_event() marks the event and resumes the receiver of its *)
(* channel; a pin's interrupt handler calls fire_event() at any time.      *)
(***************************************************************************)
Fire(cs, c, i) == [cs EXCEPT ![c].events[i].fired = TRUE]
Resumed(th, cs, S) ==
  [t \in Threads |-> IF \E c \in S : cs[c].receiver = t
                     THEN [th[t] EXCEPT !.state = "runnable"] ELSE th[t]]

Interrupt ==
  \E c \in Range(listeners) : \E i \in DOMAIN chans[c].events :
    /\ chans[c].events[i].type = "interrupt"
    /\ chans' = Fire(chans, c, i)
    /\ thr' = Resumed(thr, chans, {c})
    /\ UNCHANGED <<current, Kernel>>

(* arch_halt_until() and advance_clock(): e milliseconds have passed.      *)
(* A one-shot timer that fires leaves the list.                            *)
Tick(t, e) == [t EXCEPT !.current = IF @ < e THEN t.reset ELSE @ - e]
Elapsed(e) ==
  LET fired == {i \in DOMAIN timers : timers[i].current < e}
      after == [i \in DOMAIN timers |-> Tick(timers[i], e)]
      kept  == SetToSortSeq({i \in DOMAIN timers : i \notin fired \/ timers[i].reset # 0}, <)
      all   == {after[i].current : i \in DOMAIN timers}
               \cup {IF timers = <<>> THEN 1000 ELSE timers[1].current}
      now   == [c \in DOMAIN chans |->
                  [chans[c] EXCEPT !.events =
                     [i \in DOMAIN @ |->
                        IF \E k \in fired : timers[k].ch = c /\ timers[k].event = i
                        THEN [@[i] EXCEPT !.fired = TRUE] ELSE @[i]]]]
      th    == Resumed(thr, chans, {timers[k].ch : k \in fired})
  IN /\ chans' = now
     /\ timers' = [k \in DOMAIN kept |-> after[kept[k]]]
     /\ next_timeout' = CHOOSE x \in all : \A y \in all : x <= y
     /\ thr' = th
     /\ current' = NextThread(th)
     /\ UNCHANGED <<entries, listeners>>

Timeout == IF next_timeout = -1 THEN 0 ELSE next_timeout
Halt(e) == /\ current = NULL
           /\ e \in Timeout .. Timeout + 1
           /\ Elapsed(e)

Step(t) == /\ current = t
           /\ \/ SendLock(t) \/ SendWait(t)
              \/ RecvStart(t) \/ RecvLook(t) \/ RecvSleep(t) \/ RecvCheck(t)
              \/ ServerStart(t) \/ ServerNext(t)
              \/ DriverStart(t) \/ DriverNext(t)
              \/ AppStart(t) \/ AppNext(t) \/ WriterNext(t)

Run == \E t \in Threads : Step(t)
Wait == \E e \in Timeout .. Timeout + 1 : Halt(e)

Next == Run \/ Wait \/ Interrupt

(* The processor runs the current thread, and time passes while it halts.  *)
Fairness == /\ WF_vars(Run) /\ WF_vars(Wait)
            /\ SF_vars(Halt(Timeout + 1))

Spec == Init /\ [][Next]_vars /\ Fairness

----------------------------------------------------------------------------
(* Every call returns with the reply to its own request, though wakeups    *)
(* may be spurious (a channel keeps the pointer of its last sender, which  *)
(* recv() resumes wherever that thread is blocked by then) and senders spin*)
(* for the sender lock.  The run queue is a priority order: the last       *)
(* thread, "writer", may starve when interrupts keep an earlier one busy.  *)
Calling(t) == thr[t].pc = "send" /\ thr[t].reply
Answered(t) ==
  thr[t].pc = "next" /\ thr[t].got.op \in {"reply", "ok"} /\ thr[t].got.tag = thr[t].msg.tag
CallsReturn == \A t \in {"driver", "app"} : Calling(t) ~> Answered(t)

(* Every event that fires is taken by its channel's receiver: the timers   *)
(* and the interrupt do not starve one another, nor do calls in between.   *)
Fired(i) == LET c == thr["app"].client
            IN c # 0 /\ i \in DOMAIN chans[c].events /\ chans[c].events[i].fired
EventsTaken == \A i \in 1 .. 3 : Fired(i) ~> ~Fired(i)
=============================================================================
