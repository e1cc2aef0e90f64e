---------------------------- MODULE ReseaObjects ----------------------------
(***************************************************************************)
(* Kernel objects of Resea: the two arenas of kmalloc, the id tables, and  *)
(* the processes, threads, vm areas, channels, timers, listeners and page  *)
(* tables that live in them.  An object is named by its address, counted   *)
(* in objects of its arena.  kmalloc panics when an arena is exhausted and *)
(* an id table that is full is an error, so exhaustion is the halted state *)
(* "panic".  The kernel is built with DEBUG_BUILD: a channel destroyed a   *)
(* second time is a panic too.  Messages and threads waiting on channels   *)
(* are in ReseaIpc; here a message is the handler that it runs, and the    *)
(* channel that it carries is linked as its delivery links it.             *)
(***************************************************************************)
EXTENDS Naturals, FiniteSets, SequencesExt

CONSTANTS
  NULL,
  ObjectNum,    \* objects in object_arena
  PageNum,      \* pages in page_arena
  PidNum,       \* num_entries of process_table: ids are 1..PidNum - 1
  IdNum,        \* num_entries of the tables of timers and listeners
  CidNum,       \* num_entries of a table of channels
  Initial       \* initial timeouts of a timer, in ticks

VARIABLES
  arena,        \* "object", "page" -> the free list
  used,         \* "object", "page" -> addresses handed out
  process_table,\* id -> process or thread, or NULL
  channels,     \* address -> the channel there, or NULL
  listeners,    \* the list of irq listeners
  timers,       \* id -> address of a timer, or NULL
  user_timers,  \* id -> address of a timer, or NULL
  active_timers,\* the list of timers, as records
  state         \* "running" or why the kernel stopped

vars == <<arena, used, process_table, channels, listeners, timers, user_timers,
          active_timers, state>>

Arenas == {"object", "page"}
Size(A) == IF A = "object" THEN ObjectNum ELSE PageNum
Addrs == 0..(ObjectNum - 1)

-----------------------------------------------------------------------------
(* add_free_list, arena_init *)
Extent(addr, num) == [addr |-> addr, num |-> num]
ArenaInit(A) == <<Extent(0, Size(A))>>

(* kmalloc_from: the last object of the first extent; what is left of the  *)
(* extent goes to the end of the list.                                     *)
Kmalloc(free) ==
  LET e == Head(free)
      rest == IF e.num > 1 THEN Append(Tail(free), Extent(e.addr, e.num - 1)) ELSE Tail(free)
  IN  [addr |-> e.addr + (e.num - 1), free |-> rest]

(* n allocations in a row: the addresses, in order, and the list after it. *)
KmallocN(free, n) ==
  LET step(got, i) == LET m == Kmalloc(got.free)
                      IN  [addrs |-> Append(got.addrs, m.addr), free |-> m.free]
  IN  FoldLeft(step, [addrs |-> <<>>, free |-> free], [i \in 1..n |-> i])

Available(A) == FoldSeq(LAMBDA e, n : n + e.num, 0, arena[A])

(* kfree, of several addresses in order *)
Kfree(free, addrs) == free \o [i \in 1..Len(addrs) |-> Extent(addrs[i], 1)]

(* table_alloc: the smallest unused id, or 0. *)
TableAlloc(table) ==
  IF \A id \in DOMAIN table : table[id] # NULL THEN 0
  ELSE CHOOSE id \in DOMAIN table :
         table[id] = NULL /\ \A j \in 1..(id - 1) : table[j] # NULL

EmptyTable(num) == [id \in 1..(num - 1) |-> NULL]

-----------------------------------------------------------------------------
(* channel_create: the fields of a new channel. *)
Channel(pid, addr) ==
  [owner |-> pid, refs |-> 1, dead |-> FALSE, link |-> addr, xfer |-> addr]
WithChannel(chs, pid, addr) == [chs EXCEPT ![addr] = Channel(pid, addr)]

(* channel_incref *)
Incref(chs, c) == [chs EXCEPT ![c].refs = @ + 1]

(* channel_link of two channels: what they were linked with keeps its      *)
(* reference and its pointer.                                              *)
Link(chs, c, d) == Incref(Incref([chs EXCEPT ![c].link = d, ![d].link = c], c), d)

(* channel_transfer to another channel *)
Transfer(chs, c, d) == Incref([chs EXCEPT ![c].xfer = d], d)

(* channel_decref: with the last reference a channel gives back twice the  *)
(* reference of the channel it is linked with, and that of the one it      *)
(* transfers to.  w has the channels, the freed ones, and whether no       *)
(* assertion failed and nothing freed was used.                            *)
RECURSIVE Decref(_, _)
Decref(w, c) ==
  IF ~w.ok \/ w.chs[c] = NULL THEN [w EXCEPT !.ok = FALSE]
  ELSE IF w.chs[c].refs = 0 THEN [w EXCEPT !.ok = FALSE]
  ELSE IF w.chs[c].refs > 1 THEN [w EXCEPT !.chs[c].refs = @ - 1]
  ELSE LET w0 == [w EXCEPT !.chs[c].refs = 0]
           link == w.chs[c].link
           xfer == w.chs[c].xfer
           w1 == IF link = c THEN w0 ELSE Decref(Decref(w0, link), link)
           w2 == IF xfer = c THEN w1 ELSE Decref(w1, xfer)
       IN  IF ~w2.ok \/ w.chs[c].owner = NULL THEN [w2 EXCEPT !.ok = FALSE]
           ELSE [w2 EXCEPT !.chs[c] = NULL, !.freed = Append(@, c)]

(* channel_destroy *)
ChannelDestroy(w, c) ==
  IF ~w.ok \/ w.chs[c].dead THEN [w EXCEPT !.ok = FALSE]
  ELSE Decref([w EXCEPT !.chs[c].dead = TRUE], c)

Work(chs) == [chs |-> chs, freed |-> <<>>, ok |-> TRUE]

-----------------------------------------------------------------------------
(* boot: the kernel process (pid 1) with the idle thread, the channel and  *)
(* the thread of the kernel server, then memmgr, the init process, with a  *)
(* thread, its connection to the kernel server and two vm areas, and the   *)
(* timer of thread_first_switch.  Four pages are tables of ids.            *)
KERNEL_PID == 1
INIT_PID == 4

(* A process has a page for its channels and those of its page table. *)
Process(addr, pages) ==
  [kind |-> "process", addr |-> addr, channels |-> Head(pages), tables |-> Tail(pages),
   vmareas |-> <<>>]
Vmarea(addr, pager) == [addr |-> addr, pager |-> pager]
Thread(addr, pages, pid) == [kind |-> "thread", addr |-> addr, pages |-> pages, pid |-> pid]
Timer(addr, id, initial, interval, ch) ==
  [addr |-> addr, id |-> id, current |-> initial, interval |-> interval, ch |-> ch]

(* thread_create with arch_thread_init: pages for a kernel stack, the      *)
(* thread information, the kernel's message buffer and the area for xsave. *)
(* link_page takes three tables for the first buffer of a process.         *)
THREAD_PAGES == 4
TABLE_PAGES == 3

Init ==
  LET objects == KmallocN(ArenaInit("object"), 11)
      pages == KmallocN(ArenaInit("page"), 23)
      o == objects.addrs
      p == pages.addrs
      kernel == Process(o[1], SubSeq(p, 3, 4))
      init == [Process(o[5], SubSeq(p, 13, 14) \o SubSeq(p, 19, 21)) EXCEPT
                 !.vmareas = <<Vmarea(o[9], NULL), Vmarea(o[10], NULL)>>]
      none == [addr \in Addrs |-> NULL]
      server == WithChannel(none, KERNEL_PID, o[3])
      kernelCh == Transfer(WithChannel(server, KERNEL_PID, o[7]), o[7], o[3])
  IN  /\ arena = [object |-> objects.free, page |-> pages.free]
      /\ used = [object |-> ToSet(o), page |-> ToSet(p)]
      /\ process_table = [EmptyTable(PidNum) EXCEPT
                            ![KERNEL_PID] = kernel,
                            ![2] = Thread(o[2], SubSeq(p, 5, 8), KERNEL_PID),
                            ![3] = Thread(o[4], SubSeq(p, 9, 12), KERNEL_PID),
                            ![INIT_PID] = init,
                            ![5] = Thread(o[6], SubSeq(p, 15, 18), INIT_PID)]
      /\ channels = Link(WithChannel(kernelCh, INIT_PID, o[8]), o[7], o[8])
      /\ listeners = <<>>
      /\ timers = [EmptyTable(IdNum) EXCEPT ![1] = o[11]]
      /\ user_timers = EmptyTable(IdNum)
      /\ active_timers = <<Timer(o[11], 1, 1, 1, NULL)>>
      /\ state = "running"

(* kernel_server_ch: the third object *)
ServerCh == ObjectNum - 3

(* The kernel stops: a panic, a failed assertion, or an access it should   *)
(* not have made.                                                          *)
Stop(why) ==
  /\ state' = why
  /\ UNCHANGED <<arena, used, process_table, channels, listeners, timers, user_timers,
                 active_timers>>

(* n objects and m pages are taken when they can be, or the panic. *)
Fits(n, m) == Available("object") >= n /\ Available("page") >= m
Take(objects, pages) ==
  /\ arena' = [object |-> objects.free, page |-> pages.free]
  /\ used' = [object |-> used["object"] \cup ToSet(objects.addrs),
              page |-> used["page"] \cup ToSet(pages.addrs)]

(* Objects are released. *)
Release(objects, pages) ==
  /\ arena' = [object |-> Kfree(arena["object"], objects),
               page |-> Kfree(arena["page"], pages)]
  /\ used' = [object |-> used["object"] \ ToSet(objects),
              page |-> used["page"] \ ToSet(pages)]

Pids == 1..(PidNum - 1)
Processes == {id \in Pids : process_table[id] # NULL /\ process_table[id].kind = "process"}
Threads(pid) ==
  {id \in Pids : process_table[id] # NULL /\ process_table[id].kind = "thread"
                  /\ process_table[id].pid = pid}
Users == {pid \in Processes \ {KERNEL_PID} : Threads(pid) # {}}

(* The channels in the table of a process, and whether it has a free id. *)
Owned(pid) == {c \in Addrs : channels[c] # NULL /\ channels[c].owner = pid}
HasCid(pid) == Cardinality(Owned(pid)) < CidNum - 1

-----------------------------------------------------------------------------
(* sys_open *)
SysOpen(p) ==
  /\ HasCid(p)
  /\ IF ~Fits(1, 0) THEN Stop("panic")
     ELSE LET o == KmallocN(arena["object"], 1)
          IN  /\ Take(o, KmallocN(arena["page"], 0))
              /\ channels' = WithChannel(channels, p, o.addrs[1])
              /\ UNCHANGED <<process_table, listeners, timers, user_timers,
                             active_timers, state>>

(* sys_close *)
SysClose(p) ==
  \E c \in Owned(p) :
    LET w == ChannelDestroy(Work(channels), c)
    IN  IF ~w.ok THEN Stop("assertion")
        ELSE /\ channels' = w.chs
             /\ Release(w.freed, <<>>)
             /\ UNCHANGED <<process_table, listeners, timers, user_timers,
                            active_timers, state>>

(* handle_process_create: the process, its channel and one for its pager   *)
(* in the table of the sender.  When that table is full, channel_destroy   *)
(* is called for no channel.                                               *)
HandleProcessCreate(p) ==
  /\ TableAlloc(process_table) # 0
  /\ IF ~Fits(IF HasCid(p) THEN 3 ELSE 2, 2) THEN Stop("panic")
     ELSE IF ~HasCid(p) THEN Stop("null channel")
     ELSE LET o == KmallocN(arena["object"], 3)
              g == KmallocN(arena["page"], 2)
              pid == TableAlloc(process_table)
              user == WithChannel(channels, pid, o.addrs[2])
              pager == WithChannel(user, p, o.addrs[3])
          IN  /\ Take(o, g)
              /\ process_table' = [process_table EXCEPT ![pid] = Process(o.addrs[1], g.addrs)]
              /\ channels' = Link(pager, o.addrs[2], o.addrs[3])
              /\ UNCHANGED <<listeners, timers, user_timers, active_timers, state>>

(* thread_create *)
ThreadCreate(pid) ==
  LET linked == IF Threads(pid) = {} THEN TABLE_PAGES ELSE 0
      o == KmallocN(arena["object"], 1)
      g == KmallocN(arena["page"], THREAD_PAGES + linked)
      tid == TableAlloc(process_table)
  IN  IF ~Fits(1, THREAD_PAGES + linked) THEN Stop("panic")
      ELSE /\ Take(o, g)
           /\ process_table' = [process_table EXCEPT
                ![tid] = Thread(o.addrs[1], SubSeq(g.addrs, 1, THREAD_PAGES), pid),
                ![pid].tables = @ \o SubSeq(g.addrs, THREAD_PAGES + 1, Len(g.addrs))]
           /\ UNCHANGED <<channels, listeners, timers, user_timers, active_timers, state>>

(* handle_thread_spawn; an unknown id and a full table are reported.       *)
(* Threads are entries of process_table like processes, and the handlers   *)
(* take whatever the id in a message names for a process.                  *)
Confused == Stop("thread used as a process")

HandleThreadSpawn ==
  \E id \in Pids \ {KERNEL_PID} :
    /\ process_table[id] # NULL
    /\ IF process_table[id].kind = "thread" THEN Confused
       ELSE TableAlloc(process_table) # 0 /\ ThreadCreate(id)

(* process_destroy: its channels, its threads (thread_destroy,             *)
(* arch_thread_destroy), its vm areas, the table of channels and the       *)
(* process itself.  The page table stays allocated, and so does a channel  *)
(* that has more references than that of its process.                      *)
ProcessDestroy(pid) ==
  LET dead == SetToSortSeq(Threads(pid), <)
      proc == process_table[pid]
      mine == SetToSortSeq(Owned(pid), >)
      w == FoldLeft(ChannelDestroy, Work(channels), mine)
      objects == w.freed \o [i \in 1..Len(dead) |-> process_table[dead[i]].addr]
                   \o [i \in 1..Len(proc.vmareas) |-> proc.vmareas[i].addr] \o <<proc.addr>>
      pages == FlattenSeq([i \in 1..Len(dead) |-> process_table[dead[i]].pages])
                 \o <<proc.channels>>
  IN  IF pid = INIT_PID THEN Stop("panic")
      ELSE IF ~w.ok THEN Stop("assertion")
      ELSE /\ Release(objects, pages)
           /\ channels' = [c \in Addrs |->
                IF w.chs[c] = NULL \/ c \notin ToSet(mine) THEN w.chs[c]
                ELSE [w.chs[c] EXCEPT !.owner = NULL]]
           /\ process_table' = [id \in Pids |->
                IF id = pid \/ id \in Threads(pid) THEN NULL ELSE process_table[id]]
           /\ UNCHANGED <<listeners, timers, user_timers, active_timers, state>>

(* handle_runtime_exit *)
HandleRuntimeExit(p) == ProcessDestroy(p)

(* handle_process_add_pager with vmarea_create: a pager channel that the   *)
(* process does not have destroys the process.  The reference that the vm  *)
(* area takes is never given back.                                         *)
HandleProcessAddPager ==
  \E id \in Pids \ {KERNEL_PID} :
    /\ process_table[id] # NULL
    /\ IF process_table[id].kind = "thread" THEN Confused
       ELSE \/ ProcessDestroy(id)
            \/ \E pager \in Owned(id) :
                 IF ~Fits(1, 0) THEN Stop("panic")
                 ELSE LET o == KmallocN(arena["object"], 1)
                      IN  /\ Take(o, KmallocN(arena["page"], 0))
                          /\ process_table' = [process_table EXCEPT
                               ![id].vmareas = Append(@, Vmarea(o.addrs[1], pager))]
                          /\ channels' = Incref(channels, pager)
                          /\ UNCHANGED <<listeners, timers, user_timers, active_timers, state>>

(* handle_server_connect and its reply: a channel of the kernel that       *)
(* transfers to kernel_server_ch, and, if the process has an id for it,    *)
(* the channel of the process that the reply links it with.                *)
HandleServerConnect(p) ==
  /\ HasCid(KERNEL_PID)
  /\ LET n == IF HasCid(p) THEN 2 ELSE 1
         o == KmallocN(arena["object"], n)
         made == Transfer(WithChannel(channels, KERNEL_PID, o.addrs[1]), o.addrs[1], ServerCh)
     IN  IF ~Fits(n, 0) THEN Stop("panic")
         ELSE /\ Take(o, KmallocN(arena["page"], 0))
              /\ channels' = IF n = 1 THEN made
                             ELSE Link(WithChannel(made, p, o.addrs[2]), o.addrs[1], o.addrs[2])
              /\ UNCHANGED <<process_table, listeners, timers, user_timers,
                             active_timers, state>>

(* A message of process p that carries its channel c, delivered to the     *)
(* kernel server: a channel of the kernel is linked with the one that c is *)
(* linked with.                                                            *)
Carried(c, dst) == Link(WithChannel(channels, KERNEL_PID, dst), channels[c].link, dst)

(* handle_process_send_channel: the channel goes on to another process; the *)
(* kernel's own end is destroyed, which leaves it its link's reference.    *)
HandleProcessSendChannel(p) ==
  /\ HasCid(KERNEL_PID)
  /\ \E c \in Owned(p), pid \in Processes \ {KERNEL_PID} :
       LET n == IF HasCid(pid) THEN 2 ELSE 1
           o == KmallocN(arena["object"], n)
           got == Carried(c, o.addrs[1])
           given == IF n = 1 THEN got
                    ELSE Link(WithChannel(got, pid, o.addrs[2]), got[o.addrs[1]].link, o.addrs[2])
           w == ChannelDestroy(Work(given), o.addrs[1])
       IN  IF ~Fits(n, 0) THEN Stop("panic")
           ELSE IF ~w.ok THEN Stop("assertion")
           ELSE /\ Take(o, KmallocN(arena["page"], 0))
                /\ channels' = w.chs
                /\ UNCHANGED <<process_table, listeners, timers, user_timers,
                               active_timers, state>>

(* handle_io_listen_irq; listeners are never removed. *)
HandleIoListenIrq(p) ==
  /\ HasCid(KERNEL_PID)
  /\ \E c \in Owned(p) :
       LET full == Len(listeners) = IdNum - 1
           n == IF full THEN 1 ELSE 2
           o == KmallocN(arena["object"], n)
       IN  IF ~Fits(n, 0) THEN Stop("panic")
           ELSE /\ Take(o, KmallocN(arena["page"], 0))
                /\ channels' = Carried(c, o.addrs[1])
                /\ listeners' = IF full THEN listeners
                                ELSE Append(listeners, [addr |-> o.addrs[2], ch |-> o.addrs[1]])
                /\ UNCHANGED <<process_table, timers, user_timers, active_timers, state>>

-----------------------------------------------------------------------------
(* handle_timer_set, with timer_create: the user learns the id in          *)
(* user_timers, the timer keeps its id in timers.  The channel's reference *)
(* is taken before the id in timers is found, and kept when there is none. *)
HandleTimerSet(p) ==
  /\ HasCid(KERNEL_PID)
  /\ \E c \in Owned(p), initial \in Initial, interval \in 0..1 :
       LET made == TableAlloc(user_timers) # 0 /\ TableAlloc(timers) # 0
           n == IF made THEN 2 ELSE 1
           o == KmallocN(arena["object"], n)
           got == Carried(c, o.addrs[1])
           id == TableAlloc(timers)
       IN  IF ~Fits(n, 0) THEN Stop("panic")
           ELSE /\ Take(o, KmallocN(arena["page"], 0))
                /\ channels' = IF TableAlloc(user_timers) = 0 THEN got
                               ELSE Incref(got, o.addrs[1])
                /\ UNCHANGED <<process_table, listeners, state>>
                /\ IF ~made THEN UNCHANGED <<timers, user_timers, active_timers>>
                   ELSE /\ timers' = [timers EXCEPT ![id] = o.addrs[2]]
                        /\ active_timers' = Append(active_timers,
                             Timer(o.addrs[2], id, initial, interval, o.addrs[1]))
                        /\ user_timers' =
                             [user_timers EXCEPT ![TableAlloc(user_timers)] = o.addrs[2]]

TimerAt(addr) == CHOOSE t \in ToSet(active_timers) : t.addr = addr

(* handle_timer_clear with timer_destroy: the slot that is freed is the    *)
(* one with the timer's own id.  A stale entry is a freed object.          *)
HandleTimerClear ==
  \E id \in DOMAIN user_timers :
    /\ user_timers[id] # NULL
    /\ IF ~\E t \in ToSet(active_timers) : t.addr = user_timers[id]
       THEN Stop("use after free")
       ELSE LET t == TimerAt(user_timers[id])
                w == Decref(Work(channels), t.ch)
            IN  IF ~w.ok THEN Stop("assertion")
                ELSE /\ user_timers' = [user_timers EXCEPT ![t.id] = NULL]
                     /\ timers' = [timers EXCEPT ![t.id] = NULL]
                     /\ active_timers' = SelectSeq(active_timers, LAMBDA u : u # t)
                     /\ channels' = w.chs
                     /\ Release(w.freed \o <<t.addr>>, <<>>)
                     /\ UNCHANGED <<process_table, listeners, state>>

(* user_timer_handler: a one-shot timer gives back its channel and frees   *)
(* the slot of the user's table that has the timer's own id.               *)
UserTimerHandler(w, t) ==
  IF t.ch = NULL \/ t.interval # 0 THEN w
  ELSE LET v == Decref(w.work, t.ch)
       IN  [work |-> v, table |-> [w.table EXCEPT ![t.id] = NULL]]

(* timer_interrupt_handler: each timer of the list in turn; a one-shot     *)
(* timer that fires is destroyed.                                          *)
TimerInterrupt ==
  LET over(t) == t.current = 0 /\ t.interval = 0
      gone == SelectSeq(active_timers, over)
      left == SelectSeq(active_timers, LAMBDA t : ~over(t))
      w == FoldLeft(UserTimerHandler, [work |-> Work(channels), table |-> user_timers], gone)
  IN  IF ~w.work.ok THEN Stop("assertion")
      ELSE /\ active_timers' = [i \in 1..Len(left) |->
                [left[i] EXCEPT !.current = IF @ = 0 THEN left[i].interval ELSE @ - 1]]
           /\ timers' = [id \in DOMAIN timers |->
                IF \E t \in ToSet(gone) : t.id = id THEN NULL ELSE timers[id]]
           /\ user_timers' = w.table
           /\ channels' = w.work.chs
           /\ Release(w.work.freed \o [i \in 1..Len(gone) |-> gone[i].addr], <<>>)
           /\ UNCHANGED <<process_table, listeners, state>>

Next ==
  /\ state = "running"
  /\ \/ \E p \in Users :
          \/ SysOpen(p) \/ SysClose(p)
          \/ HandleProcessCreate(p) \/ HandleRuntimeExit(p) \/ HandleServerConnect(p)
          \/ HandleProcessSendChannel(p) \/ HandleIoListenIrq(p) \/ HandleTimerSet(p)
     \/ HandleThreadSpawn \/ HandleProcessAddPager \/ HandleTimerClear \/ TimerInterrupt

Spec == Init /\ [][Next]_vars

-----------------------------------------------------------------------------
LiveChannels == {c \in Addrs : channels[c] # NULL}

Objects ==
  {process_table[id].addr : id \in {i \in Pids : process_table[i] # NULL}}
    \cup UNION {{v.addr : v \in ToSet(process_table[pid].vmareas)} : pid \in Processes}
    \cup LiveChannels
    \cup {listeners[i].addr : i \in 1..Len(listeners)}
    \cup {active_timers[i].addr : i \in 1..Len(active_timers)}

Count ==
  Cardinality({i \in Pids : process_table[i] # NULL})
    + FoldSet(LAMBDA pid, n : n + Len(process_table[pid].vmareas), 0, Processes)
    + Cardinality(LiveChannels) + Len(listeners) + Len(active_timers)

FreeAddrs(A) == UNION {arena[A][i].addr..(arena[A][i].addr + arena[A][i].num - 1) :
                         i \in 1..Len(arena[A])}

(* kmalloc and kfree never lose an object nor hand one out twice: the      *)
(* extents of a free list are disjoint and are exactly what is not used.   *)
ArenaExact ==
  \A A \in Arenas :
    /\ FreeAddrs(A) = (0..(Size(A) - 1)) \ used[A]
    /\ Available(A) = Cardinality(FreeAddrs(A))

(* No kernel object is lost or shared: what object_arena has handed out is *)
(* exactly the processes, threads, vm areas, channels, listeners and       *)
(* timers, each at an address of its own, however processes are destroyed  *)
(* and timers fire.  A channel that outlives its process is one of which   *)
(* somebody holds a reference: it was linked, or is a pager.               *)
ObjectsReachable ==
  /\ used["object"] = Objects
  /\ Cardinality(Objects) = Count
  /\ \A c \in LiveChannels : channels[c].owner # NULL \/ channels[c].dead

(* No pointer to a channel outlives it: those of linked and transferring   *)
(* channels, vm areas, listeners and timers name channels that have not    *)
(* been freed, whoever closes what and exits first; and the references     *)
(* cover the pointers of the vm areas and timers.                          *)
ChannelsHeld ==
  /\ \A c \in LiveChannels : {channels[c].link, channels[c].xfer} \subseteq LiveChannels
  /\ \A l \in ToSet(listeners) : l.ch \in LiveChannels
  /\ \A t \in ToSet(active_timers) : t.ch # NULL => t.ch \in LiveChannels
  /\ \A pid \in Processes : \A v \in ToSet(process_table[pid].vmareas) :
       v.pager # NULL => v.pager \in LiveChannels
  /\ \A c \in LiveChannels :
       Cardinality({i \in 1..Len(active_timers) : active_timers[i].ch = c})
         + Cardinality({d \in LiveChannels \ {c} : channels[d].link = c}) <= channels[c].refs

(* The ids in the timers table are those of the timers on the list. *)
TimersExact ==
  /\ \A i \in 1..Len(active_timers) : timers[active_timers[i].id] = active_timers[i].addr
  /\ Cardinality({id \in DOMAIN timers : timers[id] # NULL}) = Len(active_timers)
=============================================================================
