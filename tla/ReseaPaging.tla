---------------------------- MODULE ReseaPaging -----------------------------
(***************************************************************************)
(* Virtual memory of Resea: page tables (arch/x64/paging.c), vm areas and  *)
(* the page fault handler (memory.c), and page payloads of messages        *)
(* (sys_ipc).  The four levels of a page table are two here: a directory   *)
(* of page tables of EntryNum entries.  Addresses are page numbers; 0 as a *)
(* physical address means that there is none.                              *)
(***************************************************************************)
EXTENDS Naturals, FiniteSets, SequencesExt

CONSTANTS
  Procs,       \* processes, all with one pager
  Kernel,      \* a thread of the kernel as the receiver of a payload
  EntryNum,    \* PAGE_ENTRY_NUM
  DirNum,      \* entries of the directory
  OrderMax,    \* largest order of a page payload
  FrameNum,    \* physical pages the pager can give
  TableMax,    \* page tables that page_arena can hold
  Areas,       \* vm areas of a process: a sequence of [start, end] pages
  Bases,       \* the [page, order] a receiver may have as its page_base
  WaitMax,     \* bound on the threads that wait for the pager, for TLC
  CallMax      \* bound on the number of faults and payloads, for TLC

VARIABLES
  table,       \* process -> directory entry -> page table, or NoTable
  next,        \* the next physical page of the pager
  waits,       \* threads that wait for the pager: [id, proc, page, payload]
  call,        \* the last operation, for the properties
  calls,       \* how many there were
  state        \* "running", or why the kernel stopped

vars == <<table, next, waits, call, calls, state>>

NoPayload == <<>>
NoTable == <<>>
Pages == 0..(DirNum * EntryNum - 1)
Dir(v) == v \div EntryNum
Index(v) == v % EntryNum
NewTable == [i \in 0..(EntryNum - 1) |-> 0]

(* resolve_paddr_from_vaddr *)
Resolve(T, v) == IF T[Dir(v)] = NoTable THEN 0 ELSE T[Dir(v)][Index(v)]

(* One pass of the outer loop of link_page: n pages, to the end of one     *)
(* page table.                                                             *)
LinkOnce(T, v, p, n) ==
  LET pt == IF T[Dir(v)] = NoTable THEN NewTable ELSE T[Dir(v)]
      last == Index(v) + n - 1
  IN  [T EXCEPT ![Dir(v)] = [i \in 0..(EntryNum - 1) |->
         IF i >= Index(v) /\ i <= last THEN p + (i - Index(v)) ELSE pt[i]]]

(* link_page.  Each pass of the outer loop starts with all n pages again,  *)
(* at the address the last one has reached, until one of them ends inside  *)
(* a page table.                                                           *)
LinkPage(T, v, p, n) ==
  IF Index(v) + n <= EntryNum THEN LinkOnce(T, v, p, n)
  ELSE LET k == EntryNum - Index(v)
       IN  LinkOnce(LinkOnce(T, v, p, n), v + k, p + k, n)

(* Only a payload that is not larger than what a page table maps ends so;  *)
(* with a larger one no pass ends inside a page table, and link_page goes  *)
(* on until page_arena is empty.                                           *)
LinkEnds(v, n) == Index(v) + n <= EntryNum \/ n <= EntryNum

Reached(v, n) == IF Index(v) + n <= EntryNum THEN v + n - 1 ELSE v + (EntryNum - Index(v)) + n - 1

(* unlink_page; every table on the way must exist. *)
CanUnlink(T, v, n) == \A u \in v..(v + n - 1) : T[Dir(u)] # NoTable
UnlinkPageMore(T, v, n) ==   \* its loop runs once too often
  [d \in 0..(DirNum - 1) |->
     IF T[d] = NoTable THEN NoTable
     ELSE [i \in 0..(EntryNum - 1) |-> IF d * EntryNum + i \in v..(v + n) THEN 0 ELSE T[d][i]]]
UnlinkPage(T, v, n) ==
  [d \in 0..(DirNum - 1) |->
     IF T[d] = NoTable THEN NoTable
     ELSE [i \in 0..(EntryNum - 1) |->
             IF d * EntryNum + i \in v..(v + n - 1) THEN 0 ELSE T[d][i]]]

(* Page tables in use; none is ever given back (page_table_destroy). *)
TablesOf(all) ==
  Cardinality({e \in Procs \X (0..(DirNum - 1)) : all[e[1]][e[2]] # NoTable})

InArea(v) == \E i \in 1..Len(Areas) : Areas[i].start <= v /\ v < Areas[i].end
Span(v, n) == v..(v + n - 1)

(* PANIC, ASSERT, or thread_kill_current, which is not implemented. *)
Stop(why) ==
  /\ state' = why
  /\ UNCHANGED <<table, call>>

Init ==
  /\ table = [p \in Procs |-> [d \in 0..(DirNum - 1) |-> NoTable]]
  /\ next = 1
  /\ waits = {}
  /\ call = [op |-> "none"]
  /\ calls = 0
  /\ state = "running"

(* The thread waits in page_fault_handler for the pager; without a vm area *)
(* that includes the address the kernel panics.                            *)
AskPager(p, v, payload) ==
  IF ~InArea(v) THEN Stop("panic") /\ UNCHANGED <<next, waits>>
  ELSE /\ waits' = waits \cup {[id |-> calls, proc |-> p, page |-> v, payload |-> payload]}
       /\ UNCHANGED <<table, next, call, state>>

(* A page fault in user mode.  A thread that accesses a page it has must   *)
(* not do so, and is killed; is_valid_page_fault_for tests the permissions *)
(* with a logical negation, which refuses nothing.                         *)
PageFault(p, v) ==
  /\ state = "running"
  /\ IF Resolve(table[p], v) # 0 THEN Stop("unimplemented") /\ UNCHANGED <<next, waits>>
     ELSE AskPager(p, v, NoPayload)

(* The rest of sys_ipc once the first page of payload m is there: a thread *)
(* of the kernel gets its physical address; another receiver's base must   *)
(* allow the order and be valid, and the pages are linked there.  They are *)
(* unlinked from the sender.                                               *)
Transfer(T, m) ==
  LET num == 2^m.order
      frame == Resolve(T[m.from], m.src)
      linked == IF m.to = Kernel THEN T
                ELSE [T EXCEPT ![m.to] = LinkPage(@, m.base.page, frame, num)]
  IN
  IF m.to # Kernel /\ (m.base.order < m.order \/ m.base.page = 0)
  THEN /\ table' = T
       /\ call' = [op |-> "refused"]
       /\ UNCHANGED state
  ELSE IF m.to # Kernel /\ (~LinkEnds(m.base.page, num) \/ TablesOf(linked) > TableMax)
  THEN Stop("panic")
  ELSE IF ~CanUnlink(linked[m.from], m.src, num) THEN Stop("assertion")
  ELSE /\ table' = [linked EXCEPT ![m.from] = UnlinkPage(@, m.src, num)]
       /\ call' = [op |-> "send", from |-> m.from, src |-> m.src, to |-> m.to,
                   at |-> m.base.page, frame |-> frame, num |-> num]
       /\ UNCHANGED state

(* sys_ipc with a page payload: its first page is resolved, or faulted in. *)
SendPage(m) ==
  /\ state = "running"
  /\ IF Resolve(table[m.from], m.src) = 0 THEN AskPager(m.from, m.src, m)
     ELSE Transfer(table, m) /\ UNCHANGED <<next, waits>>

(* The pager has answered thread w, with a page or without one: the page   *)
(* is linked, and the thread goes on where it waited.                      *)
PagerAnswers(w) ==
  LET T == [table EXCEPT ![w.proc] = LinkPage(@, w.page, next, 1)]
  IN
  /\ state = "running"
  /\ waits' = waits \ {w}
  /\ IF next > FrameNum THEN Stop("unimplemented") /\ UNCHANGED next
     ELSE /\ next' = next + 1
          /\ IF TablesOf(T) > TableMax THEN Stop("panic")
             ELSE IF w.payload # NoPayload THEN Transfer(T, w.payload)
             ELSE /\ table' = T
                  /\ call' = [op |-> "fault", to |-> w.proc, at |-> w.page, frame |-> next,
                              num |-> 1]
                  /\ UNCHANGED state

(* Payloads: the pages of both sides are pages of the directories. *)
Payloads ==
  [from : Procs, src : Pages, to : Procs \cup {Kernel}, base : Bases, order : 0..OrderMax]
Fits(m) ==
  LET num == 2^m.order
  IN  /\ m.to = Kernel => m.base = CHOOSE b \in Bases : TRUE   \* not used
      /\ m.src + num - 1 \in Pages
      /\ LinkEnds(m.base.page, num) => Reached(m.base.page, num) \in Pages

Next ==
  \/ /\ calls < CallMax /\ Cardinality(waits) < WaitMax
     /\ calls' = calls + 1
     /\ \/ \E p \in Procs, v \in Pages : PageFault(p, v)
        \/ \E m \in Payloads : Fits(m) /\ SendPage(m)
  \/ /\ \E w \in waits : PagerAnswers(w)
     /\ UNCHANGED calls

Spec == Init /\ [][Next]_vars

-----------------------------------------------------------------------------
(* After a page fault or a page payload the target resolves every page of  *)
(* the range to the frame that was given for it, also when the range spans *)
(* two page tables and whatever the other threads did while the sender     *)
(* waited for its pager, and the sender resolves none of the pages it gave *)
(* away.  A process that sends to itself loses the pages of its base that  *)
(* are among those it gave away.                                           *)
PayloadMoved ==
  /\ call.op = "fault" => Resolve(table[call.to], call.at) = call.frame
  /\ call.op = "send" =>
       /\ \A u \in Span(call.src, call.num) : Resolve(table[call.from], u) = 0
       /\ call.to # Kernel =>
            \A i \in 0..(call.num - 1) :
              \/ Resolve(table[call.to], call.at + i) = call.frame + i
              \/ call.to = call.from /\ call.at + i \in Span(call.src, call.num)

(* A payload whose pages go into one page table leaves every other page of *)
(* both processes as it was: no loop of link_page or unlink_page runs past *)
(* its range.                                                              *)
KeepsOthers ==
  \A p \in Procs, v \in Pages :
    (/\ call' # call
     /\ call'.op \in {"fault", "send"}
     /\ Index(call'.at) + call'.num <= EntryNum
     /\ ~(p = call'.to /\ v \in Span(call'.at, call'.num))
     /\ ~(call'.op = "send" /\ p = call'.from /\ v \in Span(call'.src, call'.num)))
    => Resolve(table'[p], v) = Resolve(table[p], v)
OthersUntouched == [][KeepsOthers]_vars
=============================================================================
