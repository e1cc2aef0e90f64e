----------------------------- MODULE Mk3Memory ------------------------------
(***************************************************************************)
(* Memory of microkernel3: physical pages, page tables, the virtual pages  *)
(* a process allocates dynamically, vm areas with their pagers, and the    *)
(* programs of the kernel's file system that are launched into them.  The  *)
(* levels of a page table are two here.  Addresses are page numbers, and   *)
(* nothing is ever freed: kfree does nothing.                              *)
(***************************************************************************)
EXTENDS Naturals, FiniteSets, SequencesExt

CONSTANTS
  NULL,
  Files,       \* programs of kfs: a sequence of sequences of program headers
               \* [vaddr, filesz, memsz, writable], sizes in pages
  ProcMax,     \* processes, for TLC
  FrameNum,    \* phypages_num
  EntryNum,    \* PAGE_ENTRY_NUM
  DynBase,     \* DYN_PAGE_BASE_ADDR
  DynNum,      \* dyn_pages_max
  NumMax,      \* pages in one out-of-line payload or pmalloc
  Devices      \* memory of devices that drivers ask for by its address

VARIABLES
  mem,         \* frame -> owner (a process, or Kernel), NULL for ref_count = 0
  vm,          \* process -> [vma, dyn, table], processes in order
  next,        \* the position in kfs
  srv,         \* what the kernel server does for a call of pmalloc, or NULL
  robbed,      \* an allocation was undone at a page of another one
  stopped      \* NULL, or why the kernel stopped

vars == <<mem, vm, next, srv, robbed, stopped>>

Kernel == 0
Frames == 0..(FrameNum - 1)
Dir(v) == v \div EntryNum
Index(v) == v % EntryNum
Dirs == 0..Dir(DynBase + DynNum - 1)

(* alloc_pages with interrupts disabled: the first run of num unused       *)
(* frames, or the panic.  No compare-and-swap can fail there.              *)
Fits(M, i, num) == i + num <= FrameNum /\ \A f \in i..(i + num - 1) : M[f] = NULL
First(S) == CHOOSE i \in S : \A j \in S : i <= j
Runs(M, num) == {i \in Frames : Fits(M, i, num)}
Alloc(M, num, owner) ==
  LET i == First(Runs(M, num))
  IN  IF Runs(M, num) = {} THEN [ok |-> FALSE, mem |-> M, frame |-> 0]
      ELSE [ok |-> TRUE, frame |-> i,
            mem |-> [f \in Frames |-> IF f \in i..(i + num - 1) THEN owner ELSE M[f]]]

(* Several objects of the kernel, one after the other: kmalloc *)
Kmalloc(M, sizes) ==
  FoldLeft(LAMBDA A, n : IF A.ok THEN Alloc(A.mem, n, Kernel) ELSE A,
           [ok |-> TRUE, mem |-> M, frame |-> 0], sizes)

(* lookup_page_entry: a page table that is missing is allocated. *)
NewTable == [i \in 0..(EntryNum - 1) |-> NULL]
Lookup(M, T, d) ==
  IF T[d] # NULL THEN [ok |-> TRUE, mem |-> M, table |-> T]
  ELSE LET A == Alloc(M, 1, Kernel)
       IN  [ok |-> A.ok, mem |-> A.mem, table |-> [T EXCEPT ![d] = NewTable]]

(* arch_link_page.  When the pages pass the end of a page table, the loop  *)
(* starts again at the same virtual address with the pages that are left.  *)
LinkPage(M, T, v, frame, num) ==
  LET L == Lookup(M, T, Dir(v))
      room == EntryNum - Index(v)
      last(i) == frame + i + room * ((num - 1 - i) \div room)
  IN  [L EXCEPT !.table[Dir(v)] = [e \in 0..(EntryNum - 1) |->
         IF e >= Index(v) /\ e - Index(v) < num THEN last(e - Index(v)) ELSE @[e]]]

(* valloc with interrupts disabled: the first run of unused virtual pages, *)
(* the last one marked.                                                    *)
FreeRuns(D, num) ==
  {i \in 1..DynNum : i + num - 1 <= DynNum /\ \A j \in i..(i + num - 1) : D[j] = "unused"}
Valloc(D, num) ==
  LET i == First(FreeRuns(D, num))
  IN  IF FreeRuns(D, num) = {} THEN [ok |-> FALSE, dyn |-> D, at |-> 0]
      ELSE [ok |-> TRUE, at |-> DynBase + i - 1,
            dyn |-> [j \in 1..DynNum |->
              IF j = i + num - 1 THEN "end" ELSE IF j \in i..(i + num - 2) THEN "using" ELSE D[j]]]

Stop(why) == stopped' = why /\ UNCHANGED <<mem, vm, next, srv, robbed>>

Init ==
  /\ mem = [f \in Frames |-> NULL]
  /\ vm = <<>>
  /\ next = 1
  /\ srv = NULL
  /\ robbed = FALSE
  /\ stopped = NULL

(* launch_servers, one file a step: process_create (the process, its       *)
(* dyn_pages and its top page table), add_vmarea for each header of type   *)
(* PT_LOAD, and thread_create (the thread, the area of its heap, a stack   *)
(* of two pages and the area for xsave).                                   *)
Area(h) ==
  [start |-> h.vaddr, num |-> IF h.filesz = 0 THEN h.memsz ELSE h.filesz,
   writable |-> h.writable, pager |-> IF h.filesz = 0 THEN "zeroed" ELSE "kfs"]
LaunchServer ==
  /\ stopped = NULL
  /\ next <= Len(Files) /\ Len(vm) < ProcMax
  /\ LET headers == Files[next]
         A == Kmalloc(mem, <<1, 1, 1>> \o [i \in 1..Len(headers) |-> 1] \o <<1, 1, 2, 1>>)
     IN  IF ~A.ok THEN Stop("panic")
         ELSE /\ mem' = A.mem
              /\ vm' = Append(vm, [vma |-> [i \in 1..Len(headers) |-> Area(headers[i])],
                                   dyn |-> [j \in 1..DynNum |-> "unused"],
                                   table |-> [d \in Dirs |-> NULL]])
              /\ next' = next + 1
              /\ UNCHANGED <<srv, robbed, stopped>>

(* Threads run once kernel_init has launched the servers.  The only thread *)
(* of a process that has called the kernel server is blocked.              *)
Running(p) ==
  /\ stopped = NULL
  /\ next > Len(Files) \/ Len(vm) = ProcMax
  /\ srv # NULL => srv.proc # p

Mapped(p, v) == vm[p].table[Dir(v)] # NULL /\ vm[p].table[Dir(v)][Index(v)] # NULL

(* handle_page_fault of an address that is not present: the first area     *)
(* that includes it and allows the access; the pager gives a new frame.    *)
(* Without an area the thread is destroyed, which leaves memory alone.     *)
Allowing(p, v, write) ==
  {i \in 1..Len(vm[p].vma) :
     LET a == vm[p].vma[i]
     IN  v \in a.start..(a.start + a.num - 1) /\ (write => a.writable)}
HandlePageFault(p, v, write) ==
  /\ Running(p)
  /\ ~Mapped(p, v)
  /\ Allowing(p, v, write) # {}
  /\ LET A == Alloc(mem, 1, p)
         L == LinkPage(A.mem, vm[p].table, v, A.frame, 1)
     IN  IF ~A.ok \/ ~L.ok THEN Stop("panic")
         ELSE /\ mem' = L.mem
              /\ vm' = [vm EXCEPT ![p].table = L.table]
              /\ UNCHANGED <<next, srv, robbed, stopped>>

(* copy_payload of an out-of-line payload, with interrupts disabled: frames *)
(* are allocated and linked at new pages.  The frames are allocated first  *)
(* and lost without a page.                                                *)
OutOfLine(p, num) ==
  /\ Running(p)
  /\ LET A == Alloc(mem, num, p)
         V == Valloc(vm[p].dyn, num)
         L == LinkPage(A.mem, vm[p].table, V.at, A.frame, num)
     IN  IF ~A.ok \/ (V.ok /\ ~L.ok) THEN Stop("panic")
         ELSE /\ IF ~V.ok THEN mem' = A.mem /\ UNCHANGED vm
                 ELSE mem' = L.mem /\ vm' = [vm EXCEPT ![p].table = L.table, ![p].dyn = V.dyn]
              /\ UNCHANGED <<next, srv, robbed, stopped>>

-----------------------------------------------------------------------------
(* handle_io_pmalloc: the kernel server runs with interrupts enabled, and  *)
(* other threads run between its steps.  paddr is NULL when the server has *)
(* to allocate the frames.  what is the allocation it is at, "frames" or   *)
(* "table" (of lookup_page_entry), and marked the pages of the run it has. *)
Pmalloc(p, num, paddr) ==
  /\ Running(p) /\ srv = NULL
  /\ srv' = [pc |-> "valloc", proc |-> p, num |-> num, paddr |-> paddr, what |-> "frames",
             run |-> 0, marked |-> 0, at |-> 0]
  /\ UNCHANGED <<mem, vm, next, robbed, stopped>>

At(pc) == stopped = NULL /\ srv # NULL /\ srv.pc = pc

(* valloc; without a run the call fails. *)
FindPages ==
  /\ At("valloc")
  /\ LET runs == FreeRuns(vm[srv.proc].dyn, srv.num)
     IN  srv' = IF runs = {} THEN NULL
                ELSE [srv EXCEPT !.pc = "vmark", !.run = First(runs), !.marked = 0]
  /\ UNCHANGED <<mem, vm, next, robbed, stopped>>

(* Its compare-and-swap of one page.  When it fails, the loop that is to   *)
(* unmark the pages of the run unmarks the page of the other allocation.   *)
MarkPage ==
  /\ At("vmark")
  /\ LET j == srv.run + srv.marked
         last == srv.marked + 1 = srv.num
         seen == vm[srv.proc].dyn[j]
         undone == IF srv.marked > 0 /\ seen = "using" THEN "unused" ELSE seen
     IN  IF seen = "unused"
         THEN /\ vm' = [vm EXCEPT ![srv.proc].dyn[j] = IF last THEN "end" ELSE "using"]
              /\ srv' = [srv EXCEPT !.marked = @ + 1, !.at = DynBase + srv.run - 1,
                           !.pc = IF ~last THEN "vmark" ELSE IF srv.paddr = NULL THEN "alloc"
                                  ELSE "link"]
              /\ UNCHANGED robbed
         ELSE /\ vm' = [vm EXCEPT ![srv.proc].dyn[j] = undone]
              /\ srv' = [srv EXCEPT !.pc = "valloc"]
              /\ robbed' = (robbed \/ undone # seen)
  /\ UNCHANGED <<mem, next, stopped>>

(* alloc_pages, and its compare-and-swap of one frame, which is undone in  *)
(* the same way.                                                           *)
Wanted == IF srv.what = "table" THEN 1 ELSE srv.num
FindFrames ==
  /\ At("alloc")
  /\ IF Runs(mem, Wanted) = {} THEN Stop("panic")
     ELSE /\ srv' = [srv EXCEPT !.pc = "mark", !.run = First(Runs(mem, Wanted)), !.marked = 0]
          /\ UNCHANGED <<mem, vm, next, robbed, stopped>>
MarkFrame ==
  /\ At("mark")
  /\ LET f == srv.run + srv.marked
         last == srv.marked + 1 = Wanted
         owner == IF srv.what = "table" THEN Kernel ELSE srv.proc
     IN  IF mem[f] = NULL
         THEN /\ mem' = [mem EXCEPT ![f] = owner]
              /\ srv' = [srv EXCEPT !.marked = @ + 1,
                           !.pc = IF ~last THEN "mark" ELSE IF srv.what = "table" THEN "store"
                                  ELSE "link",
                           !.paddr = IF last /\ srv.what = "frames" THEN srv.run ELSE @]
              /\ UNCHANGED robbed
         ELSE /\ mem' = IF srv.marked > 0 THEN [mem EXCEPT ![f] = NULL] ELSE mem
              /\ srv' = [srv EXCEPT !.pc = "alloc"]
              /\ robbed' = (robbed \/ srv.marked > 0)
  /\ UNCHANGED <<vm, next, stopped>>

(* arch_link_page; a missing page table is allocated and then stored. *)
StoreTable ==
  /\ At("store")
  /\ vm' = [vm EXCEPT ![srv.proc].table[Dir(srv.at)] = NewTable]
  /\ srv' = [srv EXCEPT !.pc = "link"]
  /\ UNCHANGED <<mem, next, robbed, stopped>>
LinkFrames ==
  /\ At("link")
  /\ IF vm[srv.proc].table[Dir(srv.at)] = NULL
     THEN srv' = [srv EXCEPT !.pc = "alloc", !.what = "table"] /\ UNCHANGED vm
     ELSE /\ vm' = [vm EXCEPT ![srv.proc].table =
                      LinkPage(mem, @, srv.at, srv.paddr, srv.num).table]
          /\ srv' = NULL
  /\ UNCHANGED <<mem, next, robbed, stopped>>

KernelServer ==
  FindPages \/ MarkPage \/ FindFrames \/ MarkFrame \/ StoreTable \/ LinkFrames

Next ==
  \/ LaunchServer
  \/ \E p \in 1..Len(vm) :
       \/ \E v \in 0..(DynBase - 1), write \in BOOLEAN : HandlePageFault(p, v, write)
       \/ \E num \in 1..NumMax : OutOfLine(p, num)
       \/ \E num \in 1..NumMax, paddr \in Devices \cup {NULL} : Pmalloc(p, num, paddr)
  \/ KernelServer

Spec == Init /\ [][Next]_vars

-----------------------------------------------------------------------------
Entries(p) == {v \in 0..(EntryNum * Cardinality(Dirs) - 1) : Mapped(p, v)}
FrameAt(p, v) == vm[p].table[Dir(v)][Index(v)]

(* No frame that a process can reach is the kernel's or a page table, or   *)
(* is seen at another page of any process: whatever is linked is owned by  *)
(* the process that sees it, although the kernel server allocates while    *)
(* other threads do and linking across page tables overlays pages.  Only   *)
(* an allocation that lost a race in the middle of its run breaks this: it *)
(* gives back the page of the one that won.                                *)
FramesPrivate ==
  robbed \/
  \A p \in 1..Len(vm) : \A v \in Entries(p) :
    FrameAt(p, v) \in Frames =>
      /\ mem[FrameAt(p, v)] = p
      /\ \A q \in 1..Len(vm) : \A w \in Entries(q) :
           FrameAt(q, w) = FrameAt(p, v) => q = p /\ w = v
=============================================================================
