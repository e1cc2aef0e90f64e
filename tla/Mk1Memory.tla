----------------------------- MODULE Mk1Memory -----------------------------
(***************************************************************************)
(* microkernel1: physical memory, x86 page tables, thread groups and the   *)
(* C++ library's allocator (kernel/src/memory.cpp and thread.cpp,          *)
(* hal/x86/src/vm.cpp, lang/cpp/src/memory.cpp).  Virtual addresses are    *)
(* page numbers; physical memory is counted in pages of PAGE bytes.  The   *)
(* kernel servers run one handler at a time, so an operation is one step.  *)
(* memchrseq does not stop at the end of what it searches: the first       *)
(* memory space always satisfies a request, and a search is modelled while *)
(* it stays in the space (the guard Fits).                                 *)
(***************************************************************************)
EXTENDS Naturals, Sequences, FiniteSets

CONSTANTS
  PAGE, FREE_BASE,  \* bytes of a page, and the end of the kernel image
  XSAVE_AREA_SIZE,  \* bytes of the area for floating point registers
  Map,              \* the boot loader's map: <<[base, length, type]>>, in bytes
  LEVELS, ENTRIES,  \* levels of page tables, entries of a table
  UserPages,        \* the virtual pages of the user's areas
  DynStart, DynNum, \* the dynamic virtual pages
  THREAD_NUM_MAX,
  Chunks,           \* what allocate_memory adds first: <<[size, total]>>
  Sizes,            \* what is asked of allocate_memory
  HeapMax, IoMax    \* how often it is asked, and io.allocate

VARIABLES
  used,         \* pages of the first memory space that were allocated
  tables,       \* page -> a table or a PML4: index -> page, 0 for none
  groups,       \* thread groups: <<[pml4, vpages, dynamic, num]>>
  threads,      \* <<[group, status, fregs]>>
  linked,       \* <<group, v>> -> the page last linked there by a page fault
  chunks,       \* the allocator's list: <<[size, total, unused]>>
  held,         \* blocks allocated: {[chunk, unit, size]}
  locked,       \* the allocator's mutex was left locked
  ios           \* how often io.allocate was asked

vars == <<used, tables, groups, threads, linked, chunks, held, locked, ios>>

-----------------------------------------------------------------------------
(* x86_init and memory::init.                                              *)

\* The usable regions, without the memory the kernel image takes.
Pmmap ==
  LET usable == SelectSeq(Map, LAMBDA m : m.type = 1 /\ m.base > 0)
  IN [i \in DOMAIN usable |->
        IF usable[i].base < FREE_BASE
        THEN [addr |-> FREE_BASE, size |-> usable[i].length - (FREE_BASE - usable[i].base)]
        ELSE [addr |-> usable[i].base, size |-> usable[i].length]]

\* The first page after the space's header; all pages of the region count.
Space == LET m == Pmmap[1]
             num == m.size \div PAGE
         IN [first |-> (m.addr + 40 + 8 * num) \div PAGE + 1, num |-> num]

Required(size) == size \div PAGE + 1

\* pmalloc: the first run of free pages.
Runs(u, n) == {f \in Space.first .. (Space.first + Space.num - n) : (f .. (f + n - 1)) \cap u = {}}
Fits(u, n) == Runs(u, n) # {}

\* Mutant: a page less is marked than was asked for.
AllocateShort(u, size) ==
  LET n == Required(size)
      f == CHOOSE f \in Runs(u, n) : \A g \in Runs(u, n) : f <= g
  IN [page |-> f, used |-> u \cup (f .. (f + n - 2))]
Allocate(u, size) ==
  LET n == Required(size)
      f == CHOOSE f \in Runs(u, n) : \A g \in Runs(u, n) : f <= g
  IN [page |-> f, used |-> u \cup (f .. (f + n - 1))]

-----------------------------------------------------------------------------
(* hal/x86/src/vm.cpp.                                                     *)

EmptyTable == [i \in 0..(ENTRIES - 1) |-> 0]

RECURSIVE Power(_)
Power(i) == IF i = 0 THEN 1 ELSE ENTRIES * Power(i - 1)
Index(v, level) == (v \div Power(level - 1)) % ENTRIES

\* lookup_page_entry: from a table at a level down to the page table, tables
\* allocated on the way.
RECURSIVE LookupPageEntry(_, _, _, _)
LookupPageEntry(mem, t, v, level) ==
  IF level = 1 THEN [mem |-> mem, table |-> t]
  ELSE LET next == mem.tables[t][Index(v, level)]
           new == Allocate(mem.used, PAGE)
       IN IF next # 0 THEN LookupPageEntry(mem, next, v, level - 1)
          ELSE LookupPageEntry(
                 [used |-> new.used,
                  tables |-> [p \in DOMAIN mem.tables \cup {new.page} |->
                                IF p = new.page THEN EmptyTable
                                ELSE IF p = t
                                THEN [mem.tables[t] EXCEPT ![Index(v, level)] = new.page]
                                ELSE mem.tables[p]]],
                 new.page, v, level - 1)

\* hal_link_page: what does not fit in the page table is linked from the same
\* entry again, so an entry keeps the last page that was written to it.
LinkPage(mem, g, v, p, n) ==
  LET r == LookupPageEntry(mem, groups[g].pml4, v, LEVELS)
      idx == Index(v, 1)
      width == ENTRIES - idx
      last(e) == CHOOSE m \in 0..(n - 1) :
                   m % width = e - idx /\ \A k \in 0..(n - 1) : k % width = e - idx => k <= m
  IN [r.mem EXCEPT !.tables[r.table] =
        [e \in DOMAIN @ |-> IF e >= idx /\ e < idx + n THEN p + last(e) ELSE @[e]]]

\* hal_vaddr_to_paddr, 0 when a table is missing.
RECURSIVE Lookup(_, _, _)
Lookup(t, v, level) ==
  IF level = 1 \/ tables[t][Index(v, level)] = 0 THEN tables[t][Index(v, level)]
  ELSE Lookup(tables[t][Index(v, level)], v, level - 1)

-----------------------------------------------------------------------------
(* Threads and thread groups.                                              *)

\* create_thread: the next thread, in a group.
CreateThread(g, status, fregs) ==
  /\ Len(threads) + 1 < THREAD_NUM_MAX
  /\ threads' = Append(threads, [group |-> g, status |-> status, fregs |-> fregs])

\* create_thread in a new group: create_thread_group, hal_create_vm_space.
CreateGroup ==
  LET vpages == Allocate(used, DynNum)
      pml4 == Allocate(vpages.used, PAGE)
  IN /\ Len(groups) + 1 < THREAD_NUM_MAX
     /\ Fits(used, 4)
     /\ used' = pml4.used
     /\ tables' = [p \in DOMAIN tables \cup {pml4.page} |->
                     IF p = pml4.page THEN EmptyTable ELSE tables[p]]
     /\ groups' = Append(groups, [pml4 |-> pml4.page, vpages |-> vpages.page,
                                  dynamic |-> {}, num |-> 1])
     /\ CreateThread(Len(groups) + 1, "blocked", 0)
     /\ UNCHANGED <<linked, chunks, held, locked, ios>>

\* run_thread: a stack, then create_thread, set_reg_state and set_status.
RunThread(g) ==
  LET stack == Allocate(used, 4 * PAGE)
      fregs == Allocate(stack.used, XSAVE_AREA_SIZE)
  IN /\ g \in DOMAIN groups
     /\ Fits(used, 6)
     /\ used' = fregs.used
     /\ groups' = [groups EXCEPT ![g].num = @ + 1]
     /\ CreateThread(g, "runnable", fregs.page)
     /\ UNCHANGED <<tables, linked, chunks, held, locked, ios>>

\* thread.set: hal_set_thread allocates the area for floating point registers.
HandleSet(t) ==
  /\ t \in DOMAIN threads /\ threads[t].fregs = 0
  /\ Fits(used, 1)
  /\ used' = Allocate(used, XSAVE_AREA_SIZE).used
  /\ threads' = [threads EXCEPT ![t].fregs = Allocate(used, XSAVE_AREA_SIZE).page]
  /\ UNCHANGED <<tables, groups, linked, chunks, held, locked, ios>>

HandleStart(t) ==
  /\ t \in DOMAIN threads
  /\ threads[t].status = "blocked" /\ threads[t].fregs # 0
  /\ threads' = [threads EXCEPT ![t].status = "runnable"]
  /\ UNCHANGED <<used, tables, groups, linked, chunks, held, locked, ios>>

\* page_fault::handler: the pager allocates, the page is linked.
PageFault(t, v) ==
  LET g == threads[t].group
      page == Allocate(used, PAGE)
      mem == LinkPage([used |-> page.used, tables |-> tables], g, v, page.page, 1)
  IN /\ t \in DOMAIN threads /\ threads[t].status = "runnable"
     /\ <<g, v>> \notin DOMAIN linked
     /\ Fits(used, 2 * LEVELS)
     /\ used' = mem.used
     /\ tables' = mem.tables
     /\ linked' = [x \in DOMAIN linked \cup {<<g, v>>} |->
                     IF x = <<g, v>> THEN page.page ELSE linked[x]]
     /\ UNCHANGED <<groups, threads, chunks, held, locked, ios>>

\* vmalloc: the first run of free dynamic pages.
VRuns(g, n) == {s \in 0..(DynNum - n) : (s .. (s + n - 1)) \cap groups[g].dynamic = {}}

\* io.allocate of device memory: hal_link_page is given the number of pages
\* as the address and the address as the number of pages.
HandleIoAllocate(g, size, addr) ==
  LET s == CHOOSE s \in VRuns(g, size) : \A r \in VRuns(g, size) : s <= r
      mem == LinkPage([used |-> used, tables |-> tables], g, DynStart + s, 0, addr)
  IN /\ ios < IoMax
     /\ g \in DOMAIN groups
     /\ VRuns(g, size) # {} /\ Fits(used, 2 * LEVELS)
     /\ ios' = ios + 1
     /\ groups' = [groups EXCEPT ![g].dynamic = @ \cup (s .. (s + size - 1))]
     /\ used' = mem.used
     /\ tables' = mem.tables
     /\ UNCHANGED <<threads, linked, chunks, held, locked>>

-----------------------------------------------------------------------------
(* lang/cpp/src/memory.cpp.                                                *)

\* add_chunk: after the first chunk that is not larger, or the last one.
AddChunk(list, c) ==
  LET stop == {i \in DOMAIN list : list[i].size <= c.size \/ i = Len(list)}
      at == CHOOSE i \in stop : \A j \in stop : i <= j
      new == [size |-> c.size, total |-> c.total, unused |-> c.total]
  IN IF list = <<>> THEN <<new>>
     ELSE SubSeq(list, 1, at) \o <<new>> \o SubSeq(list, at + 1, Len(list))

RECURSIVE AllChunks(_)
AllChunks(n) == IF n = 0 THEN <<>> ELSE AddChunk(AllChunks(n - 1), Chunks[n])

\* allocate_memory: the first unused unit of the first chunk that has one; if
\* none has, the memory server is asked and the mutex stays locked.
AllocateMemory(size) ==
  LET list == IF chunks = <<>> THEN AllChunks(Len(Chunks)) ELSE chunks
      S == {i \in DOMAIN list : size <= list[i].size /\ list[i].unused > 0}
      c == CHOOSE i \in S : \A j \in S : i <= j
      free == {u \in 1..list[c].total : \A h \in held : h.chunk # c \/ h.unit # u}
      unit == CHOOSE u \in free : \A w \in free : u <= w
  IN /\ ~locked
     /\ Cardinality(held) < HeapMax
     /\ IF S = {}
          THEN /\ chunks' = list
               /\ locked' = TRUE
               /\ Fits(used, Required(size))
               /\ used' = Allocate(used, size).used
               /\ UNCHANGED held
          ELSE /\ chunks' = [list EXCEPT ![c].unused = @ - 1]
               /\ held' = held \cup {[chunk |-> c, unit |-> unit, size |-> size]}
               /\ UNCHANGED <<locked, used>>
     /\ UNCHANGED <<tables, groups, threads, linked, ios>>

-----------------------------------------------------------------------------
\* thread::init: the kernel's group and its first thread.
Init ==
  LET vpages == Allocate({}, DynNum)
      pml4 == Allocate(vpages.used, PAGE)
  IN /\ used = pml4.used
     /\ tables = [p \in {pml4.page} |-> EmptyTable]
     /\ groups = <<[pml4 |-> pml4.page, vpages |-> vpages.page, dynamic |-> {}, num |-> 1]>>
     /\ threads = <<[group |-> 1, status |-> "blocked", fregs |-> 0]>>
     /\ linked = [x \in {} |-> 0]
     /\ chunks = <<>>
     /\ held = {}
     /\ locked = FALSE
     /\ ios = 0

Next ==
  \/ CreateGroup
  \/ \E g \in DOMAIN groups : RunThread(g) \/ HandleIoAllocate(g, 1, PAGE)
  \/ \E t \in DOMAIN threads : \/ HandleSet(t) \/ HandleStart(t)
                               \/ \E v \in UserPages : PageFault(t, v)
  \/ \E size \in Sizes : AllocateMemory(size)

Spec == Init /\ [][Next]_vars

-----------------------------------------------------------------------------
\* A page a user was given by a page fault is found at its address for good
\* (lookup_page_entry, hal_link_page), no other address of any group leads
\* to it, and it is no page table, register area or page map of the kernel.
PagesOnce ==
  LET ofKernel == DOMAIN tables \cup {threads[t].fregs : t \in DOMAIN threads}
                    \cup {groups[g].vpages : g \in DOMAIN groups}
  IN /\ \A x \in DOMAIN linked :
          /\ Lookup(groups[x[1]].pml4, x[2], LEVELS) = linked[x]
          /\ linked[x] \notin ofKernel
          /\ \A y \in DOMAIN linked : x # y => linked[x] # linked[y]
     /\ Cardinality({groups[g].pml4 : g \in DOMAIN groups}) = Len(groups)

\* Blocks of allocate_memory are as large as asked for, and no unit is handed
\* out twice: what a chunk counts as unused is what is not held.
BlocksOnce ==
  /\ \A h \in held : h.size <= chunks[h.chunk].size
  /\ \A c \in DOMAIN chunks :
       chunks[c].unused = chunks[c].total - Cardinality({h \in held : h.chunk = c})

MemoryRight == PagesOnce /\ BlocksOnce
=============================================================================
