------------------------------- MODULE Heaps --------------------------------
(***************************************************************************)
(* Two allocators: microkernel2's kernel heap (kernel/kmalloc.c), one list *)
(* for small and one for large blocks, and the heap of Resea's user        *)
(* library (libs/libresea/malloc.c), which grows by pages.  A heap is its  *)
(* list of chunks: address and size of the header's block, in use or not.  *)
(* Addresses and sizes of kmalloc are in units of 8 bytes, those of malloc *)
(* in bytes divided alike.                                                 *)
(***************************************************************************)
EXTENDS Integers, Sequences, FiniteSets, SequencesExt

CONSTANTS
  Header,     \* sizeof(struct chunk) in units
  Regions,    \* kmalloc's regions: list, addr, size
  LargeSize,  \* size from which a block is large
  Sizes,      \* sizes asked for
  Pages,      \* units a heap of malloc grows by
  HeapMax     \* units it may have, for TLC

VARIABLES
  which,    \* the allocator: "kmalloc" or "malloc"
  lists,    \* list name -> its chunks in list order
  used,     \* kmalloc's count of bytes in use
  bottom,   \* heap_area_bottom
  held      \* blocks their users have: [addr, size] as asked for

vars == <<which, lists, used, bottom, held>>

Chunk(addr, size) == [addr |-> addr, size |-> size, used |-> FALSE]
DataOf(c) == c.addr + Header

-----------------------------------------------------------------------------
(* add_kmalloc_chunk for every region, at the end of its list. *)
AddKmallocChunk(l, r) == [l EXCEPT ![r.list] = Append(@, Chunk(r.addr, r.size - Header))]
Init ==
  /\ which \in {"kmalloc", "malloc"}
  /\ lists = IF which = "kmalloc"
             THEN FoldLeft(AddKmallocChunk, [n \in {"small", "large", "arena"} |-> <<>>], Regions)
             ELSE [n \in {"small", "large", "arena"} |-> <<>>]
  /\ used = 0 /\ bottom = 0 /\ held = {}

Take(list, k, size, splits) ==
  LET c == list[k]
      rest == Chunk(DataOf(c) + size, c.size - size - Header)
      taken == [c EXCEPT !.used = TRUE, !.size = size]
  IN IF splits THEN SubSeq(list, 1, k - 1) \o <<taken, rest>> \o SubSeq(list, k + 1, Len(list))
     ELSE [list EXCEPT ![k] = taken]
Fits(list, size) == {k \in DOMAIN list : ~list[k].used /\ size <= list[k].size}
FirstFit(list, size) == CHOOSE k \in Fits(list, size) : \A j \in Fits(list, size) : k <= j

(* _kmalloc; kmalloc chooses the list. *)
ListFor(size) == IF size >= LargeSize THEN "large" ELSE "small"
Kmalloc(size) ==
  LET n == ListFor(size)
      list == lists[n]
  IN /\ which = "kmalloc" /\ Fits(list, size) # {}
     /\ LET k == FirstFit(list, size)
        IN /\ lists' = [lists EXCEPT ![n] = Take(list, k, size, size + Header < list[k].size)]
           /\ held' = held \cup {[addr |-> DataOf(list[k]), size |-> size]}
     /\ used' = used + size
     /\ UNCHANGED <<which, bottom>>

(* merge_cont_chunks: the end of a chunk is computed with pointers to      *)
(* chunks, so a byte of it counts as a chunk; of the merged chunk only the *)
(* size of the second remains.                                             *)
Contiguous(c, d) == c.addr + (Header * 8 + c.size * 8) * Header = d.addr
RECURSIVE MergeFrom(_, _)
MergeFrom(list, k) ==
  IF k >= Len(list) THEN list
  ELSE LET c == list[k]
           d == list[k + 1]
       IN IF ~c.used /\ ~d.used /\ Contiguous(c, d)
          THEN MergeFrom(SubSeq(list, 1, k - 1) \o <<[c EXCEPT !.size = d.size + Header]>>
                         \o SubSeq(list, k + 2, Len(list)), k)
          ELSE MergeFrom(list, k + 1)
MergeContChunks(list) == MergeFrom(list, 1)
Released(list, addr) ==
  [k \in DOMAIN list |-> IF DataOf(list[k]) = addr THEN [list[k] EXCEPT !.used = FALSE] ELSE list[k]]
SizeAt(addr) ==
  (CHOOSE c \in UNION {{lists[n][k] : k \in DOMAIN lists[n]} : n \in DOMAIN lists} : DataOf(c) = addr).size
(* kfree, also behind try_kfree, which leaves pointers that are no chunk's. *)
Kfree(b) ==
  /\ which = "kmalloc" /\ b \in held
  /\ lists' = [n \in DOMAIN lists |-> MergeContChunks(Released(lists[n], b.addr))]
  /\ used' = used - SizeAt(b.addr)
  /\ held' = held \ {b}
  /\ UNCHANGED <<which, bottom>>

-----------------------------------------------------------------------------
(* expand_arena: pages from grow_heap_area become a chunk at the end. *)
ExpandArena(list) == Append(list, Chunk(bottom, Pages - Header))
(* malloc and alloc_from_arena: the heap grows once if nothing fits. *)
Malloc(asked) ==
  LET size == IF asked = 0 THEN 1 ELSE asked
      grows == Fits(lists["arena"], size) = {}
      list == IF grows THEN ExpandArena(lists["arena"]) ELSE lists["arena"]
      k == FirstFit(list, size)
  IN /\ which = "malloc"
     /\ grows => bottom + Pages <= HeapMax
     /\ Fits(list, size) # {}
     /\ lists' = [lists EXCEPT !["arena"] = Take(list, k, size, list[k].size - size > Header)]
     /\ bottom' = IF grows THEN bottom + Pages ELSE bottom
     /\ held' = held \cup {[addr |-> DataOf(list[k]), size |-> size]}
     /\ UNCHANGED <<which, used>>
(* free. *)
Free(b) ==
  /\ which = "malloc" /\ b \in held
  /\ lists' = [lists EXCEPT !["arena"] = Released(@, b.addr)]
  /\ held' = held \ {b}
  /\ UNCHANGED <<which, used, bottom>>

Next ==
  \/ \E size \in Sizes : (size > 0 /\ Kmalloc(size)) \/ Malloc(size)
  \/ \E b \in held : Kfree(b) \/ Free(b)
Spec == Init /\ [][Next]_vars

-----------------------------------------------------------------------------
Span(addr, size) == addr..addr + size - 1
Memory == IF which = "malloc" THEN Span(0, bottom)
          ELSE UNION {Span(Regions[r].addr, Regions[r].size) : r \in DOMAIN Regions}
Headers == UNION {{Span(lists[n][k].addr, Header) : k \in DOMAIN lists[n]} : n \in DOMAIN lists}

(* After any sequence of allocations and releases, with chunks split, used *)
(* again and left too small for a header: no two blocks in use overlap,    *)
(* none overlaps the header of a chunk, and all are in the heap's memory.  *)
BlocksDisjoint ==
  \A b \in held :
    /\ Span(b.addr, b.size) \subseteq Memory
    /\ \A c \in held \ {b} : Span(b.addr, b.size) \cap Span(c.addr, c.size) = {}
    /\ \A h \in Headers : Span(b.addr, b.size) \cap h = {}
=============================================================================
