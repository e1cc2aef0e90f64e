----------------------------- MODULE ReseaPages -----------------------------
(***************************************************************************)
(* Physical memory of memmgr in Resea (servers/memmgr/alloc_pages.c):      *)
(* zones of pages with one free list for each order.  A chunk of order o   *)
(* is 2^o pages; it is split when a smaller one is wanted.  merge()        *)
(* returns before it merges anything.  Addresses are page numbers within a *)
(* zone.                                                                   *)
(***************************************************************************)
EXTENDS Naturals, FiniteSets, SequencesExt

CONSTANTS
  MAX_PAGE_ORDER,
  ZonePages      \* the data pages of each zone, a sequence

VARIABLES
  free_lists,    \* zone -> order -> sequence of page frame numbers
  pages,         \* zone -> page frame number -> [in_use, order]
  given,         \* chunks handed out: [zone, pfn, order]
  failed         \* an assertion of the allocator failed

vars == <<free_lists, pages, given, failed>>

Zones == 1..Len(ZonePages)
Orders == 0..MAX_PAGE_ORDER

(* compute_buddy_pfn: pfn XOR 2^order *)
BuddyPfn(pfn, order) ==
  IF (pfn \div 2^order) % 2 = 0 THEN pfn + 2^order ELSE pfn - 2^order

(* init_zone: chunks of the largest order that fit, in one pass from the   *)
(* largest order down.                                                     *)
InitialChunks(num) ==
  LET remaining[o \in 0..(MAX_PAGE_ORDER + 1)] ==
        IF o = MAX_PAGE_ORDER + 1 THEN num ELSE remaining[o + 1] % 2^o
  IN  [o \in Orders |->
         [i \in 1..(remaining[o + 1] \div 2^o) |-> (num - remaining[o + 1]) + (i - 1) * 2^o]]

OrderOf(lists, pfn) ==
  IF \E o \in Orders : pfn \in ToSet(lists[o])
  THEN CHOOSE o \in Orders : pfn \in ToSet(lists[o])
  ELSE 0

(* init_alloc_pages *)
Init ==
  /\ free_lists = [z \in Zones |-> InitialChunks(ZonePages[z])]
  /\ pages = [z \in Zones |-> [pfn \in 0..(ZonePages[z] - 1) |->
                [in_use |-> FALSE, order |-> OrderOf(free_lists[z], pfn)]]]
  /\ given = {}
  /\ failed = FALSE

(* add_to_free_list, on one zone Z = [lists, pages] *)
AddToFreeList(Z, pfn, order) ==
  [lists |-> [Z.lists EXCEPT ![order] = Append(@, pfn)],
   pages |-> [Z.pages EXCEPT ![pfn] = [in_use |-> FALSE, order |-> order]]]

(* alloc_from_zone, of a list that is not empty *)
AllocFromZone(Z, order) ==
  [lists |-> [Z.lists EXCEPT ![order] = Tail(@)],
   pages |-> [Z.pages EXCEPT ![Head(Z.lists[order])].in_use = TRUE]]

(* split: the nearest larger chunk is halved down to the target order. *)
CanSplit(Z, target) == \E o \in (target + 1)..MAX_PAGE_ORDER : Z.lists[o] # <<>>
Split(Z, target) ==
  LET from == CHOOSE o \in (target + 1)..MAX_PAGE_ORDER :
                /\ Z.lists[o] # <<>>
                /\ \A p \in (target + 1)..(o - 1) : Z.lists[p] = <<>>
      halve[o \in target..from] ==
        IF o = from THEN Z
        ELSE LET W == halve[o + 1]
                 pfn == Head(W.lists[o + 1])
             IN  AddToFreeList(AddToFreeList(AllocFromZone(W, o + 1), pfn, o),
                               BuddyPfn(pfn, o), o)
  IN  halve[target]

Zone(z) == [lists |-> free_lists[z], pages |-> pages[z]]
HasOrder(z, order) == free_lists[z][order] # <<>> \/ CanSplit(Zone(z), order)

SetZone(z, Z) ==
  /\ free_lists' = [free_lists EXCEPT ![z] = Z.lists]
  /\ pages' = [pages EXCEPT ![z] = Z.pages]

(* alloc_pages: the first zone that has a chunk, splitting before it looks *)
(* at the next zone.  split() asserts that the order is not the largest.   *)
AllocPages(order) ==
  /\ ~failed
  /\ \E z \in Zones :
       /\ \A y \in 1..(z - 1) : ~HasOrder(y, order)
       /\ IF order = MAX_PAGE_ORDER /\ \E y \in 1..z : free_lists[y][order] = <<>>
          THEN /\ failed' = TRUE
               /\ UNCHANGED <<free_lists, pages, given>>
          ELSE /\ HasOrder(z, order)
               /\ LET Z == IF free_lists[z][order] = <<>> THEN Split(Zone(z), order) ELSE Zone(z)
                      pfn == Head(Z.lists[order])
                  IN  /\ SetZone(z, AllocFromZone(Z, order))
                      /\ failed' = (Z.pages[pfn].in_use \/ Z.pages[pfn].order # order)
                      /\ given' = given \cup {[zone |-> z, pfn |-> pfn, order |-> order]}

(* is_paddr_in_zone compares with the size of the first zone. *)
InZone(pfn) == pfn < ZonePages[1]

(* free_pages of a chunk that was handed out, with its order *)
FreePages(c) ==
  /\ ~failed
  /\ c \in given
  /\ given' = given \ {c}
  /\ IF InZone(c.pfn)
     THEN SetZone(c.zone, AddToFreeList(Zone(c.zone), c.pfn, c.order)) /\ UNCHANGED failed
     ELSE failed' = TRUE /\ UNCHANGED <<free_lists, pages>>

Next ==
  \/ \E order \in Orders : AllocPages(order)
  \/ \E c \in given : FreePages(c)

Spec == Init /\ [][Next]_vars

-----------------------------------------------------------------------------
FreeChunks(z) ==
  UNION {{[pfn |-> pfn, order |-> o] : pfn \in ToSet(free_lists[z][o])} : o \in Orders}
GivenChunks(z) == {[pfn |-> c.pfn, order |-> c.order] : c \in {d \in given : d.zone = z}}
Cover(c) == c.pfn..(c.pfn + 2^c.order - 1)

(* Every page belongs to exactly one chunk, free or handed out: splitting  *)
(* neither loses a page nor gives one to two owners.                       *)
PagesPartitioned ==
  ~failed =>
    \A z \in Zones :
      LET C == FreeChunks(z) \cup GivenChunks(z)
      IN  /\ UNION {Cover(c) : c \in C} = 0..(ZonePages[z] - 1)
          /\ FoldSet(LAMBDA c, n : n + 2^c.order, 0, C) = ZonePages[z]

(* What the assertions of alloc_from_zone rely on: a page at the head of a *)
(* chunk on a free list has that list's order and is not in use, a page of *)
(* a chunk that was handed out is in use.                                  *)
HeadsExact ==
  ~failed =>
    \A z \in Zones :
      /\ \A c \in FreeChunks(z) : pages[z][c.pfn] = [in_use |-> FALSE, order |-> c.order]
      /\ \A c \in GivenChunks(z) : pages[z][c.pfn] = [in_use |-> TRUE, order |-> c.order]
=============================================================================
