----------------------------- MODULE ReseaDebug -----------------------------
(***************************************************************************)
(* The debugging aids of the Resea kernel: the address sanitizer (a shadow *)
(* tag for every byte of the kmalloc arena, checked by every instrumented  *)
(* load and store, the allocator's own included), the debugger on the      *)
(* serial port, and the lookup of a symbol for a backtrace.                *)
(*                                                                         *)
(* An object has three parts: the links (the two magics, next and          *)
(* num_objects) and the padding of the struct free_list that overlays a    *)
(* free object, and the tail after that struct.  The kernel runs its       *)
(* clients one at a time, so a check is one step.                          *)
(***************************************************************************)
EXTENDS Integers, FiniteSets, SequencesExt

CONSTANTS
  ObjectNum,   \* objects of the arena
  LineSize,    \* sizeof(cmdline)
  Keys,        \* characters typed, "\r" and NUL excepted
  Addrs,       \* addresses looked up in the symbol table
  SymbolTables \* symbol tables: ascending sequences of addresses

VARIABLES
  shadow,        \* address -> part -> tag
  asan_enabled,
  free_list,     \* the arena's extents, as records
  live,          \* addresses that have been handed out
  written,       \* parts of a live object that its owner has initialised
  cmdline,       \* what has been read of a debugger command
  panic          \* why the kernel stopped, or "none"

vars == <<shadow, asan_enabled, free_list, live, written, cmdline, panic>>

Objects == 0..(ObjectNum - 1)
Parts == {"links", "padding", "tail"}
HeaderParts == Parts \ {"tail"}     \* sizeof(struct free_list)

-----------------------------------------------------------------------------
(* asan_init_area *)
AsanInitArea(sh, tag, o, parts) ==
  [sh EXCEPT ![o] = [p \in Parts |-> IF p \in parts THEN tag ELSE @[p]]]

(* check_load, check_store: the reason to panic, or "none".  A store makes *)
(* uninitialized memory valid.                                             *)
LoadFault(tag) ==
  CASE tag = "valid" -> "none" [] tag = "freed" -> "use after free"
    [] tag = "not_allocated" -> "unallocated" [] OTHER -> "uninitialized"

StoreFault(tag) == IF tag = "uninitialized" THEN "none" ELSE LoadFault(tag)

CheckLoad(sh, o, p) == IF asan_enabled THEN LoadFault(sh[o][p]) ELSE "none"
CheckStore(sh, o, p) == IF asan_enabled THEN StoreFault(sh[o][p]) ELSE "none"

(* The checks of an operation that touches these parts, in order. *)
FirstFault(faults) ==
  LET bad == SelectSeq(faults, LAMBDA f : f # "none") IN
  IF bad = <<>> THEN "none" ELSE Head(bad)

(* PANIC inside a check leaves the sanitizer off, so that the report does  *)
(* not fault again.                                                        *)
Panic(reason) ==
  /\ panic' = reason
  /\ asan_enabled' = FALSE
  /\ UNCHANGED <<shadow, free_list, live, written, cmdline>>

-----------------------------------------------------------------------------
Extent(addr, num) == [addr |-> addr, num |-> num]

\* Mutant: the check looks at the links, which every free object may access.
AsanCheckDoubleFreeLinks(sh, o) ==
  IF sh[o]["links"] = "freed" THEN "double free" ELSE "none"

(* asan_check_double_free *)
AsanCheckDoubleFree(sh, o) ==
  IF sh[o]["padding"] = "freed" THEN "double free" ELSE "none"

(* add_free_list: the links of the extent before it are written as well.   *)
AddFreeListShadow(sh, o) ==
  LET header == AsanInitArea(sh, "uninitialized", o, HeaderParts)
      stored == AsanInitArea(header, "valid", o, {"links"})
  IN  AsanInitArea(stored, "freed", o, {"padding"})

AddFreeListFault(sh, list, o) ==
  FirstFault(<<AsanCheckDoubleFree(sh, o)>> \o
             (IF list = <<>> THEN <<>> ELSE <<CheckStore(sh, Last(list).addr, "links")>>))

(* asan_init, then arena_init *)
Init ==
  /\ shadow = AddFreeListShadow([o \in Objects |-> [p \in Parts |-> "not_allocated"]], 0)
  /\ asan_enabled = TRUE
  /\ free_list = <<Extent(0, ObjectNum)>>
  /\ live = {} /\ written = [o \in Objects |-> {}]
  /\ cmdline = <<>> /\ panic = "none"

(* kmalloc_from *)
KmallocFrom ==
  /\ panic = "none"
  /\ IF free_list = <<>> THEN Panic("out of memory")
     ELSE LET e == Head(free_list)
              o == e.addr + e.num - 1
              fault == FirstFault(<<CheckLoad(shadow, e.addr, "links"),
                                    CheckStore(shadow, e.addr, "links")>>)
          IN  IF fault # "none" THEN Panic(fault)
              ELSE /\ free_list' = IF e.num = 1 THEN Tail(free_list)
                                   ELSE Append(Tail(free_list), Extent(e.addr, e.num - 1))
                   /\ shadow' = AsanInitArea(shadow, "uninitialized", o, Parts)
                   /\ live' = live \cup {o}
                   /\ written' = [written EXCEPT ![o] = {}]
                   /\ UNCHANGED <<asan_enabled, cmdline, panic>>

(* kfree, of an object that is allocated or of one that no longer is. *)
Kfree ==
  /\ panic = "none"
  /\ \E o \in live \cup {free_list[i].addr : i \in 1..Len(free_list)} :
       LET fault == AddFreeListFault(shadow, free_list, o) IN
       IF fault # "none" THEN Panic(fault)
       ELSE /\ free_list' = Append(free_list, Extent(o, 1))
            /\ shadow' = AddFreeListShadow(shadow, o)
            /\ live' = live \ {o}
            /\ UNCHANGED <<asan_enabled, written, cmdline, panic>>

(* An instrumented access: a store of the owner, a load of anyone (one that *)
(* passes the check changes nothing).                                      *)
Store ==
  /\ panic = "none"
  /\ \E o \in live, p \in Parts :
       LET fault == CheckStore(shadow, o, p) IN
       IF fault # "none" THEN Panic(fault)
       ELSE /\ shadow' = AsanInitArea(shadow, "valid", o, {p})
            /\ written' = [written EXCEPT ![o] = @ \cup {p}]
            /\ UNCHANGED <<asan_enabled, free_list, live, cmdline, panic>>

Load ==
  /\ panic = "none"
  /\ \E o \in Objects, p \in Parts :
       /\ CheckLoad(shadow, o, p) # "none"
       /\ Panic(CheckLoad(shadow, o, p))

-----------------------------------------------------------------------------
(* debugger_run: "km" subtracts the free extents from the size of the arena; *)
(* no command changes the kernel.                                          *)
NumUsedObjects == FoldSeq(LAMBDA e, n : n - e.num, ObjectNum, free_list)

(* debugger_oninterrupt, for one character: a line that fills the buffer   *)
(* is dropped and what follows it is read as a line of its own.            *)
LineFull(line) == Len(line) > LineSize - 1

DebuggerOninterrupt ==
  /\ panic = "none"
  /\ \/ cmdline' = <<>>
     \/ \E ch \in Keys :
          cmdline' = IF LineFull(Append(cmdline, ch)) THEN <<>> ELSE Append(cmdline, ch)
  /\ UNCHANGED <<shadow, asan_enabled, free_list, live, written, panic>>

Next == KmallocFrom \/ Kfree \/ Store \/ Load \/ DebuggerOninterrupt

Spec == Init /\ [][Next]_vars

-----------------------------------------------------------------------------
(* find_symbol: indices count from 0; -1 is "(invalid address)". *)
FindSymbol(symbols, vaddr) ==
  LET search[l \in -1..Len(symbols), r \in 0..Len(symbols)] ==
        IF r - l <= 1 THEN l
        ELSE LET mid == IF l + r < 0 THEN 0 ELSE (l + r) \div 2
             IN  IF vaddr >= symbols[mid + 1] THEN search[mid, r] ELSE search[l, mid]
  IN  search[-1, Len(symbols)]

(* The sanitizer raises no false alarm and keeps its promise: an owner may *)
(* store anywhere and load what it stored and nothing else, memory that    *)
(* was never handed out is never valid, and the padding of every freed     *)
(* object is marked, so a second free of it is always caught; whatever     *)
(* order objects are allocated, written and freed in.                      *)
ShadowExact ==
  /\ \A o \in live, p \in Parts :
       shadow[o][p] = IF p \in written[o] THEN "valid" ELSE "uninitialized"
  /\ \A i \in 1..Len(free_list) :
       LET e == free_list[i] IN
       /\ shadow[e.addr]["padding"] = "freed"
       /\ \A o \in (e.addr + 1)..(e.addr + e.num - 1), p \in Parts :
            shadow[o][p] = "not_allocated"

SymbolsRight ==
  \A symbols \in SymbolTables, a \in Addrs :
    FindSymbol(symbols, a) = Cardinality({i \in 1..Len(symbols) : symbols[i] <= a}) - 1

(* What the debugger reports and prints in a backtrace: "km" counts the    *)
(* objects really in use, the line buffer is never overrun, and an address *)
(* is attributed to the last symbol that does not lie after it.            *)
ReportsRight ==
  /\ NumUsedObjects = Cardinality(live)
  /\ Len(cmdline) < LineSize
  /\ SymbolsRight

DebugRight == ShadowExact /\ ReportsRight
=============================================================================
