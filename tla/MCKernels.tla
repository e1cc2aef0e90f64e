----------------------------- MODULE MCKernels -----------------------------
(***************************************************************************)
(* The kernels and drivers of Resea and of the microkernels 3 and 1, each  *)
(* with what must hold in every state: memory, IPC, paging and devices.    *)
(* They have nothing to do with each other and are checked in one run:     *)
(* `part` says which one runs.                                             *)
(***************************************************************************)
EXTENDS Naturals, SequencesExt

CONSTANTS NULL

VARIABLE part   \* which of the programs runs

VARIABLES ipc_chan, ipc_threads, ipc_blocked, ipc_abort, ipc_blockedOn, ipc_pc, ipc_buf,
          ipc_runqueue, ipc_current, ipc_listeners, ipc_todo, ipc_links, ipc_program,
          ipc_halted
VARIABLES objects_arena, objects_used, objects_process_table, objects_channels,
  objects_listeners, objects_timers,
          objects_user_timers, objects_active_timers, objects_state
VARIABLES paging_table, paging_next, paging_waits, paging_call, paging_calls, paging_state
VARIABLES zones_free_lists, zones_pages, zones_given, zones_failed
VARIABLES pci_space, pci_bytes, pci_answer, pci_accesses, pci_drv, pci_common, pci_virtq
VARIABLES debug_shadow, debug_asan_enabled, debug_free_list, debug_live, debug_written,
          debug_cmdline, debug_panic
VARIABLES ipc3_k, ipc3_srv, ipc3_count
VARIABLES allIpc3_k, allIpc3_srv, allIpc3_count
VARIABLES memory3_mem, memory3_vm, memory3_next, memory3_srv, memory3_robbed, memory3_stopped
VARIABLES memory1_used, memory1_tables, memory1_groups, memory1_threads, memory1_linked,
          memory1_chunks, memory1_held, memory1_locked, memory1_ios
VARIABLES storage_type, storage_files, storage_desc, storage_req
VARIABLES net_sockets, net_last
VARIABLES heap_which, heap_lists, heap_used, heap_bottom, heap_held

(* Resea IPC: one process with two threads, the kernel server, and one     *)
(* channel more than it needs.                                             *)
IpcProcessOf == [t \in {"a", "b", "server"} |-> IF t = "server" THEN "kernel" ELSE "A"]
IpcPrograms == {{"exit", "give"}, {"connect"}, {"listen"}, {"link"}, {"page", "exit"}}

(* Two vm areas that overlap; a receiver whose base is at the end of a     *)
(* page table, and one that has none.                                      *)
PagingAreas == <<[start |-> 0, end |-> 1], [start |-> 0, end |-> 2]>>
PagingBases ==
  {[page |-> 1, order |-> 2], [page |-> 0, order |-> 2]}

(* A bridge, and a virtio_blk device with a list of three capabilities. *)
PciDevices ==
  (1 :> (0 :> <<134, 128, 0, 16>>)) @@
  (3 :> ((0 :> <<244, 26, 1, 16>>) @@ (4 :> <<7, 0, 16, 0>>) @@ (20 :> <<0, 0, 0, 254>>)
         @@ (52 :> <<64, 0, 0, 0>>) @@ (64 :> <<17, 80, 0, 0>>)
         @@ (80 :> <<9, 112, 20, 2>>) @@ (84 :> <<1, 0, 0, 0>>) @@ (88 :> <<0, 48, 0, 0>>)
         @@ (96 :> <<4, 0, 0, 0>>)
         @@ (112 :> <<9, 0, 16, 1>>) @@ (116 :> <<1, 0, 0, 0>>) @@ (120 :> <<0, 0, 0, 0>>)))
PciQueueSize == (1 :> 2) @@ (3 :> 2048)

DebugSymbols == {SetToSortSeq(S, <) : S \in SUBSET {1, 2, 4}}

(* microkernel3: a server and a client; with fewer calls, every call. *)
Ipc3Calls ==
  ("a" :> {"register", "replyrecv"})
    @@ ("b" :> {"discover", "send", "notify", "close"})
AllIpc3Calls ==
  ("a" :> {"register", "recv", "replyrecv", "listen", "transfer", "open"})
    @@ ("b" :> {"discover", "send", "notify", "close", "exit", "connect", "log"})
Segment(vaddr, filesz, memsz, writable) ==
  [vaddr |-> vaddr, filesz |-> filesz, memsz |-> memsz, writable |-> writable]
Memory3Files ==
  << <<Segment(0, 1, 1, FALSE), Segment(1, 0, 1, TRUE)>>, <<Segment(0, 2, 2, TRUE)>> >>

(* microkernel1: memory below and above the kernel, and reserved memory. *)
Memory1Map ==
  <<[base |-> 0, length |-> 16, type |-> 1], [base |-> 64, length |-> 656, type |-> 1],
    [base |-> 4096, length |-> 64, type |-> 2]>>
Memory1Chunks ==
  <<[size |-> 8, total |-> 1], [size |-> 16, total |-> 1], [size |-> 64, total |-> 1]>>

(* Files and a directory, and the entries get_next_cluster finds. *)
Entry(name, ext, cluster) == [name |-> name, ext |-> ext, cluster |-> cluster]
StorageLayout == [reserved |-> 2, fat_num |-> 2, fat_size |-> 1, root_size |-> 1]
StorageWords == (<<7, 0>> :> 4) @@ (<<8, 0>> :> -1) @@ (<<9, 0>> :> 3)
StorageRoot ==
  <<Entry(<<"A">>, <<"T">>, 2), Entry(<<"A", "B">>, <<>>, 3), Entry(<<"B">>, <<>>, 4)>>
StorageDirs == 3 :> <<Entry(<<"B">>, <<"T">>, 5)>>
StoragePaths ==
  {[text |-> <<"A", ".", "T", "NUL", x>>, size |-> 3] : x \in {"NUL", "A"}} \cup
  {[text |-> <<"A", "B", "/", "B", ".", "T", "NUL">>, size |-> 6],
   [text |-> <<"B", "NUL">>, size |-> 1], [text |-> <<"C", "NUL">>, size |-> 1]}

NetPayloads == {<<>>, <<1>>, <<1, 2, 3, 4, 5>>}

HeapRegions ==
  <<[list |-> "small", addr |-> 0, size |-> 15], [list |-> "large", addr |-> 20, size |-> 14]>>

-----------------------------------------------------------------------------
Ipc == INSTANCE ReseaIpc WITH
  None <- NULL, Kernel <- "kernel", Procs <- {"A"}, Ks <- "server", Idle <- "idle",
  Users <- {"a", "b"}, ProcessOf <- IpcProcessOf, Chans <- {"k0", "k1", "u1", "x"},
  ServerCh <- "k0", KernelEnd <- [p \in {"A"} |-> "k1"],
  UserEnd <- [p \in {"A"} |-> "u1"], Programs <- IpcPrograms, LinkMax <- 2,
  chan <- ipc_chan, threads <- ipc_threads, blocked <- ipc_blocked, abort <- ipc_abort,
  blockedOn <- ipc_blockedOn, pc <- ipc_pc, buf <- ipc_buf, runqueue <- ipc_runqueue,
  current <- ipc_current, listeners <- ipc_listeners, todo <- ipc_todo,
  links <- ipc_links, program <- ipc_program, halted <- ipc_halted
ipcVars == <<ipc_chan, ipc_threads, ipc_blocked, ipc_abort, ipc_blockedOn, ipc_pc,
  ipc_buf, ipc_runqueue, ipc_current, ipc_listeners, ipc_todo, ipc_links, ipc_program,
  ipc_halted>>
ipcOff ==
  /\ ipc_chan = 0 /\ ipc_threads = 0 /\ ipc_blocked = 0 /\ ipc_abort = 0
  /\ ipc_blockedOn = 0 /\ ipc_pc = 0 /\ ipc_buf = 0 /\ ipc_runqueue = 0
  /\ ipc_current = 0 /\ ipc_listeners = 0 /\ ipc_todo = 0 /\ ipc_links = 0
  /\ ipc_program = 0 /\ ipc_halted = 0

Objects == INSTANCE ReseaObjects WITH
  ObjectNum <- 15, PageNum <- 34, PidNum <- 7, IdNum <- 3, CidNum <- 3, Initial <- {0},
  arena <- objects_arena, used <- objects_used, process_table <- objects_process_table,
  channels <- objects_channels, listeners <- objects_listeners,
  timers <- objects_timers, user_timers <- objects_user_timers,
  active_timers <- objects_active_timers, state <- objects_state
objectsVars == <<objects_arena, objects_used, objects_process_table, objects_channels,
  objects_listeners, objects_timers,
  objects_user_timers, objects_active_timers, objects_state>>
objectsOff ==
  /\ objects_arena = 0 /\ objects_used = 0 /\ objects_process_table = 0
  /\ objects_channels = 0 /\ objects_listeners = 0
  /\ objects_timers = 0 /\ objects_user_timers = 0 /\ objects_active_timers = 0
  /\ objects_state = 0

Paging == INSTANCE ReseaPaging WITH
  Procs <- {"p", "q"}, Kernel <- "kernel", EntryNum <- 2, DirNum <- 2, OrderMax <- 2,
  FrameNum <- 2, TableMax <- 3, Areas <- PagingAreas, Bases <- PagingBases,
  WaitMax <- 2, CallMax <- 3, table <- paging_table,
  next <- paging_next, waits <- paging_waits, call <- paging_call, calls <- paging_calls,
  state <- paging_state
pagingVars == <<paging_table, paging_next, paging_waits, paging_call, paging_calls,
  paging_state>>
pagingOff ==
  /\ paging_table = 0 /\ paging_next = 0 /\ paging_waits = 0 /\ paging_call = 0
  /\ paging_calls = 0 /\ paging_state = 0

Zones == INSTANCE ReseaPages WITH
  MAX_PAGE_ORDER <- 2, ZonePages <- <<5, 2>>, free_lists <- zones_free_lists,
  pages <- zones_pages, given <- zones_given, failed <- zones_failed
zonesVars == <<zones_free_lists, zones_pages, zones_given, zones_failed>>
zonesOff ==
  /\ zones_free_lists = 0 /\ zones_pages = 0 /\ zones_given = 0 /\ zones_failed = 0

Pci == INSTANCE ReseaPci WITH
  Devices <- PciDevices, QueueSize <- PciQueueSize, PAGES <- 65536,
  Offsets <- {4, 6, 19, 52}, Data <- {0, 9}, AccessMax <- 2, space <- pci_space,
  bytes <- pci_bytes, answer <- pci_answer, accesses <- pci_accesses, drv <- pci_drv,
  common <- pci_common, virtq <- pci_virtq
pciVars == <<pci_space, pci_bytes, pci_answer, pci_accesses, pci_drv, pci_common,
  pci_virtq>>
pciOff ==
  /\ pci_space = 0 /\ pci_bytes = 0 /\ pci_answer = 0 /\ pci_accesses = 0
  /\ pci_drv = 0 /\ pci_common = 0 /\ pci_virtq = 0

Debug == INSTANCE ReseaDebug WITH
  ObjectNum <- 3, LineSize <- 2, Keys <- {"k"}, Addrs <- 0..5,
  SymbolTables <- DebugSymbols, shadow <- debug_shadow,
  asan_enabled <- debug_asan_enabled, free_list <- debug_free_list, live <- debug_live,
  written <- debug_written, cmdline <- debug_cmdline, panic <- debug_panic
debugVars == <<debug_shadow, debug_asan_enabled, debug_free_list, debug_live,
  debug_written, debug_cmdline, debug_panic>>
debugOff ==
  /\ debug_shadow = 0 /\ debug_asan_enabled = 0 /\ debug_free_list = 0
  /\ debug_live = 0 /\ debug_written = 0 /\ debug_cmdline = 0 /\ debug_panic = 0

Ipc3 == INSTANCE Mk3Ipc WITH
  Users <- {"a", "b"}, Calls <- Ipc3Calls, CidMax <- 4, Args <- {1, 2}, CallMax <- 3,
  IrqMax <- 0, k <- ipc3_k, srv <- ipc3_srv, count <- ipc3_count
ipc3Vars == <<ipc3_k, ipc3_srv, ipc3_count>>
ipc3Off ==
  /\ ipc3_k = 0 /\ ipc3_srv = 0 /\ ipc3_count = 0

AllIpc3 == INSTANCE Mk3Ipc WITH
  Users <- {"a", "b"}, Calls <- AllIpc3Calls, CidMax <- 4, Args <- {1, 2}, CallMax <- 2,
  IrqMax <- 1, k <- allIpc3_k, srv <- allIpc3_srv, count <- allIpc3_count
allIpc3Vars == <<allIpc3_k, allIpc3_srv, allIpc3_count>>
allIpc3Off ==
  /\ allIpc3_k = 0 /\ allIpc3_srv = 0 /\ allIpc3_count = 0

Memory3 == INSTANCE Mk3Memory WITH
  Files <- Memory3Files, ProcMax <- 2, FrameNum <- 23, EntryNum <- 2, DynBase <- 2,
  DynNum <- 3, NumMax <- 2, Devices <- {40}, mem <- memory3_mem, vm <- memory3_vm,
  next <- memory3_next, srv <- memory3_srv, robbed <- memory3_robbed,
  stopped <- memory3_stopped
memory3Vars == <<memory3_mem, memory3_vm, memory3_next, memory3_srv, memory3_robbed,
  memory3_stopped>>
memory3Off ==
  /\ memory3_mem = 0 /\ memory3_vm = 0 /\ memory3_next = 0 /\ memory3_srv = 0
  /\ memory3_robbed = 0 /\ memory3_stopped = 0

Memory1 == INSTANCE Mk1Memory WITH
  PAGE <- 16, FREE_BASE <- 80, XSAVE_AREA_SIZE <- 8, Map <- Memory1Map, LEVELS <- 3,
  ENTRIES <- 2, UserPages <- {1, 2}, DynStart <- 4, DynNum <- 2, THREAD_NUM_MAX <- 3,
  Chunks <- Memory1Chunks, Sizes <- {12}, HeapMax <- 1, IoMax <- 1, used <- memory1_used,
  tables <- memory1_tables, groups <- memory1_groups, threads <- memory1_threads,
  linked <- memory1_linked, chunks <- memory1_chunks, held <- memory1_held,
  locked <- memory1_locked, ios <- memory1_ios
memory1Vars == <<memory1_used, memory1_tables, memory1_groups, memory1_threads,
  memory1_linked, memory1_chunks, memory1_held, memory1_locked, memory1_ios>>
memory1Off ==
  /\ memory1_used = 0 /\ memory1_tables = 0 /\ memory1_groups = 0
  /\ memory1_threads = 0 /\ memory1_linked = 0 /\ memory1_chunks = 0
  /\ memory1_held = 0 /\ memory1_locked = 0 /\ memory1_ios = 0

Storage == INSTANCE Mk1Storage WITH
  Sector <- 2, SPC <- 2, Layout <- StorageLayout, ClusterNum <- 4, Words <- StorageWords,
  Types <- {12, 16}, Root <- StorageRoot, Dirs <- StorageDirs, NameMax <- 3, ExtMax <- 1,
  Paths <- StoragePaths, Offsets <- {0, 4}, Sizes <- {1, 4}, FILES_MAX <- 2,
  QueueNum <- 4, type <- storage_type, files <- storage_files, desc <- storage_desc,
  req <- storage_req
storageVars == <<storage_type, storage_files, storage_desc, storage_req>>
storageOff ==
  /\ storage_type = 0 /\ storage_files = 0 /\ storage_desc = 0 /\ storage_req = 0

Net == INSTANCE Mk1Net WITH
  MBUF_DATA_SIZE <- 3, IpLen <- 2, UdpLen <- 1, SocketsMax <- 2, Ports <- {0, 7, 8},
  Payloads <- NetPayloads, Truncations <- {0, 1, 7}, sockets <- net_sockets,
  last <- net_last
netVars == <<net_sockets, net_last>>
netOff ==
  /\ net_sockets = 0 /\ net_last = 0

Heap == INSTANCE Heaps WITH
  Header <- 2, Regions <- HeapRegions, LargeSize <- 4, Sizes <- {0, 2, 4, 5},
  Pages <- 11, HeapMax <- 22, which <- heap_which, lists <- heap_lists,
  used <- heap_used, bottom <- heap_bottom, held <- heap_held
heapVars == <<heap_which, heap_lists, heap_used, heap_bottom, heap_held>>
heapOff ==
  /\ heap_which = 0 /\ heap_lists = 0 /\ heap_used = 0 /\ heap_bottom = 0
  /\ heap_held = 0

vars == <<part, ipcVars, objectsVars, pagingVars, zonesVars, pciVars, debugVars,
          ipc3Vars, allIpc3Vars, memory3Vars, memory1Vars, storageVars, netVars, heapVars>>

-----------------------------------------------------------------------------
(* The variables of the programs that do not run are 0. *)
Init ==
  \/ /\ part = "ipc" /\ Ipc!Init /\ objectsOff /\ pagingOff /\ zonesOff /\ pciOff
     /\ debugOff /\ ipc3Off /\ allIpc3Off /\ memory3Off /\ memory1Off /\ storageOff
     /\ netOff /\ heapOff
  \/ /\ part = "objects" /\ Objects!Init /\ ipcOff /\ pagingOff /\ zonesOff /\ pciOff
     /\ debugOff /\ ipc3Off /\ allIpc3Off /\ memory3Off /\ memory1Off /\ storageOff
     /\ netOff /\ heapOff
  \/ /\ part = "paging" /\ Paging!Init /\ ipcOff /\ objectsOff /\ zonesOff /\ pciOff
     /\ debugOff /\ ipc3Off /\ allIpc3Off /\ memory3Off /\ memory1Off /\ storageOff
     /\ netOff /\ heapOff
  \/ /\ part = "zones" /\ Zones!Init /\ ipcOff /\ objectsOff /\ pagingOff /\ pciOff
     /\ debugOff /\ ipc3Off /\ allIpc3Off /\ memory3Off /\ memory1Off /\ storageOff
     /\ netOff /\ heapOff
  \/ /\ part = "pci" /\ Pci!Init /\ ipcOff /\ objectsOff /\ pagingOff /\ zonesOff
     /\ debugOff /\ ipc3Off /\ allIpc3Off /\ memory3Off /\ memory1Off /\ storageOff
     /\ netOff /\ heapOff
  \/ /\ part = "debug" /\ Debug!Init /\ ipcOff /\ objectsOff /\ pagingOff /\ zonesOff
     /\ pciOff /\ ipc3Off /\ allIpc3Off /\ memory3Off /\ memory1Off /\ storageOff
     /\ netOff /\ heapOff
  \/ /\ part = "ipc3" /\ Ipc3!Init /\ ipcOff /\ objectsOff /\ pagingOff /\ zonesOff
     /\ pciOff /\ debugOff /\ allIpc3Off /\ memory3Off /\ memory1Off /\ storageOff
     /\ netOff /\ heapOff
  \/ /\ part = "allIpc3" /\ AllIpc3!Init /\ ipcOff /\ objectsOff /\ pagingOff
     /\ zonesOff /\ pciOff /\ debugOff /\ ipc3Off /\ memory3Off /\ memory1Off
     /\ storageOff /\ netOff /\ heapOff
  \/ /\ part = "memory3" /\ Memory3!Init /\ ipcOff /\ objectsOff /\ pagingOff
     /\ zonesOff /\ pciOff /\ debugOff /\ ipc3Off /\ allIpc3Off /\ memory1Off
     /\ storageOff /\ netOff /\ heapOff
  \/ /\ part = "memory1" /\ Memory1!Init /\ ipcOff /\ objectsOff /\ pagingOff
     /\ zonesOff /\ pciOff /\ debugOff /\ ipc3Off /\ allIpc3Off /\ memory3Off
     /\ storageOff /\ netOff /\ heapOff
  \/ /\ part = "storage" /\ Storage!Init /\ ipcOff /\ objectsOff /\ pagingOff
     /\ zonesOff /\ pciOff /\ debugOff /\ ipc3Off /\ allIpc3Off /\ memory3Off
     /\ memory1Off /\ netOff /\ heapOff
  \/ /\ part = "net" /\ Net!Init /\ ipcOff /\ objectsOff /\ pagingOff /\ zonesOff
     /\ pciOff /\ debugOff /\ ipc3Off /\ allIpc3Off /\ memory3Off /\ memory1Off
     /\ storageOff /\ heapOff
  \/ /\ part = "heap" /\ Heap!Init /\ ipcOff /\ objectsOff /\ pagingOff /\ zonesOff
     /\ pciOff /\ debugOff /\ ipc3Off /\ allIpc3Off /\ memory3Off /\ memory1Off
     /\ storageOff /\ netOff

IpcNext ==
  /\ part = "ipc" /\ Ipc!Next
  /\ UNCHANGED <<part, objectsVars, pagingVars, zonesVars, pciVars, debugVars, ipc3Vars,
                allIpc3Vars, memory3Vars, memory1Vars, storageVars, netVars, heapVars>>
ObjectsNext ==
  /\ part = "objects" /\ Objects!Next
  /\ UNCHANGED <<part, ipcVars, pagingVars, zonesVars, pciVars, debugVars, ipc3Vars,
                allIpc3Vars, memory3Vars, memory1Vars, storageVars, netVars, heapVars>>
PagingNext ==
  /\ part = "paging" /\ Paging!Next
  /\ UNCHANGED <<part, ipcVars, objectsVars, zonesVars, pciVars, debugVars, ipc3Vars,
                allIpc3Vars, memory3Vars, memory1Vars, storageVars, netVars, heapVars>>
ZonesNext ==
  /\ part = "zones" /\ Zones!Next
  /\ UNCHANGED <<part, ipcVars, objectsVars, pagingVars, pciVars, debugVars, ipc3Vars,
                allIpc3Vars, memory3Vars, memory1Vars, storageVars, netVars, heapVars>>
PciNext ==
  /\ part = "pci" /\ Pci!Next
  /\ UNCHANGED <<part, ipcVars, objectsVars, pagingVars, zonesVars, debugVars, ipc3Vars,
                allIpc3Vars, memory3Vars, memory1Vars, storageVars, netVars, heapVars>>
DebugNext ==
  /\ part = "debug" /\ Debug!Next
  /\ UNCHANGED <<part, ipcVars, objectsVars, pagingVars, zonesVars, pciVars, ipc3Vars,
                allIpc3Vars, memory3Vars, memory1Vars, storageVars, netVars, heapVars>>
Ipc3Next ==
  /\ part = "ipc3" /\ Ipc3!Next
  /\ UNCHANGED <<part, ipcVars, objectsVars, pagingVars, zonesVars, pciVars, debugVars,
                allIpc3Vars, memory3Vars, memory1Vars, storageVars, netVars, heapVars>>
AllIpc3Next ==
  /\ part = "allIpc3" /\ AllIpc3!Next
  /\ UNCHANGED <<part, ipcVars, objectsVars, pagingVars, zonesVars, pciVars, debugVars,
                ipc3Vars, memory3Vars, memory1Vars, storageVars, netVars, heapVars>>
Memory3Next ==
  /\ part = "memory3" /\ Memory3!Next
  /\ UNCHANGED <<part, ipcVars, objectsVars, pagingVars, zonesVars, pciVars, debugVars,
                ipc3Vars, allIpc3Vars, memory1Vars, storageVars, netVars, heapVars>>
Memory1Next ==
  /\ part = "memory1" /\ Memory1!Next
  /\ UNCHANGED <<part, ipcVars, objectsVars, pagingVars, zonesVars, pciVars, debugVars,
                ipc3Vars, allIpc3Vars, memory3Vars, storageVars, netVars, heapVars>>
StorageNext ==
  /\ part = "storage" /\ Storage!Next
  /\ UNCHANGED <<part, ipcVars, objectsVars, pagingVars, zonesVars, pciVars, debugVars,
                ipc3Vars, allIpc3Vars, memory3Vars, memory1Vars, netVars, heapVars>>
NetNext ==
  /\ part = "net" /\ Net!Next
  /\ UNCHANGED <<part, ipcVars, objectsVars, pagingVars, zonesVars, pciVars, debugVars,
                ipc3Vars, allIpc3Vars, memory3Vars, memory1Vars, storageVars, heapVars>>
HeapNext ==
  /\ part = "heap" /\ Heap!Next
  /\ UNCHANGED <<part, ipcVars, objectsVars, pagingVars, zonesVars, pciVars, debugVars,
                ipc3Vars, allIpc3Vars, memory3Vars, memory1Vars, storageVars, netVars>>

Next == IpcNext \/ ObjectsNext \/ PagingNext \/ ZonesNext \/ PciNext \/ DebugNext \/
        Ipc3Next \/ AllIpc3Next \/ Memory3Next \/ Memory1Next \/ StorageNext \/ NetNext \/
        HeapNext

Spec == Init /\ [][Next]_vars

-----------------------------------------------------------------------------

(* The queues of Resea's and microkernel3's channels and schedulers say    *)
(* what the threads do: a runnable thread is queued once, a receiver that  *)
(* is named waits for this channel, a blocked sender is in the queue, a    *)
(* sleeper can be found; in microkernel3 send and receive meet, except by  *)
(* a thread that was resumed once too often.                               *)
IpcExact ==
  /\ part = "ipc" =>
       Ipc!TypeOK /\ Ipc!RunqueueExact /\ Ipc!ReceiverWaits /\ Ipc!QueueExact
         /\ Ipc!Findable /\ Ipc!TakenSleeps
  /\ part = "ipc3" => Ipc3!RunqueueExact /\ Ipc3!RendezvousSafe
  /\ part = "allIpc3" => AllIpc3!RunqueueExact /\ AllIpc3!RendezvousSafe

(* Drivers hand on what the device has: PCI configuration space and a      *)
(* virtio queue, the clusters of a file, the payload of a datagram.        *)
DevicesRight ==
  /\ part = "pci" => Pci!PciRight
  /\ part = "storage" => Storage!ReadsRight
  /\ part = "net" => Net!DatagramsRight

(* Resea: what a call does not name it leaves alone: a message stays in a  *)
(* receiver's buffer until the receiver has run, and a payload of one page *)
(* changes no other page.                                                  *)
OthersUntouched ==
  [][/\ part = "ipc" => Ipc!KeepsMessages
     /\ part = "paging" => Paging!KeepsOthers]_vars
=============================================================================
