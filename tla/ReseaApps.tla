----------------------------- MODULE ReseaApps -----------------------------
(***************************************************************************)
(* Resea: programs and their pages.  memmgr spawns the start-up servers of *)
(* the initfs and fills their pages (servers/memmgr); appmgr launches the  *)
(* applications the shell asks for, fills their pages through memmgr's     *)
(* file system, and answers the shell's join when an application exits     *)
(* (servers/appmgr, apps/shell, apps/hello).  Both are servers with one    *)
(* thread: a handler, with the calls it makes, is one step.  A failed      *)
(* assertion or TRY_OR_PANIC ends its server.  Sizes are in units, PAGE    *)
(* units to a page; a unit of a file is named by its offset plus one, and  *)
(* 0 is a unit nothing was copied to.                                      *)
(***************************************************************************)
EXTENDS Naturals, Sequences, FiniteSets

CONSTANTS
  PAGE,
  Files,        \* the initfs: path -> [elf, len, phdrs: <<[vaddr, offset, filesz, memsz]>>]
  Startups,     \* the paths under startups/
  Commands,     \* what is typed at the shell
  FD_TABLE_MAX, FILES_MAX, PROCESSES_MAX, JOINS_MAX

VARIABLES
  fd_table,     \* memmgr: the paths of the open files
  files,        \* appmgr: the descriptors of the application files
  processes,    \* appmgr: slot -> [pid, fd], pid 0 when it is free
  joins,        \* appmgr: slot -> [using, target]
  procs,        \* the processes, by pid: [path, server, state, pages]
  shell,        \* the shell: [at, path, child], the program it was told and its pid
  early,        \* an application exited before it was joined
  dead          \* servers that panicked

vars == <<fd_table, files, processes, joins, procs, shell, early, dead>>

-----------------------------------------------------------------------------
(* memmgr.                                                                 *)

Smaller(a, b) == IF a < b THEN a ELSE b

SegmentsOf(path) == {Files[path].phdrs[i] : i \in DOMAIN Files[path].phdrs}

\* Segments that hold an address, the first of them.
Holding(phdrs, addr) ==
  {i \in DOMAIN phdrs : phdrs[i].vaddr <= addr /\ addr < phdrs[i].vaddr + phdrs[i].memsz}
First(S) == CHOOSE i \in S : \A j \in S : i <= j

\* What copying len units from an offset of a file leaves in a page.
Copied(from, len) == [k \in 0..(PAGE - 1) |-> IF k < len THEN from + k + 1 ELSE 0]

\* Mutant: the segment's offset in the file is forgotten.
MemmgrFillNoOffset(path, addr) ==
  LET S == Holding(Files[path].phdrs, addr)
      p == Files[path].phdrs[First(S)]
  IN IF S = {} THEN Copied(0, 0) ELSE Copied(addr - p.vaddr, PAGE)

\* memmgr's handle_pager_fill; the file size minus an offset past it wraps.
MemmgrFill(path, addr) ==
  LET f == Files[path]
      fileoff(i) == f.phdrs[i].offset + (addr - f.phdrs[i].vaddr)
      S == {i \in Holding(f.phdrs, addr) : fileoff(i) < f.len}
      p == f.phdrs[First(S)]
      offset == addr - p.vaddr
      left == IF offset <= p.filesz THEN p.filesz - offset ELSE PAGE
  IN IF S = {} THEN Copied(0, 0)
     ELSE Copied(fileoff(First(S)), Smaller(Smaller(PAGE, f.len - fileoff(First(S))), left))

\* handle_fs_open: a free entry, or 0 when the file is not there.
FsOpen(path) == IF path \in DOMAIN Files THEN Len(fd_table) + 1 ELSE 0

\* handle_fs_read asserts that the offset is in the file.
FsReadOk(fd, offset) == offset < Files[fd_table[fd]].len
FsRead(fd, offset) == Copied(offset, Smaller(PAGE, Files[fd_table[fd]].len - offset))

NewProcess(path, server, state) ==
  [path |-> path, server |-> server, state |-> state, pages |-> [a \in {} |-> <<>>]]

\* elf_parse refuses a file without the header and its magic.
ElfParse(path) == Files[path].elf

\* launch_startup_servers and spawn_process: a file that is no ELF is skipped.
Spawned == SelectSeq(Startups, ElfParse)

-----------------------------------------------------------------------------
(* appmgr.                                                                 *)

Free(table) == {i \in DOMAIN table : table[i].pid = 0}

\* create_app: the last free slot is taken.
CreateApp(path, fd) ==
  LET slot == CHOOSE i \in Free(processes) : \A j \in Free(processes) : i >= j
  IN /\ procs' = Append(procs, NewProcess(path, "appmgr", "created"))
     /\ processes' = [processes EXCEPT ![slot] = [pid |-> Len(procs) + 1, fd |-> fd]]

Panic(server) == dead' = dead \cup {server}

\* open_app_file fails an assertion when every file is in use, and answers
\* an error for a path that is not there.
HandleCreateApp ==
  /\ shell.at = "create" /\ dead = {}
  /\ LET path == shell.path
         fd == FsOpen(path)
     IN CASE Len(files) = FILES_MAX \/ Len(fd_table) = FD_TABLE_MAX ->
               /\ Panic(IF Len(files) = FILES_MAX THEN "appmgr" ELSE "memmgr")
               /\ UNCHANGED <<fd_table, files, processes, procs, shell>>
          [] fd = 0 -> /\ shell' = [shell EXCEPT !.at = "prompt"]
                       /\ UNCHANGED <<fd_table, files, processes, procs, dead>>
          [] OTHER ->
               /\ fd_table' = Append(fd_table, path)
               /\ files' = Append(files, fd)
               /\ IF ElfParse(path) /\ Free(processes) # {}
                    THEN /\ CreateApp(path, fd)
                         /\ shell' = [shell EXCEPT !.at = "start", !.child = Len(procs) + 1]
                         /\ UNCHANGED dead
                    ELSE Panic("appmgr") /\ UNCHANGED <<processes, procs, shell>>
  /\ UNCHANGED <<joins, early>>

\* handle_api_start_app and start_app.
HandleStartApp ==
  /\ shell.at = "start" /\ dead = {}
  /\ procs' = [procs EXCEPT ![shell.child].state = "running"]
  /\ shell' = [shell EXCEPT !.at = "join"]
  /\ UNCHANGED <<fd_table, files, processes, joins, early, dead>>

Unused == {i \in DOMAIN joins : ~joins[i].using}

\* Mutant: the join does not say whom it waits for.
HandleJoinAppNoTarget ==
  /\ shell.at = "join" /\ dead = {}
  /\ joins' = [joins EXCEPT ![First(Unused)].using = TRUE]
  /\ shell' = [shell EXCEPT !.at = "wait"]
  /\ UNCHANGED <<fd_table, files, processes, procs, early, dead>>

\* handle_api_join_app: answered later.
HandleJoinApp ==
  /\ shell.at = "join" /\ dead = {}
  /\ joins' = [joins EXCEPT ![First(Unused)] = [using |-> TRUE, target |-> shell.child]]
  /\ shell' = [shell EXCEPT !.at = "wait"]
  /\ UNCHANGED <<fd_table, files, processes, procs, early, dead>>

\* handle_api_exit_app asserts that somebody joined.
HandleExitApp(pid) ==
  LET J == {i \in DOMAIN joins : joins[i].using /\ joins[i].target = pid}
  IN /\ procs[pid].server = "appmgr" /\ procs[pid].path # "shell"
     /\ procs[pid].state = "running" /\ dead = {}
     /\ procs' = [procs EXCEPT ![pid].state = "exited"]
     /\ IF J = {}
          THEN /\ Panic("appmgr")
               /\ early' = (early \/ shell.at = "join")
               /\ UNCHANGED <<joins, shell>>
          ELSE /\ joins' = [joins EXCEPT ![First(J)].using = FALSE]
               /\ shell' = [shell EXCEPT !.at = "prompt"]
               /\ UNCHANGED <<early, dead>>
     /\ UNCHANGED <<fd_table, files, processes>>

\* appmgr's handle_pager_fill: a page of the file, whatever part of it is the
\* segment's, or a zeroed page.
AppmgrFill(pid, addr) ==
  LET slot == CHOOSE i \in DOMAIN processes : processes[i].pid = pid
      phdrs == Files[procs[pid].path].phdrs
      S == Holding(phdrs, addr)
      fileoff == phdrs[First(S)].offset + (addr - phdrs[First(S)].vaddr)
      fd == processes[slot].fd
  IN IF S = {} THEN procs' = [procs EXCEPT ![pid].pages =
                                [a \in DOMAIN @ \cup {addr} |-> IF a = addr THEN Copied(0, 0) ELSE @[a]]]
                    /\ UNCHANGED dead
     ELSE IF ~FsReadOk(fd, fileoff) THEN Panic("memmgr") /\ UNCHANGED procs
     ELSE /\ procs' = [procs EXCEPT ![pid].pages =
                         [a \in DOMAIN @ \cup {addr} |->
                            IF a = addr THEN FsRead(fd, fileoff) ELSE @[a]]]
          /\ UNCHANGED dead

-----------------------------------------------------------------------------
(* Processes.                                                              *)

\* The pages a program touches.
Addresses(path) ==
  UNION {{a \in p.vaddr..(p.vaddr + p.memsz - 1) : a % PAGE = 0} : p \in SegmentsOf(path)}

PageFault(pid, addr) ==
  /\ procs[pid].state = "running"
  /\ addr \notin DOMAIN procs[pid].pages
  /\ IF procs[pid].server = "memmgr"
       THEN /\ "memmgr" \notin dead
            /\ procs' = [procs EXCEPT ![pid].pages =
                 [a \in DOMAIN @ \cup {addr} |->
                    IF a = addr THEN MemmgrFill(procs[pid].path, addr) ELSE @[a]]]
            /\ UNCHANGED dead
       ELSE dead = {} /\ AppmgrFill(pid, addr)
  /\ UNCHANGED <<fd_table, files, processes, joins, shell, early>>

\* The shell: a command line is typed.
Prompt(path) ==
  /\ shell.at = "prompt"
  /\ shell' = [shell EXCEPT !.at = "create", !.path = path]
  /\ UNCHANGED <<fd_table, files, processes, joins, procs, early, dead>>

\* memmgr's main and appmgr's: the start-up servers run, and the shell.
Init ==
  /\ fd_table = <<"shell">>
  /\ files = <<>>
  /\ processes = [i \in 1..PROCESSES_MAX |->
                    [pid |-> IF i = PROCESSES_MAX THEN Len(Spawned) + 1 ELSE 0, fd |-> 1]]
  /\ joins = [i \in 1..JOINS_MAX |-> [using |-> FALSE, target |-> 0]]
  /\ procs = [i \in 1..Len(Spawned) |-> NewProcess(Spawned[i], "memmgr", "running")]
             \o <<NewProcess("shell", "appmgr", "running")>>
  /\ shell = [at |-> "prompt", path |-> "shell", child |-> 0]
  /\ early = FALSE
  /\ dead = {}

Shell == HandleCreateApp \/ HandleStartApp \/ HandleJoinApp
Exits == \E pid \in DOMAIN procs : HandleExitApp(pid)

Next ==
  \/ \E path \in Commands : Prompt(path)
  \/ Shell
  \/ Exits
  \/ \E pid \in DOMAIN procs : \E addr \in Addresses(procs[pid].path) : PageFault(pid, addr)

\* The kernel runs every thread; an application gets to its end.
Fairness == WF_vars(Shell) /\ WF_vars(Exits)

Spec == Init /\ [][Next]_vars /\ Fairness

-----------------------------------------------------------------------------
(* Properties.                                                             *)

\* A page that is filled (handle_pager_fill of memmgr and of appmgr, through
\* handle_fs_open and handle_fs_read) holds, in the part of a segment that
\* comes from the file, the units of this program's file at their place.
PagesRight ==
  \A pid \in DOMAIN procs : \A a \in DOMAIN procs[pid].pages : \A k \in 0..(PAGE - 1) :
    LET f == Files[procs[pid].path]
    IN \A i \in DOMAIN f.phdrs :
         LET p == f.phdrs[i]
         IN p.vaddr <= a + k /\ a + k < p.vaddr + p.filesz
              => procs[pid].pages[a][k] = p.offset + (a + k - p.vaddr) + 1

\* The shell's join is answered when the application exits (handle_api_join_app,
\* handle_api_exit_app), unless the application exited before it was joined,
\* or memmgr failed on a page past the end of the file.
Joined == shell.at = "prompt" \/ early \/ "memmgr" \in dead
JoinsReturn == shell.at = "join" ~> Joined
=============================================================================
