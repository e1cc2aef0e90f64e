---------------------------- MODULE MCServices -----------------------------
(***************************************************************************)
(* Programs that serve others, each with a promise to answer: the handle   *)
(* table of FTL, the servers and the apps of Resea, the servers of         *)
(* microkernel1 and microkernel2, the updates of makestack and of          *)
(* iot-paas1, http-server, and the network stack of myos.  They have       *)
(* nothing to do with each other and are checked in one run: `part` says   *)
(* which one runs.                                                         *)
(***************************************************************************)
EXTENDS Naturals, Sequences, TLC

CONSTANT NULL

VARIABLE part   \* which of the programs runs

VARIABLES handles_handles, handles_next_id, handles_call, handles_error
VARIABLES servers_pc, servers_mode, servers_out, servers_servers, servers_waiters,
          servers_retries, servers_timer, servers_timerSets, servers_asked,
          servers_connected, servers_listeners, servers_keys, servers_pressed,
          servers_failed
VARIABLES apps_fd_table, apps_files, apps_processes, apps_joins, apps_procs, apps_shell,
          apps_early, apps_dead
VARIABLES mk1_scripts, mk1_current, mk1_next, mk1_pc, mk1_servers, mk1_chans,
          mk1_memory_ch, mk1_lock, mk1_pages, mk1_unlocked
VARIABLES mk2_chans, mk2_thr, mk2_current, mk2_entries, mk2_timers, mk2_listeners,
          mk2_next_timeout
VARIABLES ota_version, ota_current_state, ota_downloaded_size, ota_next_version,
          ota_image, ota_reply_pong, ota_latest, ota_post, ota_booted, ota_stale,
          ota_losses, ota_faults
VARIABLES http_req, http_up, http_conn, http_pieces, http_sent, http_child, http_out,
          http_broken, http_unread, http_fails
VARIABLES iot_pc, iot_connected, iot_log, iot_task, iot_payload, iot_rest, iot_version,
          iot_running, iot_printed, iot_deployed, iot_known, iot_received, iot_held,
          iot_raced, iot_losses, iot_failed
VARIABLES myos_mem, myos_curr, myos_bnry, myos_irq, myos_handler, myos_buf, myos_net,
          myos_conn, myos_wire, myos_sent, myos_client, myos_arps, myos_retries,
          myos_faults

(* One client asks for the file; the other does so too, with an ETag, in   *)
(* two pieces, or for a path that is too long.                             *)
HttpClients == {"c", "d"}
Plain == [path |-> "file", etag |-> FALSE, num |-> 1]
HttpReqs == {("c" :> r) @@ ("d" :> Plain) : r \in
               {Plain, [Plain EXCEPT !.etag = TRUE], [Plain EXCEPT !.num = 2],
                [Plain EXCEPT !.path = "long"]}}

(* A program header of an app; the files of the initial file system. *)
Phdr(vaddr, offset, filesz, memsz) ==
  [vaddr |-> vaddr, offset |-> offset, filesz |-> filesz, memsz |-> memsz]
Elf(len, phdrs) == [elf |-> TRUE, len |-> len, phdrs |-> phdrs]
AppFiles ==
  ("gui" :> Elf(7, <<Phdr(2, 2, 3, 6), Phdr(8, 5, 2, 2)>>))
    @@ ("text" :> [elf |-> FALSE, len |-> 2, phdrs |-> <<>>])
    @@ ("shell" :> Elf(4, <<Phdr(2, 1, 3, 3)>>))
    @@ ("hello" :> Elf(5, <<Phdr(2, 2, 3, 4)>>))
    @@ ("bss" :> Elf(4, <<Phdr(2, 2, 2, 4)>>))

(* What two applications of microkernel1 do as they start: a file system   *)
(* and the driver it needs, or a server and its client.                    *)
Do(op, interface) == [op |-> op, interface |-> interface]
Open == Do("open", "")
Malloc == Do("malloc", "")
Serve == Do("serve", "")
Mk1Systems ==
  {<<<<Malloc, Do("connect", "storage"), Malloc, Do("call", "storage"), Open,
       Do("register", "fs"), Serve>>,
     <<Open, Do("handler", ""), Do("direct", ""), Do("register", "storage"), Serve>>>>,
   <<<<Malloc, Do("connect", "fs"), Do("call", "fs"), Open, Serve>>,
     <<Malloc, Open, Do("register", "fs"), Malloc, Serve>>>>}

(* Nothing, a config with a short key or value or with long ones, a        *)
(* command, and a command that makes the answer long.                      *)
Pair(key, value) == <<[key |-> key, value |-> value]>>
Hold(os, configs, commands, deploys, prints) ==
  [os |-> os, configs |-> configs, commands |-> commands, deploys |-> deploys,
   prints |-> prints]
IotHoldings ==
  {Hold(FALSE, <<>>, <<>>, 1, 3), Hold(FALSE, Pair(9, 9), <<>>, 1, 1),
   Hold(FALSE, Pair(2, 6), <<>>, 2, 0), Hold(FALSE, <<>>, Pair(1, 5), 2, 1),
   Hold(TRUE, <<>>, Pair(1, 3), 2, 0)}

-----------------------------------------------------------------------------
Handles == INSTANCE HandleTable WITH
  NUM_HANDLES_MAX <- 7, handles <- handles_handles, next_id <- handles_next_id,
  call <- handles_call, error <- handles_error
handlesVars == <<handles_handles, handles_next_id, handles_call, handles_error>>
handlesOff ==
  /\ handles_handles = 0 /\ handles_next_id = 0 /\ handles_call = 0
  /\ handles_error = 0

Servers == INSTANCE ReseaServers WITH
  WaiterMax <- 2, KeyMax <- 2, RetryMax <- 2, pc <- servers_pc, mode <- servers_mode,
  out <- servers_out, servers <- servers_servers, waiters <- servers_waiters,
  retries <- servers_retries, timer <- servers_timer, timerSets <- servers_timerSets,
  asked <- servers_asked, connected <- servers_connected, listeners <- servers_listeners,
  keys <- servers_keys, pressed <- servers_pressed, failed <- servers_failed
serversVars == <<servers_pc, servers_mode, servers_out, servers_servers, servers_waiters,
  servers_retries, servers_timer, servers_timerSets, servers_asked, servers_connected,
  servers_listeners, servers_keys, servers_pressed, servers_failed>>
serversOff ==
  /\ servers_pc = 0 /\ servers_mode = 0 /\ servers_out = 0 /\ servers_servers = 0
  /\ servers_waiters = 0 /\ servers_retries = 0 /\ servers_timer = 0
  /\ servers_timerSets = 0 /\ servers_asked = 0 /\ servers_connected = 0
  /\ servers_listeners = 0 /\ servers_keys = 0 /\ servers_pressed = 0
  /\ servers_failed = 0

Apps == INSTANCE ReseaApps WITH
  PAGE <- 2, Files <- AppFiles, Startups <- <<"gui", "text">>,
  Commands <- {"hello", "bss"}, FD_TABLE_MAX <- 4, FILES_MAX <- 2, PROCESSES_MAX <- 3,
  JOINS_MAX <- 2, fd_table <- apps_fd_table, files <- apps_files,
  processes <- apps_processes, joins <- apps_joins, procs <- apps_procs,
  shell <- apps_shell, early <- apps_early, dead <- apps_dead
appsVars == <<apps_fd_table, apps_files, apps_processes, apps_joins, apps_procs,
  apps_shell, apps_early, apps_dead>>
appsOff ==
  /\ apps_fd_table = 0 /\ apps_files = 0 /\ apps_processes = 0 /\ apps_joins = 0
  /\ apps_procs = 0 /\ apps_shell = 0 /\ apps_early = 0 /\ apps_dead = 0

Mk1 == INSTANCE Mk1Kernel WITH
  Systems <- Mk1Systems, ThreadMax <- 2, FrameNum <- 8, scripts <- mk1_scripts,
  current <- mk1_current, next <- mk1_next, pc <- mk1_pc, servers <- mk1_servers,
  chans <- mk1_chans, memory_ch <- mk1_memory_ch, lock <- mk1_lock, pages <- mk1_pages,
  unlocked <- mk1_unlocked
mk1Vars == <<mk1_scripts, mk1_current, mk1_next, mk1_pc, mk1_servers, mk1_chans,
  mk1_memory_ch, mk1_lock, mk1_pages, mk1_unlocked>>
mk1Off ==
  /\ mk1_scripts = 0 /\ mk1_current = 0 /\ mk1_next = 0 /\ mk1_pc = 0
  /\ mk1_servers = 0 /\ mk1_chans = 0 /\ mk1_memory_ch = 0 /\ mk1_lock = 0
  /\ mk1_pages = 0 /\ mk1_unlocked = 0

Mk2 == INSTANCE Mk2Ipc WITH
  RunQueue <- <<"channel-server", "driver", "app", "writer">>, Interval <- 2,
  TagMax <- 3, chans <- mk2_chans, thr <- mk2_thr, current <- mk2_current,
  entries <- mk2_entries, timers <- mk2_timers, listeners <- mk2_listeners,
  next_timeout <- mk2_next_timeout
mk2Vars == <<mk2_chans, mk2_thr, mk2_current, mk2_entries, mk2_timers, mk2_listeners,
  mk2_next_timeout>>
mk2Off ==
  /\ mk2_chans = 0 /\ mk2_thr = 0 /\ mk2_current = 0 /\ mk2_entries = 0
  /\ mk2_timers = 0 /\ mk2_listeners = 0 /\ mk2_next_timeout = 0

Ota == INSTANCE MakestackOta WITH
  ChunkNum <- 2, VersionMax <- 3, LossMax <- 2, FaultMax <- 1, version <- ota_version,
  current_state <- ota_current_state, downloaded_size <- ota_downloaded_size,
  next_version <- ota_next_version, image <- ota_image, reply_pong <- ota_reply_pong,
  latest <- ota_latest, post <- ota_post, booted <- ota_booted, stale <- ota_stale,
  losses <- ota_losses, faults <- ota_faults
otaVars == <<ota_version, ota_current_state, ota_downloaded_size, ota_next_version,
  ota_image, ota_reply_pong, ota_latest, ota_post, ota_booted, ota_stale, ota_losses,
  ota_faults>>
otaOff ==
  /\ ota_version = 0 /\ ota_current_state = 0 /\ ota_downloaded_size = 0
  /\ ota_next_version = 0 /\ ota_image = 0 /\ ota_reply_pong = 0 /\ ota_latest = 0
  /\ ota_post = 0 /\ ota_booted = 0 /\ ota_stale = 0 /\ ota_losses = 0
  /\ ota_faults = 0

Http == INSTANCE HttpServer WITH
  Clients <- HttpClients, BUF_LEN <- 2, File <- <<1, 2>>, Paths <- {"file", "long"},
  BreakMax <- 1, FaultMax <- 1, req <- http_req, up <- http_up, conn <- http_conn,
  pieces <- http_pieces, sent <- http_sent, child <- http_child, out <- http_out,
  broken <- http_broken, unread <- http_unread, fails <- http_fails
httpVars == <<http_req, http_up, http_conn, http_pieces, http_sent, http_child, http_out,
  http_broken, http_unread, http_fails>>
httpOff ==
  /\ http_req = 0 /\ http_up = 0 /\ http_unread = 0 /\ http_conn = 0 /\ http_pieces = 0 /\ http_sent = 0
  /\ http_child = 0 /\ http_out = 0 /\ http_broken = 0 /\ http_fails = 0

Iot == INSTANCE Smms WITH
  Base <- 17, LogSize <- 2, DeviceId <- <<12, 12, 12>>, Letter <- 14, Holdings <- IotHoldings,
  LossMax <- 1, pc <- iot_pc, connected <- iot_connected,
  log <- iot_log, task <- iot_task, payload <- iot_payload, rest <- iot_rest,
  version <- iot_version, running <- iot_running, printed <- iot_printed,
  deployed <- iot_deployed, known <- iot_known, received <- iot_received,
  held <- iot_held, raced <- iot_raced, losses <- iot_losses, failed <- iot_failed
iotVars == <<iot_pc, iot_connected, iot_log, iot_task, iot_payload, iot_rest, iot_version,
  iot_running, iot_printed, iot_deployed, iot_known, iot_received, iot_held, iot_raced,
  iot_losses, iot_failed>>
iotOff ==
  /\ iot_pc = 0 /\ iot_connected = 0 /\ iot_log = 0 /\ iot_task = 0 /\ iot_payload = 0
  /\ iot_rest = 0 /\ iot_version = 0 /\ iot_running = 0 /\ iot_printed = 0
  /\ iot_deployed = 0 /\ iot_known = 0 /\ iot_received = 0 /\ iot_held = 0
  /\ iot_raced = 0 /\ iot_losses = 0 /\ iot_failed = 0

Myos == INSTANCE MyosNet WITH
  FIRST <- 1, PSTART <- 3, PSTOP <- 12, SEGMENT <- 2, Lengths <- {3, 4}, Windows <- {2},
  Sizes <- {2}, ArpMax <- 1, RetryMax <- 1, mem <- myos_mem, curr <- myos_curr,
  bnry <- myos_bnry, irq <- myos_irq, handler <- myos_handler, buf <- myos_buf,
  net <- myos_net, conn <- myos_conn, wire <- myos_wire, sent <- myos_sent,
  client <- myos_client, arps <- myos_arps, retries <- myos_retries,
  faults <- myos_faults
myosVars == <<myos_mem, myos_curr, myos_bnry, myos_irq, myos_handler, myos_buf, myos_net,
  myos_conn, myos_wire, myos_sent, myos_client, myos_arps, myos_retries, myos_faults>>
myosOff ==
  /\ myos_mem = 0 /\ myos_curr = 0 /\ myos_bnry = 0 /\ myos_irq = 0
  /\ myos_handler = 0 /\ myos_buf = 0 /\ myos_net = 0 /\ myos_conn = 0
  /\ myos_wire = 0 /\ myos_sent = 0 /\ myos_client = 0 /\ myos_arps = 0
  /\ myos_retries = 0 /\ myos_faults = 0

vars == <<part, handlesVars, serversVars, appsVars, mk1Vars, mk2Vars, otaVars, httpVars,
          iotVars, myosVars>>

-----------------------------------------------------------------------------
(* The variables of the programs that do not run are 0. *)
Init ==
  \/ /\ part = "handles" /\ Handles!Init /\ serversOff /\ appsOff /\ mk1Off /\ mk2Off
     /\ otaOff /\ httpOff /\ iotOff /\ myosOff
  \/ /\ part = "servers" /\ Servers!Init /\ handlesOff /\ appsOff /\ mk1Off /\ mk2Off
     /\ otaOff /\ httpOff /\ iotOff /\ myosOff
  \/ /\ part = "apps" /\ Apps!Init /\ handlesOff /\ serversOff /\ mk1Off /\ mk2Off
     /\ otaOff /\ httpOff /\ iotOff /\ myosOff
  \/ /\ part = "mk1" /\ Mk1!Init /\ handlesOff /\ serversOff /\ appsOff /\ mk2Off
     /\ otaOff /\ httpOff /\ iotOff /\ myosOff
  \/ /\ part = "mk2" /\ Mk2!Init /\ handlesOff /\ serversOff /\ appsOff /\ mk1Off
     /\ otaOff /\ httpOff /\ iotOff /\ myosOff
  \/ /\ part = "ota" /\ Ota!Init /\ handlesOff /\ serversOff /\ appsOff /\ mk1Off
     /\ mk2Off /\ httpOff /\ iotOff /\ myosOff
  \/ /\ part = "http" /\ Http!Init /\ http_req \in HttpReqs /\ handlesOff
     /\ serversOff /\ appsOff /\ mk1Off /\ mk2Off /\ otaOff /\ iotOff /\ myosOff
  \/ /\ part = "iot" /\ Iot!Init /\ handlesOff /\ serversOff /\ appsOff /\ mk1Off
     /\ mk2Off /\ otaOff /\ httpOff /\ myosOff
  \/ /\ part = "myos" /\ Myos!Init /\ (myos_client.win = 2 \/ myos_client.length = 4)
     /\ handlesOff /\ serversOff /\ appsOff /\ mk1Off /\ mk2Off /\ otaOff /\ httpOff
     /\ iotOff

HandlesNext ==
  /\ part = "handles" /\ Handles!Next
  /\ UNCHANGED <<part, serversVars, appsVars, mk1Vars, mk2Vars, otaVars, httpVars,
                 iotVars, myosVars>>
ServersNext ==
  /\ part = "servers" /\ Servers!Next
  /\ UNCHANGED <<part, handlesVars, appsVars, mk1Vars, mk2Vars, otaVars, httpVars,
                 iotVars, myosVars>>
AppsNext ==
  /\ part = "apps" /\ Apps!Next
  /\ UNCHANGED <<part, handlesVars, serversVars, mk1Vars, mk2Vars, otaVars, httpVars,
                 iotVars, myosVars>>
Mk1Next ==
  /\ part = "mk1" /\ Mk1!Next
  /\ UNCHANGED <<part, handlesVars, serversVars, appsVars, mk2Vars, otaVars,
                 httpVars, iotVars, myosVars>>
Mk2Next ==
  /\ part = "mk2" /\ Mk2!Next
  /\ UNCHANGED <<part, handlesVars, serversVars, appsVars, mk1Vars, otaVars,
                 httpVars, iotVars, myosVars>>
OtaNext ==
  /\ part = "ota" /\ Ota!Next
  /\ UNCHANGED <<part, handlesVars, serversVars, appsVars, mk1Vars, mk2Vars,
                 httpVars, iotVars, myosVars>>
HttpNext ==
  /\ part = "http" /\ Http!Next
  /\ UNCHANGED <<part, handlesVars, serversVars, appsVars, mk1Vars, mk2Vars, otaVars,
                 iotVars, myosVars>>
IotNext ==
  /\ part = "iot" /\ Iot!Next
  /\ UNCHANGED <<part, handlesVars, serversVars, appsVars, mk1Vars, mk2Vars, otaVars,
                 httpVars, myosVars>>
MyosNext ==
  /\ part = "myos" /\ Myos!Next
  /\ UNCHANGED <<part, handlesVars, serversVars, appsVars, mk1Vars, mk2Vars, otaVars,
                 httpVars, iotVars>>

Next == HandlesNext \/ ServersNext \/ AppsNext \/ Mk1Next \/ Mk2Next \/ OtaNext
        \/ HttpNext \/ IotNext \/ MyosNext

(* The fairness of each module, for the program that runs. *)
Spec ==
  /\ Init /\ [][Next]_vars
  /\ WF_handlesVars(part = "handles" /\ Handles!Loop)
  /\ \A s \in Servers!Clients :
       WF_serversVars(part = "servers" /\ (Servers!Step(s) \/ Servers!Receive(s)
         \/ Servers!Publicize(s) \/ Servers!Connect(s) \/ Servers!ConnectReply(s)
         \/ Servers!Listen(s)))
  /\ WF_serversVars(part = "servers" /\ Servers!Timeout)
  /\ WF_serversVars(part = "servers" /\ (Servers!ReadInput \/ Servers!Event))
  /\ WF_appsVars(part = "apps" /\ Apps!Shell)
  /\ WF_appsVars(part = "apps" /\ Apps!Exits)
  /\ WF_mk1Vars(part = "mk1" /\ Mk1!HardSwitch)
  /\ \A t \in 1 .. 2 : SF_mk1Vars(part = "mk1" /\ Mk1!Step(t))
  /\ WF_mk2Vars(part = "mk2" /\ Mk2!Run)
  /\ WF_mk2Vars(part = "mk2" /\ Mk2!Wait)
  /\ SF_mk2Vars(part = "mk2" /\ Mk2!Halt(Mk2!Timeout + 1))
  /\ WF_otaVars(part = "ota" /\ Ota!Device)
  /\ WF_httpVars(part = "http" /\ \E c \in HttpClients : Http!Accept(c) \/ Http!Fork(c))
  /\ \A c \in HttpClients :
       /\ WF_httpVars(part = "http" /\ (Http!Connect(c) \/ Http!SendPiece(c)))
       /\ WF_httpVars(part = "http" /\ Http!Child(c))
  /\ WF_iotVars(part = "iot" /\ Iot!ConnectedToWifi)
  /\ WF_iotVars(part = "iot" /\ Iot!Supervisor)
  /\ WF_myosVars(part = "myos" /\ Myos!Arrive)
  /\ WF_myosVars(part = "myos" /\ (Myos!Interrupt \/ Myos!NE2000Receive \/ Myos!NE2000Ack
                              \/ Myos!ReceiveFrame))
  /\ WF_myosVars(part = "myos" /\ (Myos!ClientConnect \/ Myos!ClientReceive
                              \/ Myos!ClientDrops))

-----------------------------------------------------------------------------
(* FTL: insert and insert_two of the handle table return if they can find  *)
(* ids, whatever ids are in use and wherever next_id was left.             *)
InsertsReturn ==
  (part = "handles" /\ (Handles!CanInsert \/ Handles!CanInsertTwo))
    ~> (part = "handles" => handles_call = "none")

(* Resea: the drivers, the GUI and appmgr, started in any order, all get   *)
(* the servers they ask memmgr for, by its deferred work and its timer,    *)
(* unless input comes before the GUI serves or the timer is needed twice.  *)
StartupCompletes ==
  [](part = "servers" => Servers!Undisturbed) => <>(part = "servers" => Servers!StartedUp)

(* Resea: a shell that waits for an app it launched gets to its next line, *)
(* unless the app had already exited or memmgr failed on one of its pages. *)
JoinsReturn ==
  (part = "apps" /\ apps_shell.at = "join") ~> (part = "apps" => Apps!Joined)

(* microkernel1: connect() spins until the server registers; round robin   *)
(* gives every start-up its turn, so all of them get to serve.             *)
StartupsFinish == <>(part = "mk1" => \A t \in Mk1!Threads : Mk1!Serving(t))

(* microkernel2: every call returns with the reply to its own request,     *)
(* though wakeups may be spurious and senders spin for the sender lock.    *)
CallsReturn ==
  \A t \in {"driver", "app"} :
    (part = "mk2" /\ Mk2!Calling(t)) ~> (part = "mk2" => Mk2!Answered(t))

(* microkernel2: every event that fires is taken by its channel's receiver,*)
(* the timers and the interrupt do not starve one another.                 *)
EventsTaken ==
  \A i \in 1 .. 3 : (part = "mk2" /\ Mk2!Fired(i)) ~> (part = "mk2" => ~Mk2!Fired(i))

(* makestack: the device comes to run the newest firmware, though newer    *)
(* versions are built during a download and posts are lost, unless an OTA  *)
(* call failed.                                                            *)
DeviceRunsLatest == <>[](part = "ota" => Ota!UpToDate)


(* http-server: a client whose request comes in one piece is answered or   *)
(* closed, however slow or broken the others are.                          *)
ClientsServed == \A c \in HttpClients : <>(part = "http" => Http!ServedOrShut(c))

(* myos: the address is obtained and the document delivered, if no frame   *)
(* arrives while another is in the card, damaged or at the end of its      *)
(* ring, and the length of the document is even.                           *)
DocumentServed ==
  [](part = "myos" => Myos!Untroubled) => <>(part = "myos" => Myos!Delivered)

(* Resea: memmgr answers each client with the server it asked for and gets *)
(* no answer that it has no waiter for, and a page of a program holds what *)
(* its file has there.                                                     *)
ServersRight ==
  /\ part = "servers" => Servers!AnswersExpected /\ Servers!RightServer
  /\ part = "apps" => Apps!PagesRight

(* microkernel1: a call gets the reply of its own handler, and the page    *)
(* that it allocated, unless a thread without the mutex shared its channel.*)
RepliesOwn == part = "mk1" => Mk1!RepliesOwn

(* What went over the network is a prefix of what was meant to: the        *)
(* document of myos, and the replies of http-server with their chunks.     *)
StreamsFaithful ==
  /\ part = "http" => Http!RepliesWhole
  /\ part = "myos" => Myos!StreamFaithful

(* makestack: what the device has flashed of an update is the image        *)
(* without gap or repetition.                                              *)
ImageExact == part = "ota" => Ota!ImageExact

=============================================================================
