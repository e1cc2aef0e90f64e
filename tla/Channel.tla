------------------------------ MODULE Channel ------------------------------
(***************************************************************************)
(* Channels of the FTL kernel (ftl1/kernel/src/channel.rs) and the channel *)
(* handles that processes hold and move through them.                      *)
(*                                                                         *)
(* A channel is a pair of ends.  A process that holds an end may send      *)
(* through it a message with data and with other ends it holds; those      *)
(* leave its handle table and travel in the peer's queue until the message *)
(* is received.  Handle ids are abstracted: an entry of a handle table is  *)
(* the end it names (module HandleTable has the ids).                      *)
(*                                                                         *)
(* Each system call is one step, since the kernel runs one handler at a    *)
(* time.  sys_process_exit closes the handles of the process one by one;   *)
(* while it does, nothing else runs.                                       *)
(***************************************************************************)
EXTENDS Naturals, Sequences, FiniteSets, Functions

CONSTANTS
  Procs,          \* processes
  Ends,           \* channel ends
  Other,          \* the other end of the pair
  Data,           \* message data
  QUEUE_LEN_MAX,  \* channel.rs QUEUE_LEN_MAX
  TableMax,       \* how many channel handles a handle table has ids for
  HandlesMax,     \* the most handles a message carries
  BootTable       \* process -> the ends startup.rs puts in its table

Readiness == {"PEER_CLOSED", "READABLE", "WRITABLE"}

ASSUME ChannelAssumption ==
  /\ Other \in [Ends -> Ends]
  /\ \A e \in Ends : Other[e] # e /\ Other[Other[e]] = e
  /\ QUEUE_LEN_MAX \in Nat \ {0}
  /\ TableMax \in Nat
  /\ HandlesMax \in Nat
  /\ BootTable \in [Procs -> SUBSET Ends]
  /\ \A p \in Procs : IsFiniteSet(BootTable[p]) /\ Cardinality(BootTable[p]) <= TableMax
  /\ \A p, q \in Procs : p # q => BootTable[p] \cap BootTable[q] = {}
  /\ \A p \in Procs : \A e \in BootTable[p] : \E q \in Procs : Other[e] \in BootTable[q]
  /\ "nobody" \notin Procs

Nobody == "nobody"

VARIABLES
  created,    \* the ends that Channel::new made
  table,      \* process -> the ends its handle table holds
  connected,  \* the ends whose peer is Some
  queue,      \* end -> received messages not read yet
  latest,     \* end -> PollEmitter.latest
  running,    \* the processes that have not exited
  exiting,    \* the process inside sys_process_exit, or Nobody
  result,     \* what the last step returned to a process, "None" if nothing
  halted      \* why the kernel stopped, if it did

vars == <<created, table, connected, queue, latest, running, exiting, result, halted>>

-----------------------------------------------------------------------------
(* State                                                                   *)

Lists(S, n) == UNION {[1..k -> S] : k \in 0..n}

Repeats(s) == \E i, j \in DOMAIN s : i # j /\ s[i] = s[j]

MessageEntry == [data : Data, handles : Lists(Ends, HandlesMax)]

Results == {"None", "Ok", "NoPeer", "OutOfMemory", "Backpressure", "Empty", "OutOfBounds"}

(* UnwrapNone: take(handle_id).unwrap() in send_from_user.                 *)
(* InsertLoop: HandleTable::insert finds no free id and never returns.     *)
Halts == {"No", "UnwrapNone", "InsertLoop"}

(* Process p can trap into the kernel; a system call on e needs a handle. *)
CanRun(p) ==
  /\ halted = "No"
  /\ exiting = Nobody
  /\ p \in running

Syscall(p, e) == CanRun(p) /\ e \in table[p]

-----------------------------------------------------------------------------
(* sys_channel_create: two connected ends in the caller's table. *)
Create(p, e) ==
  /\ CanRun(p)
  /\ e \notin created
  /\ Other[e] \notin created
  /\ Cardinality(table[p]) + 2 <= TableMax
  /\ created' = created \cup {e, Other[e]}
  /\ table' = [table EXCEPT ![p] = @ \cup {e, Other[e]}]
  /\ connected' = connected \cup {e, Other[e]}
  /\ result' = "Ok"
  /\ UNCHANGED <<queue, latest, running, exiting, halted>>

(* HandleTable::insert_two never returns when each of the id pairs (1,2),  *)
(* (3,4), ... holds a handle; half as many handles as ids can do that, and *)
(* more than TableMax - 2 always do (module HandleTable).                  *)
CreateHang(p) ==
  /\ CanRun(p)
  /\ 2 * Cardinality(table[p]) + 1 >= TableMax
  /\ halted' = "InsertLoop"
  /\ result' = "None"
  /\ UNCHANGED <<created, table, connected, queue, latest, running, exiting>>

(* send_from_user: is_movable fails for a handle that is not in the table, *)
(* and nothing happens.  The second loop takes the handles one by one; the *)
(* second take of a handle that is listed twice finds nothing to unwrap.   *)
SendRepeated(p, e, handles) ==
  /\ Syscall(p, e)
  /\ Range(handles) \subseteq table[p]
  /\ Repeats(handles)
  /\ halted' = "UnwrapNone"
  /\ result' = "None"
  /\ UNCHANGED <<created, table, connected, queue, latest, running, exiting>>

(* Mutant: the handles are copied and stay in the sender's table. *)
CopyHandles(p, e, handles) ==
  /\ Syscall(p, e)
  /\ Range(handles) \subseteq table[p]
  /\ ~Repeats(handles)
  /\ UNCHANGED table

(* The handles have left the sender's table when send() is entered. *)
TakeHandles(p, e, handles) ==
  /\ Syscall(p, e)
  /\ Range(handles) \subseteq table[p]
  /\ ~Repeats(handles)
  /\ table' = [table EXCEPT ![p] = @ \ Range(handles)]

(* Mutant: an off-by-one in the test for a full queue. *)
HasRoomForOneMore(o) == Len(queue[o]) <= QUEUE_LEN_MAX

HasRoom(o) == Len(queue[o]) < QUEUE_LEN_MAX

(* The end that gets a message is READABLE, and loses its own WRITABLE if  *)
(* the message fills its queue.                                            *)
ReadinessAfterPush(o) ==
  (latest[o] \cup {"READABLE"}) \ (IF Len(queue[o]) + 1 = QUEUE_LEN_MAX
                                  THEN {"WRITABLE"} ELSE {})

SendOk(p, e, data, handles) ==
  LET o == Other[e]
  IN  /\ TakeHandles(p, e, handles)
      /\ e \in connected
      /\ HasRoom(o)
      /\ queue' = [queue EXCEPT ![o] = Append(@, [data |-> data, handles |-> handles])]
      /\ latest' = [latest EXCEPT ![o] = ReadinessAfterPush(o)]
      /\ result' = "Ok"
      /\ UNCHANGED <<created, connected, running, exiting, halted>>

(* The early returns of send(): the moved handles are dropped with the     *)
(* message, without Handleable::close.                                     *)
SendFail(p, e, handles) ==
  /\ TakeHandles(p, e, handles)
  /\ \/ /\ e \notin connected
        /\ result' = "NoPeer"
     \/ /\ e \in connected
        /\ result' = "OutOfMemory"
     \/ /\ e \in connected
        /\ ~HasRoom(Other[e])
        /\ result' = "Backpressure"
  /\ UNCHANGED <<created, connected, queue, latest, running, exiting, halted>>

(* try_recv on an empty queue. *)
RecvNone(p, e) ==
  /\ Syscall(p, e)
  /\ queue[e] = <<>>
  /\ result' = IF e \in connected THEN "Empty" ELSE "NoPeer"
  /\ UNCHANGED <<created, table, connected, queue, latest, running, exiting, halted>>

(* Mutant: pop_back instead of pop_front. *)
PopNewest(p, e) ==
  /\ Syscall(p, e)
  /\ queue[e] # <<>>
  /\ queue' = [queue EXCEPT ![e] = SubSeq(@, 1, Len(@) - 1)]

(* try_recv's pop: READABLE goes down with the last message. *)
PopMessage(p, e) ==
  /\ Syscall(p, e)
  /\ queue[e] # <<>>
  /\ queue' = [queue EXCEPT ![e] = Tail(@)]

(* Mutant: READABLE goes down with every message. *)
ReadableOnce(e) == latest[e] \ {"READABLE"}

ReadinessAfterPop(e) ==
  latest[e] \ (IF Tail(queue[e]) = <<>> THEN {"READABLE"} ELSE {})

RecvOk(p, e) ==
  LET hs == Head(queue[e]).handles
  IN  /\ PopMessage(p, e)
      /\ Cardinality(table[p] \cup Range(hs)) <= TableMax
      /\ table' = [table EXCEPT ![p] = @ \cup Range(hs)]
      /\ latest' = [latest EXCEPT ![e] = ReadinessAfterPop(e) \cup {"WRITABLE"}]
      /\ result' = "Ok"
      /\ UNCHANGED <<created, connected, running, exiting, halted>>

(* Writing to the receiver's buffers fails after k handles were installed: *)
(* a handle is inserted before its id is written.  The message and the     *)
(* remaining handles are dropped, and WRITABLE is not raised.              *)
RecvFail(p, e, k) ==
  LET hs == Head(queue[e]).handles
  IN  /\ PopMessage(p, e)
      /\ k \in DOMAIN hs \/ (k = 0 /\ hs = <<>>)
      /\ Cardinality(table[p] \cup {hs[i] : i \in 1..k}) <= TableMax
      /\ table' = [table EXCEPT ![p] = @ \cup {hs[i] : i \in 1..k}]
      /\ latest' = [latest EXCEPT ![e] = ReadinessAfterPop(e)]
      /\ result' = "OutOfBounds"
      /\ UNCHANGED <<created, connected, running, exiting, halted>>

(* No id is left for a received handle: HandleTable::insert never returns, *)
(* after the message was popped and the first handles were installed.      *)
RecvHang(p, e) ==
  LET hs == Head(queue[e]).handles
      k  == TableMax - Cardinality(table[p])
  IN  /\ PopMessage(p, e)
      /\ k < Len(hs)
      /\ table' = [table EXCEPT ![p] = @ \cup {hs[i] : i \in 1..k}]
      /\ latest' = [latest EXCEPT ![e] = ReadinessAfterPop(e)]
      /\ halted' = "InsertLoop"
      /\ result' = "None"
      /\ UNCHANGED <<created, connected, running, exiting>>

(* Mutant: the other end keeps its peer reference. *)
DisconnectOne(e) == connected \ {e}

(* Channel::close takes the peer references of both ends. *)
Disconnect(e) == connected \ {e, Other[e]}

(* Mutant: the other end is not notified. *)
PeerNotTold(e) == latest

(* It notifies the other end, if that one was still connected. *)
PeerTold(e) ==
  IF {e, Other[e]} \subseteq connected
  THEN [latest EXCEPT ![Other[e]] = @ \cup {"PEER_CLOSED"}]
  ELSE latest

CloseEnd(p, e) ==
  /\ table' = [table EXCEPT ![p] = @ \ {e}]
  /\ connected' = Disconnect(e)
  /\ latest' = PeerTold(e)

(* sys_handle_close. *)
Close(p, e) ==
  /\ Syscall(p, e)
  /\ CloseEnd(p, e)
  /\ result' = "Ok"
  /\ UNCHANGED <<created, queue, running, exiting, halted>>

(* sys_process_exit: close_all, then the thread exits. *)
ProcessExit(p) ==
  /\ CanRun(p)
  /\ exiting' = p
  /\ result' = "None"
  /\ UNCHANGED <<created, table, connected, queue, latest, running, halted>>

CloseAll(p, e) ==
  /\ exiting = p
  /\ e \in table[p]
  /\ CloseEnd(p, e)
  /\ UNCHANGED <<created, queue, running, exiting, result, halted>>

Exited(p) ==
  /\ exiting = p
  /\ table[p] = {}
  /\ running' = running \ {p}
  /\ exiting' = Nobody
  /\ UNCHANGED <<created, table, connected, queue, latest, result, halted>>

-----------------------------------------------------------------------------
(* startup.rs connects the applications: an end of each service channel in *)
(* the client's table, the other in the server's.                          *)
Booted == UNION {BootTable[p] : p \in Procs}

Init ==
  /\ created = Booted
  /\ table = BootTable
  /\ connected = Booted
  /\ queue = [e \in Ends |-> <<>>]
  /\ latest = [e \in Ends |-> {"WRITABLE"}]
  /\ running = Procs
  /\ exiting = Nobody
  /\ result = "None"
  /\ halted = "No"

Send(p, e) ==
  \E handles \in Lists(Ends, HandlesMax) :
    \/ SendRepeated(p, e, handles)
    \/ \E data \in Data : SendOk(p, e, data, handles)
    \/ SendFail(p, e, handles)

Recv(p, e) ==
  \/ RecvNone(p, e)
  \/ RecvOk(p, e)
  \/ \E k \in 0..HandlesMax : RecvFail(p, e, k)
  \/ RecvHang(p, e)

Next ==
  \E p \in Procs :
    \/ \E e \in Ends : Create(p, e) \/ Send(p, e) \/ Recv(p, e) \/ Close(p, e) \/ CloseAll(p, e)
    \/ CreateHang(p)
    \/ ProcessExit(p)
    \/ Exited(p)

Spec == Init /\ [][Next]_vars

-----------------------------------------------------------------------------
(* Properties                                                              *)

(* Types, and no queue is ever longer than QUEUE_LEN_MAX. *)
TypeOK ==
  /\ created \subseteq Ends
  /\ table \in [Procs -> SUBSET Ends]
  /\ connected \subseteq Ends
  /\ queue \in [Ends -> Seq(MessageEntry)]
  /\ \A e \in Ends : Len(queue[e]) <= QUEUE_LEN_MAX
  /\ latest \in [Ends -> SUBSET Readiness]
  /\ running \subseteq Procs
  /\ exiting \in Procs \cup {Nobody}
  /\ result \in Results
  /\ halted \in Halts

(* The places where an end can be: a handle table, or a handle slot of a   *)
(* queued message.                                                         *)
InTable(e, p) == e \in table[p]

InMessage(e, q, i, k) ==
  /\ i \in DOMAIN queue[q]
  /\ k \in DOMAIN queue[q][i].handles
  /\ queue[q][i].handles[k] = e

Held(e) ==
  \/ \E p \in Procs : InTable(e, p)
  \/ \E q \in Ends : \E i \in DOMAIN queue[q] : e \in Range(queue[q][i].handles)

(* A channel handle is never duplicated: an end is in at most one handle   *)
(* table, or in at most one slot of one queued message, never in both, and *)
(* only if it was created.  Moving a handle is a move even when the send   *)
(* or the receive fails half way (channel.rs send_from_user, try_recv).    *)
SingleOwner ==
  \A e \in Ends :
    /\ Held(e) => e \in created
    /\ \A p, q \in Procs : InTable(e, p) /\ InTable(e, q) => p = q
    /\ \A p \in Procs, q \in Ends : \A i \in DOMAIN queue[q] :
         InTable(e, p) => e \notin Range(queue[q][i].handles)
    /\ \A q, r \in Ends : \A i \in DOMAIN queue[q], j \in DOMAIN queue[r] :
         \A k \in DOMAIN queue[q][i].handles, m \in DOMAIN queue[r][j].handles :
           InMessage(e, q, i, k) /\ InMessage(e, r, j, m) => q = r /\ i = j /\ k = m

(* READABLE is exact: a poller is told to read if and only if there is a   *)
(* message, across sends, failed receives and closed peers.                *)
ReadableExact ==
  \A e \in Ends : "READABLE" \in latest[e] <=> queue[e] # <<>>

(* An end whose own queue is full is not WRITABLE, whatever failed sends   *)
(* and receives came before (channel.rs send): the bit follows the queue   *)
(* that the end receives from.                                             *)
FullNotWritable ==
  \A e \in Ends : Len(queue[e]) = QUEUE_LEN_MAX => "WRITABLE" \notin latest[e]

(* Both ends of a pair are connected, or neither is. *)
PeersAgree == \A e \in Ends : e \in connected => Other[e] \in connected

(* Whoever holds an end whose peer was closed has been told: PEER_CLOSED   *)
(* is up, also when the end was travelling in a message at the time.       *)
ClosedPeerIsTold ==
  \A e \in Ends : Held(e) /\ e \notin connected => "PEER_CLOSED" \in latest[e]

(* Nothing is sent to an end once its peer is gone, and a disconnected end *)
(* stays so: what remains in its queue can only shrink (channel.rs close). *)
ClosedIsFinal ==
  [][\A e \in created \ connected : /\ e \notin connected'
                                    /\ Len(queue'[e]) <= Len(queue[e])]_vars

(* The channel implements the abstract pair of bounded FIFO inboxes. *)
Payloads(e) == [i \in DOMAIN queue[e] |-> queue[e][i].data]

D == INSTANCE Duplex WITH inbox <- [e \in Ends |-> Payloads(e)], open <- connected

ImplementsDuplex == D!DSpec

(* "... and retry sending the message later" (docs/learn/channel.md): a    *)
(* send refused by backpressure leaves the sender what it wanted to send.  *)
BackpressureKeepsHandles == [][result' = "Backpressure" => table' = table]_vars

(* "... listen for the peer's queue to be writable" with WRITABLE on one's *)
(* own end (docs/learn/channel.md): an end that is WRITABLE and connected  *)
(* has a peer whose queue has room.                                        *)
WritableMeansRoom ==
  \A e \in connected : "WRITABLE" \in latest[e] => HasRoom(Other[e])
=============================================================================
