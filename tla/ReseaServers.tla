---------------------------- MODULE ReseaServers ----------------------------
(***************************************************************************)
(* Servers of Resea that meet at startup: memmgr (as the discovery         *)
(* server), the PS/2 driver, the GUI and the application manager, each     *)
(* with the loop of libserver.  Messages are synchronous: a send waits     *)
(* until the receiver is in its receive phase, and a call then waits for   *)
(* the reply.  memmgr asks a server for a channel with a non-blocking send *)
(* and retries later with a timer of the kernel.                           *)
(***************************************************************************)
EXTENDS Naturals, FiniteSets, Sequences

CONSTANTS
  WaiterMax,   \* WAITERS_MAX
  KeyMax,      \* key presses, for TLC
  RetryMax     \* retries that are counted, for TLC

VARIABLES
  pc,          \* server -> position in main(), "main" in the loop
  mode,        \* server -> what it does: run, send, wait or recv
  out,         \* server -> the message it sends
  servers,     \* memmgr: interface -> server that publicized it, or "none"
  waiters,     \* memmgr: slot -> waiter
  retries,     \* memmgr: of the deferred work
  timer,       \* "off", "armed" or "lost"
  timerSets,   \* how often memmgr has set the timer
  asked,       \* interface -> requests of memmgr its server has not answered
  connected,   \* client -> interfaces it got channels for, with their servers
  listeners,   \* ps2: interfaces with a listener
  keys,        \* keyboard and mouse events that wait in the device
  pressed,     \* how many there were
  failed       \* a failed assertion

vars == <<pc, mode, out, servers, waiters, retries, timer, timerSets, asked, connected,
          listeners, keys, pressed, failed>>

Clients == {"ps2", "gui", "appmgr"}
Servers == Clients \cup {"memmgr"}
Interfaces == {"kbd", "mouse", "gui"}
Slots == 1..WaiterMax
NoMsg == [op |-> "none"]
NoWaiter == [from |-> "none", interface |-> "none", server |-> "none", sent |-> FALSE]

(* The calls each main() makes before its loop, in order. *)
Ps2Main == <<[op |-> "publicize", to |-> "memmgr", interface |-> "kbd"],
             [op |-> "publicize", to |-> "memmgr", interface |-> "mouse"]>>
GuiMain == <<[op |-> "connect", to |-> "memmgr", interface |-> "kbd"],
             [op |-> "listen", to |-> "ps2", interface |-> "kbd"],
             [op |-> "connect", to |-> "memmgr", interface |-> "mouse"],
             [op |-> "listen", to |-> "ps2", interface |-> "mouse"],
             [op |-> "publicize", to |-> "memmgr", interface |-> "gui"]>>
\* appmgr connects once for itself, and once in create_app() for the shell.
AppmgrMain == <<[op |-> "connect", to |-> "memmgr", interface |-> "gui"],
                [op |-> "connect", to |-> "memmgr", interface |-> "gui"]>>
Program == [ps2 |-> Ps2Main, gui |-> GuiMain, appmgr |-> AppmgrMain]

(* main() of memmgr ends in its loop before the servers it started run. *)
Init ==
  /\ pc = [s \in Servers |-> IF s = "memmgr" THEN 0 ELSE 1]
  /\ mode = [s \in Servers |-> IF s = "memmgr" THEN "recv" ELSE "run"]
  /\ out = [s \in Servers |-> NoMsg]
  /\ servers = [i \in Interfaces |-> "none"]
  /\ waiters = [w \in Slots |-> NoWaiter]
  /\ retries = 0
  /\ timer = "off"
  /\ timerSets = 0
  /\ asked = [i \in Interfaces |-> 0]
  /\ connected = [c \in Clients |-> {}]
  /\ listeners = {}
  /\ keys = <<>>
  /\ pressed = 0
  /\ failed = FALSE

(* A client makes its next call, or enters server_mainloop. *)
Step(s) ==
  /\ mode[s] = "run"
  /\ IF pc[s] > Len(Program[s])
     THEN mode' = [mode EXCEPT ![s] = "main"] /\ UNCHANGED out
     ELSE /\ mode' = [mode EXCEPT ![s] = "send"]
          /\ out' = [out EXCEPT ![s] = Program[s][pc[s]]]
  /\ UNCHANGED <<pc, servers, waiters, retries, timer, timerSets, asked, connected,
                 listeners, keys, pressed, failed>>

-----------------------------------------------------------------------------
(* deferred_work: each interface with a server is asked once for every     *)
(* waiter that was not served yet; a server that is not receiving would    *)
(* block, and a server that was asked is no longer receiving.              *)
\* Mutant: the loop ends before the last waiter.
UnsentShort(W, S) ==
  {w \in Slots \ {WaiterMax} : W[w].from # "none" /\ ~W[w].sent /\ S[W[w].interface] # "none"}
Unsent(W, S) == {w \in Slots : W[w].from # "none" /\ ~W[w].sent /\ S[W[w].interface] # "none"}

(* The waiters that are served, given the servers R that receive: for each *)
(* server the first in the order of interfaces and slots.                  *)
InterfaceOrder(i) == CASE i = "kbd" -> 1 [] i = "mouse" -> 2 [] i = "gui" -> 3
Before(W, v, w) ==
  \/ InterfaceOrder(W[v].interface) < InterfaceOrder(W[w].interface)
  \/ W[v].interface = W[w].interface /\ v < w
Served(W, S, R) ==
  {w \in Unsent(W, S) :
     /\ S[W[w].interface] \in R
     /\ \A v \in Unsent(W, S) : S[W[v].interface] = S[W[w].interface] => ~Before(W, v, w)}

(* The end of the loop of libserver for memmgr, with servers S, waiters W, *)
(* modes M and requests A after the handler: the deferred work runs unless *)
(* a retry is due later.  The channel of the timer reaches memmgr only the *)
(* first time it is passed to the kernel.                                  *)
Deferred(S, W, M, A, timeout) ==
  LET due == retries = 0 \/ timeout
      ok == IF due THEN Served(W, S, {s \in Servers : M[s] = "recv"}) ELSE {}
      again == due /\ Unsent(W, S) # ok
      request(s) == {W[w].interface : w \in {v \in ok : S[W[v].interface] = s}}
  IN
  /\ waiters' = [w \in Slots |->
       IF w \in ok THEN [W[w] EXCEPT !.sent = TRUE, !.server = W[w].interface] ELSE W[w]]
  /\ asked' = [i \in Interfaces |-> A[i] + Cardinality({w \in ok : W[w].interface = i})]
  /\ mode' = [s \in Servers |-> IF request(s) # {} THEN "send" ELSE M[s]]
  /\ out' = [s \in Servers |->
       IF request(s) # {}
       THEN [op |-> "connect_reply", to |-> "memmgr",
             interface |-> CHOOSE i \in request(s) : TRUE]
       ELSE IF M[s] = "send" THEN out[s] ELSE NoMsg]
  /\ retries' = IF again THEN (IF retries < RetryMax THEN retries + 1 ELSE retries)
                ELSE IF due THEN 0 ELSE retries
  /\ timer' = IF again THEN (IF timerSets = 0 THEN "armed" ELSE "lost")
              ELSE IF due THEN "off" ELSE timer
  /\ timerSets' = IF again /\ timerSets < 2 THEN timerSets + 1 ELSE timerSets

Sends(s, op) == mode[s] = "send" /\ out[s].op = op /\ ~failed
NextCall(s) == pc' = [pc EXCEPT ![s] = @ + 1]

(* handle_discovery_publicize; a second server for an interface fails the  *)
(* assertion.                                                              *)
Publicize(s) ==
  /\ Sends(s, "publicize")
  /\ LET i == out[s].interface
         S == [servers EXCEPT ![i] = s]
     IN  /\ failed' = (servers[i] # "none")
         /\ servers' = S
         /\ Deferred(S, waiters, [mode EXCEPT ![s] = "run"], asked, FALSE)
  /\ NextCall(s)
  /\ UNCHANGED <<connected, listeners, keys, pressed>>

(* handle_discovery_connect: a free slot remembers the client, which waits *)
(* for the reply; the slot keeps the server of its last use.               *)
Connect(s) ==
  /\ Sends(s, "connect")
  /\ \E w \in Slots :
       /\ waiters[w].from = "none"
       /\ \A v \in 1..(w - 1) : waiters[v].from # "none"
       /\ Deferred(servers,
            [waiters EXCEPT ![w] = [@ EXCEPT !.from = s, !.sent = FALSE,
                                             !.interface = out[s].interface]],
            [mode EXCEPT ![s] = "wait"], asked, FALSE)
  /\ UNCHANGED <<pc, servers, connected, listeners, keys, pressed, failed>>

(* handle_server_connect_reply: the first waiter that was sent to the      *)
(* channel of this interface gets the new channel.                         *)
ConnectReply(s) ==
  LET i == out[s].interface
      mine == {w \in Slots : waiters[w].from # "none" /\ waiters[w].server = i}
      w == CHOOSE v \in mine : \A u \in mine : v <= u
      c == waiters[w].from
  IN
  /\ Sends(s, "connect_reply")
  /\ \/ /\ mine = {}
        /\ failed' = TRUE
        /\ UNCHANGED <<pc, waiters, connected, mode, out, asked, retries, timer, timerSets>>
     \/ /\ mine # {}
        /\ connected' = [connected EXCEPT ![c] = @ \cup {<<waiters[w].interface, i>>}]
        /\ NextCall(c)
        /\ Deferred(servers, [waiters EXCEPT ![w].from = "none"],
             [mode EXCEPT ![s] = "main", ![c] = "run"], [asked EXCEPT ![i] = @ - 1], FALSE)
        /\ UNCHANGED failed
  /\ UNCHANGED <<servers, listeners, keys, pressed>>

(* The kernel's timer notifies memmgr. *)
Timeout ==
  /\ timer = "armed"
  /\ Deferred(servers, waiters, mode, asked, TRUE)
  /\ UNCHANGED <<pc, servers, connected, listeners, keys, pressed, failed>>

-----------------------------------------------------------------------------
(* The loop of libserver: a server that has replied receives again. *)
Receive(s) ==
  /\ mode[s] = "main"
  /\ mode' = [mode EXCEPT ![s] = "recv"]
  /\ UNCHANGED <<pc, out, servers, waiters, retries, timer, timerSets, asked, connected,
                 listeners, keys, pressed, failed>>

(* handle_keyboard_listen and handle_mouse_listen of the PS/2 driver *)
Listen(s) ==
  /\ Sends(s, "listen")
  /\ mode["ps2"] = "recv"
  /\ listeners' = listeners \cup {out[s].interface}
  /\ mode' = [mode EXCEPT ![s] = "run", !["ps2"] = "main"]
  /\ out' = [out EXCEPT ![s] = NoMsg]
  /\ NextCall(s)
  /\ UNCHANGED <<servers, waiters, retries, timer, timerSets, asked, connected, keys,
                 pressed, failed>>

(* A key is pressed or the mouse is moved. *)
Input(kind) ==
  /\ pressed < KeyMax
  /\ pressed' = pressed + 1
  /\ keys' = Append(keys, kind)
  /\ UNCHANGED <<pc, mode, out, servers, waiters, retries, timer, timerSets, asked,
                 connected, listeners, failed>>

(* handle_notification: while the device has data, one event is read, and  *)
(* passed to its listener: a key with a call, a mouse event with a send.   *)
ReadInput ==
  /\ mode["ps2"] = "irq" \/ (mode["ps2"] = "recv" /\ keys # <<>>)
  /\ IF keys = <<>>
     THEN mode' = [mode EXCEPT !["ps2"] = "main"] /\ UNCHANGED <<out, keys>>
     ELSE /\ keys' = Tail(keys)
          /\ IF Head(keys) \in listeners
             THEN /\ mode' = [mode EXCEPT !["ps2"] = "send"]
                  /\ out' = [out EXCEPT !["ps2"] = [op |-> "event", to |-> "gui",
                                                    interface |-> Head(keys)]]
             ELSE mode' = [mode EXCEPT !["ps2"] = "irq"] /\ UNCHANGED out
  /\ UNCHANGED <<pc, servers, waiters, retries, timer, timerSets, asked, connected,
                 listeners, pressed, failed>>

(* handle_keyinput_event and handle_mouse_event of the GUI *)
Event ==
  /\ Sends("ps2", "event")
  /\ mode["gui"] = "recv"
  /\ mode' = [mode EXCEPT !["ps2"] = "irq", !["gui"] = "main"]
  /\ out' = [out EXCEPT !["ps2"] = NoMsg]
  /\ UNCHANGED <<pc, servers, waiters, retries, timer, timerSets, asked, connected,
                 listeners, keys, pressed, failed>>

Next ==
  \/ \E s \in Clients :
       Step(s) \/ Receive(s) \/ Publicize(s) \/ Connect(s) \/ ConnectReply(s) \/ Listen(s)
  \/ Timeout \/ ReadInput \/ Event
  \/ \E kind \in {"kbd", "mouse"} : Input(kind)

(* Every server that can go on does: the kernel schedules runnable threads *)
(* in turn, and a timer that was set fires.  Input is not fair.            *)
Fairness ==
  /\ \A s \in Clients :
       WF_vars(Step(s) \/ Receive(s) \/ Publicize(s) \/ Connect(s) \/ ConnectReply(s)
                 \/ Listen(s))
  /\ WF_vars(Timeout)
  /\ WF_vars(ReadInput \/ Event)

Spec == Init /\ [][Next]_vars /\ Fairness

-----------------------------------------------------------------------------
(* memmgr's assertions hold: an interface is publicized once, and for each *)
(* answer of a server there is a waiter that was sent to it.               *)
AnswersExpected ==
  /\ ~failed
  /\ \A i \in Interfaces :
       asked[i] <= Cardinality({w \in Slots : waiters[w].from # "none" /\ waiters[w].server = i})

(* A client that asked for an interface is connected with the server of    *)
(* that interface, although memmgr matches answers with waiters by the     *)
(* channel only.                                                           *)
RightServer == \A c \in Clients : \A p \in connected[c] : p[1] = p[2]

(* Startup completes, the application manager in its loop, unless input    *)
(* came before the GUI was in its loop or memmgr needed its timer twice:   *)
(* those are the only ways in which the servers wait for each other        *)
(* forever.                                                                *)
Undisturbed == (pc["gui"] <= Len(Program["gui"]) => pressed = 0) /\ timerSets < 2
StartedUp == mode["appmgr"] = "recv" /\ mode["gui"] = "recv"
StartupCompletes == ([]Undisturbed) => <>StartedUp
=============================================================================
