------------------------------ MODULE Telemata ------------------------------
(***************************************************************************)
(* The ESP32 firmware of iot-paas2 on a sakura.io modem                    *)
(* (iot-paas2/esp32/src: main.cpp, telemata.cpp, sakuraio.cpp, api.cpp).   *)
(* FreeRTOS tasks of the same priority share the I2C bus without a lock: a *)
(* command is a request, a delay, and the reading of whatever response the *)
(* modem holds then.  A payload is cut into channels; a channel of a       *)
(* payload from the server is an item of it (a command, an update), and one*)
(* of a report is the state or a character of the log.                     *)
(***************************************************************************)
EXTENDS Integers, Sequences, SequencesExt

CONSTANTS
  CHANNELS_MAX,   \* channels of one payload
  CHANNEL_COMMIT, \* the channel that ends a payload from the server
  LogSize,        \* log_allocated_length
  Messages,       \* the server's payloads, sequences of items
  LogMax,         \* characters the app prints, for TLC
  RxMax,          \* channels the modem holds, for TLC
  SendMax,        \* reports, for TLC
  FaultMax        \* commands that fail, for TLC

VARIABLES
  pc,         \* where each task is: main, send, recv
  connected,  \* SakuraioTelemataClient::connected
  log,        \* log_buffer, log_length, log_index
  first_send,
  report,     \* the send task's payload, and how much of it is enqueued
  slot,       \* the i of receive_forever
  payload,    \* its buffer, kept from one payload to the next
  torn,       \* the payload being received is not known to be whole: no channel 0 yet,
              \* the queue ran dry since, or a response was lost
  coming,     \* the channels of a server's payload the modem has yet to receive
  rx,         \* the modem's queue of channels received
  tx,         \* the modem's queue of channels to send
  response,   \* the response the modem holds, and of which task's command
  handled,    \* the payload receive_payload is called with, and if it was torn
  reports,    \* what the modem sent to the server
  faults,     \* commands that failed, of the send and of the receive task
  disturbed   \* a response was overwritten or taken by the wrong task

vars == <<pc, connected, log, first_send, report, slot, payload, torn, coming, rx, tx, response,
          handled, reports, faults, disturbed>>
modem == <<coming, rx, tx, reports>>
sender == <<log, first_send, report>>
receiver == <<slot, payload, torn, handled>>

NoItem == "none"
NoReport == [chunks |-> <<>>, next |-> 0]
NoPayload == [items |-> <<>>, torn |-> TRUE]

Init ==
  /\ pc = [main |-> "status", send |-> "send", recv |-> "flush"]
  /\ connected = FALSE /\ first_send = TRUE
  /\ log = [buffer |-> [i \in 0..(LogSize - 1) |-> 0], length |-> 0, index |-> 0, printed |-> 0]
  /\ report = NoReport
  /\ slot = 0 /\ payload = [i \in 0..(CHANNELS_MAX - 1) |-> NoItem]
  /\ coming = <<>> /\ rx = <<>> /\ tx = <<>> /\ reports = <<>>
  /\ torn = TRUE /\ handled = NoPayload
  /\ response = [task |-> "none", value |-> 0, item |-> NoItem]
  /\ faults = [send |-> 0, recv |-> 0]
  /\ disturbed = FALSE

-----------------------------------------------------------------------------
(* send_command.  The request overwrites a response not read yet; a task   *)
(* then reads a response that is not its own: the model goes on up to      *)
(* there, where anything may follow.  A command fails if the modem refuses *)
(* it, which leaves its queues as they are, or if its response comes with a*)
(* wrong parity, after the modem has done it.                              *)
FAILED == -1
Request(task, value, item) ==
  /\ response' = [task |-> task, value |-> value, item |-> item]
  /\ disturbed' = (response.task # "none")
RequestFails(task, value) ==
  /\ faults.send + faults.recv < FaultMax
  /\ faults' = [faults EXCEPT ![task] = @ + 1]
  /\ Request(task, value, NoItem)
Goto(task, from, to) == pc[task] = from /\ pc' = [pc EXCEPT ![task] = to]
Response(task) ==
  /\ response' = [response EXCEPT !.task = "none"]
  /\ disturbed' = (response.task # task)

-----------------------------------------------------------------------------
(* connect(), in app_main: the tasks already run.  If the command fails the*)
(* status is a byte nobody wrote, ready or not.                            *)
ConnectStatus ==
  /\ Goto("main", "status", "connecting")
  /\ \E ready \in {0, 1} : Request("main", ready, NoItem)
  /\ UNCHANGED <<connected, sender, receiver, modem, faults>>
Connect ==
  /\ pc["main"] = "connecting"
  /\ Response("main")
  /\ connected' = (response.value = 1)
  /\ pc' = [pc EXCEPT !["main"] = IF response.value = 1 THEN "quality" ELSE "status"]
  /\ UNCHANGED <<sender, receiver, modem, faults>>
(* get_signal_quality and get_date_time, for the log. *)
GetQuality ==
  /\ \/ Goto("main", "quality", "got quality")
     \/ Goto("main", "date", "got date")
  /\ Request("main", 0, NoItem)
  /\ UNCHANGED <<connected, sender, receiver, modem, faults>>
GotQuality ==
  /\ \/ Goto("main", "got quality", "date")
     \/ Goto("main", "got date", "app")
  /\ Response("main")
  /\ UNCHANGED <<connected, sender, receiver, modem, faults>>

(* append_log: a ring, though a report takes it from the buffer's start.   *)
AppendLog(l, ch) ==
  [buffer |-> [l.buffer EXCEPT ![l.index] = ch],
   length |-> IF l.length = LogSize THEN LogSize ELSE l.length + 1,
   index |-> (l.index + 1) % LogSize,
   printed |-> l.printed + 1]
(* The app's print, println and publish. *)
AppPrints ==
  /\ pc["main"] = "app" /\ log.printed < LogMax
  /\ log' = AppendLog(log, log.printed + 1)
  /\ UNCHANGED <<pc, connected, first_send, report, receiver, modem, response, faults, disturbed>>

-----------------------------------------------------------------------------
(* TelemataPayloadBuilder: the state, then the log. *)
BuildPayload ==
  <<IF first_send THEN "booted" ELSE "running">> \o [i \in 1..log.length |-> log.buffer[i - 1]]

(* TelemataClient::send: the log is emptied and the first report is over,  *)
(* whatever send_payload does with the payload.                            *)
SendTask ==
  /\ Goto("send", "send", "payload")
  /\ Len(reports) < SendMax
  /\ report' = [chunks |-> BuildPayload, next |-> 0]
  /\ log' = [log EXCEPT !.length = 0, !.index = 0]
  /\ first_send' = FALSE
  /\ UNCHANGED <<connected, receiver, modem, response, faults, disturbed>>
(* send_payload. *)
SendPayload ==
  /\ \/ /\ ~connected \/ Len(report.chunks) > CHANNELS_MAX
        /\ Goto("send", "payload", "send") /\ report' = NoReport
     \/ /\ connected /\ Len(report.chunks) <= CHANNELS_MAX
        /\ Goto("send", "payload", "enqueue") /\ UNCHANGED report
  /\ UNCHANGED <<connected, log, first_send, receiver, modem, response, faults, disturbed>>
(* enqueue_tx for each channel, then flush_tx_queue; results are ignored.  *)
EnqueueTx ==
  /\ Goto("send", "enqueue", "enqueued")
  /\ \/ /\ Request("send", 0, NoItem) /\ UNCHANGED faults
        /\ tx' = Append(tx, report.chunks[report.next + 1])
     \/ RequestFails("send", FAILED) /\ UNCHANGED tx
  /\ report' = [report EXCEPT !.next = @ + 1]
  /\ UNCHANGED <<connected, log, first_send, receiver, coming, rx, reports>>
Enqueued ==
  /\ Goto("send", "enqueued", IF report.next < Len(report.chunks) THEN "enqueue" ELSE "flush")
  /\ Response("send")
  /\ UNCHANGED <<connected, sender, receiver, modem, faults>>
FlushTxQueue ==
  /\ Goto("send", "flush", "flushed")
  /\ \/ /\ Request("send", 0, NoItem) /\ UNCHANGED faults
        /\ reports' = Append(reports, tx) /\ tx' = <<>>
     \/ RequestFails("send", FAILED) /\ UNCHANGED <<reports, tx>>
  /\ UNCHANGED <<connected, sender, receiver, coming, rx>>
Flushed ==
  /\ Goto("send", "flushed", "send")
  /\ Response("send")
  /\ report' = NoReport
  /\ UNCHANGED <<connected, log, first_send, receiver, modem, faults>>

-----------------------------------------------------------------------------
(* The modem receives a server's payload channel by channel.               *)
ServerSends(m) ==
  /\ coming = <<>>
  /\ coming' = [i \in 1..Len(m) |-> <<i - 1, m[i]>>] \o <<<<CHANNEL_COMMIT, NoItem>>>>
  /\ UNCHANGED <<pc, connected, sender, receiver, rx, tx, reports, response, faults, disturbed>>
ModemReceives ==
  /\ coming # <<>> /\ Len(rx) < RxMax
  /\ rx' = Append(rx, Head(coming)) /\ coming' = Tail(coming)
  /\ UNCHANGED <<pc, connected, sender, receiver, tx, reports, response, faults, disturbed>>

(* receive_forever. *)
FlushRxQueue ==
  /\ Goto("recv", "flush", "flushing")
  /\ \/ Request("recv", 0, NoItem) /\ rx' = <<>> /\ UNCHANGED faults
     \/ RequestFails("recv", FAILED) /\ UNCHANGED rx
  /\ UNCHANGED <<connected, sender, receiver, coming, tx, reports>>
FlushedRx ==
  /\ Goto("recv", "flushing", "start")
  /\ Response("recv")
  /\ UNCHANGED <<connected, sender, receiver, modem, faults>>
StartPayload ==
  /\ Goto("recv", "start", "length") /\ connected
  /\ slot' = 0 /\ handled' = NoPayload
  /\ UNCHANGED <<connected, sender, payload, torn, modem, response, faults, disturbed>>
(* get_rx_queue_length: if the command fails, what it returns is a byte     *)
(* nobody wrote.                                                           *)
RxLength ==
  /\ Goto("recv", "length", "queued")
  /\ \/ Request("recv", Len(rx), NoItem) /\ UNCHANGED faults
     \/ \E garbage \in {0, 1} : RequestFails("recv", garbage)
  /\ UNCHANGED <<connected, sender, receiver, modem>>
(* The for of receive_forever ends after the slot of CHANNEL_COMMIT.       *)
AfterSlot(i) == IF i + 1 > CHANNELS_MAX THEN "start" ELSE "length"
(* "continue" counts a channel even if none came.                          *)
RxQueued ==
  /\ pc["recv"] = "queued"
  /\ Response("recv")
  /\ IF response.value = 0
     THEN /\ pc' = [pc EXCEPT !["recv"] = AfterSlot(slot)]
          /\ slot' = slot + 1 /\ torn' = TRUE
     ELSE pc' = [pc EXCEPT !["recv"] = "dequeue"] /\ UNCHANGED <<slot, torn>>
  /\ UNCHANGED <<connected, sender, payload, handled, modem, faults>>
(* dequeue_rx: a failure with a wrong parity loses the channel, one of the *)
(* modem does not.                                                         *)
DequeueRx ==
  /\ Goto("recv", "dequeue", "dequeued")
  /\ \/ /\ rx # <<>> /\ rx' = Tail(rx)
        /\ \/ Request("recv", rx[1][1], rx[1][2]) /\ UNCHANGED <<torn, faults>>
           \/ RequestFails("recv", FAILED) /\ torn' = TRUE
     \/ RequestFails("recv", FAILED) /\ UNCHANGED <<rx, torn>>
     \/ rx = <<>> /\ Request("recv", FAILED, NoItem) /\ UNCHANGED <<rx, torn, faults>>
  /\ UNCHANGED <<connected, sender, slot, payload, handled, coming, tx, reports>>

(* The items of a payload up to an update, which ends it.                  *)
Items(p) ==
  IF Contains(p, "update")
  THEN SubSeq(p, 1, CHOOSE k \in 1..Len(p) : p[k] = "update" /\ ~Contains(SubSeq(p, 1, k - 1), "update"))
  ELSE p
ReceivePayload(p) == handled' = [items |-> Items(p), torn |-> torn] /\ torn' = TRUE

Retry == pc' = [pc EXCEPT !["recv"] = "length"] /\ UNCHANGED receiver
Committed ==
  /\ response.value = CHANNEL_COMMIT
  /\ ReceivePayload([k \in 1..slot |-> payload[k - 1]])
  /\ pc' = [pc EXCEPT !["recv"] = "start"] /\ UNCHANGED <<slot, payload>>
Stored(i) ==
  /\ payload' = [payload EXCEPT ![i] = response.item] /\ slot' = i + 1
  /\ torn' = IF i = 0 THEN FALSE ELSE torn
  /\ pc' = [pc EXCEPT !["recv"] = AfterSlot(i)] /\ UNCHANGED handled

\* Mutant: a channel is stored in the slot's place without being compared.
DequeuedUnchecked ==
  /\ pc["recv"] = "dequeued"
  /\ Response("recv")
  /\ \/ response.value = FAILED /\ Retry
     \/ Committed
     \/ /\ response.value \notin {FAILED, CHANNEL_COMMIT}
        /\ LET i == IF response.value = 0 THEN 0 ELSE slot
           IN i < CHANNELS_MAX /\ Stored(i)
  /\ UNCHANGED <<connected, sender, modem, faults>>
Dequeued ==
  /\ pc["recv"] = "dequeued"
  /\ Response("recv")
  /\ \/ response.value = FAILED /\ Retry
     \/ Committed
     \/ /\ response.value \notin {FAILED, CHANNEL_COMMIT}
        /\ LET i == IF response.value = 0 THEN 0 ELSE slot
           IN IF response.value = i THEN Stored(i) ELSE Retry
  /\ UNCHANGED <<connected, sender, modem, faults>>

Step ==
  \/ ConnectStatus \/ Connect \/ GetQuality \/ GotQuality \/ AppPrints
  \/ SendTask \/ SendPayload \/ EnqueueTx \/ Enqueued \/ FlushTxQueue \/ Flushed
  \/ FlushRxQueue \/ FlushedRx \/ StartPayload \/ RxLength \/ RxQueued \/ DequeueRx \/ Dequeued
  \/ ModemReceives \/ \E m \in Messages : ServerSends(m)
Next == ~disturbed /\ Step

Spec == Init /\ [][Next]_vars

-----------------------------------------------------------------------------
(* As long as every response reached the task that asked for it: a payload *)
(* whose channels were all queued in time is handled exactly as the server *)
(* sent it, whatever failed before.  receive_forever counts a slot each    *)
(* time it finds the queue empty and keeps its buffer, so a payload that   *)
(* comes more slowly is handed on with the slots it missed as an earlier   *)
(* payload left them; but no item is ever taken for one of another place   *)
(* (a payload that is torn lists only what some payload has there, or      *)
(* nothing).  And a report is sent as it was built unless a command of the *)
(* send task failed, which it ignores.                                     *)
PayloadsWhole ==
  ~disturbed =>
    /\ handled.torn \/ handled.items \in {Items(m) : m \in Messages}
    /\ \A k \in 1..Len(handled.items) :
         \/ handled.items[k] = NoItem
         \/ \E m \in Messages : k <= Len(m) /\ m[k] = handled.items[k]
    /\ pc["send"] = "flushed" /\ faults.send = 0 => Last(reports) = report.chunks
=============================================================================
