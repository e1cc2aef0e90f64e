-------------------------------- MODULE Smms --------------------------------
(***************************************************************************)
(* The ESP32 supervisor of iot-paas1 (iot-paas1/esp32/supervisor): one task*)
(* reports the log and the version of the app to the server and handles    *)
(* its answer, another runs the app, which prints into the same log        *)
(* without a lock.  Payloads are byte sequences: a header, then messages of*)
(* a type, a length of variable size and data.  Base is the 0x80 of those  *)
(* lengths, smaller here so that short payloads need two digits; types, the*)
(* header and characters stay below it as they do in the code.             *)
(***************************************************************************)
EXTENDS Naturals, Integers, Sequences, SequencesExt

CONSTANTS
  Base,        \* 0x80
  LogSize,     \* log_allocated_length
  DeviceId,    \* the characters of device_id
  Letter,      \* a character of a config or a command
  Holdings,    \* what the server may hold for the device: a pending update of the OS,
               \* and configs and commands, as the lengths of their key and value;
               \* and how often it is deployed to and how much the app prints, for TLC
  LossMax      \* requests lost, for TLC

VARIABLES
  pc,          \* where the supervisor task is
  connected,   \* the flag of wifi.cpp
  log,         \* log_buffer, log_index, log_length
  task,        \* where append_log is in the app's task, and what it has loaded
  payload,     \* what send() has built
  rest,        \* what receive_payload has not looked at: p, remaining
  version,     \* current_app_version
  running,     \* the version of the app the engine runs, 0 for none
  printed,     \* characters the app printed; a character is its number
  deployed,    \* the server: its latest deployment,
  known,       \* the version it last heard of,
  received,    \* the log it keeps,
  held,        \* and what it holds for the device
  raced,       \* append_log and the end of send() overlapped, or the log was full
  losses,      \* requests that failed
  failed       \* the last app to be downloaded did not arrive or was refused

vars == <<pc, connected, log, task, payload, rest, version, running, printed, deployed,
          known, received, held, raced, losses, failed>>
server == <<deployed, known, received, held>>
app == <<task, running, printed>>

DEVICE_ID_MSG == 3
LOG_MSG == 4
COMMAND_MSG == 5
OSUPDATE_MSG == 11
REPORT_MSG == 8
CONFIG_MSG == 9
UPDATE_MSG == 10
HEADER == 16    \* SMMS_VERSION << 4

-----------------------------------------------------------------------------
(* Lengths.                                                                *)

RECURSIVE FillVariableLength(_, _)
FillVariableLength(i, length) ==
  IF i >= length THEN <<>>
  ELSE <<(length % Base) + (IF length \div Base > 0 THEN Base ELSE 0)>>
       \o FillVariableLength(i + 1, length \div Base)

\* The length at an offset and the bytes it takes, 0 bytes when it does not end.
ParseVariableLength(bytes, offset) ==
  LET parse[i \in offset..(Len(bytes) + 1)] ==
        IF i > Len(bytes) THEN [length |-> 0, size |-> 0]
        ELSE IF bytes[i] < Base THEN [length |-> bytes[i], size |-> i - offset + 1]
        ELSE LET more == parse[i + 1]
             IN [more EXCEPT !.length = (bytes[i] % Base) + Base * @]
  IN parse[offset]

Append_(type, data) == <<type>> \o FillVariableLength(0, Len(data)) \o data

Be32(v) == <<0, 0, 0, v>>
FromBe32(bytes) == bytes[4]

-----------------------------------------------------------------------------
(* The server (server/app/services/smms_service.rb).                       *)

GenerateVariableLength(n) ==
  IF n < Base THEN <<n>> ELSE <<(n % Base) + Base, n \div Base>>
GenerateMessage(type, data) == <<type>> \o GenerateVariableLength(Len(data)) \o data
Letters(n) == [i \in 1..n |-> Letter]

\* payload_for
Answer(version_) ==
  LET download(type) == GenerateMessage(type, <<2>> \o Be32(deployed))
      update == IF deployed # 0 /\ version_ # deployed THEN download(UPDATE_MSG) ELSE <<>>
      osUpdate == IF held.os THEN download(OSUPDATE_MSG) ELSE <<>>
      pair(type, c) == GenerateMessage(type, GenerateVariableLength(c.key) \o Letters(c.key)
                                             \o Letters(c.value))
      pairs(type, cs) == FoldLeft(LAMBDA b, c : b \o pair(type, c), <<>>, cs)
      body == update \o osUpdate \o pairs(CONFIG_MSG, held.configs)
                     \o pairs(COMMAND_MSG, held.commands)
  IN <<HEADER>> \o GenerateVariableLength(Len(body)) \o body

\* parse_payload: the last message of each type, <<>> and Nil for those that
\* are not there.  Data past the end is cut off; the payload is rejected when
\* a type or a length is past the end, or the report begins there.
Nil == -1
ParsePayload(bytes) ==
  LET header == ParseVariableLength(bytes, 2)
      end == 2 + header.size + header.length
      none == [ok |-> TRUE, id |-> <<>>, log |-> <<>>, version |-> Nil]
      bad == [none EXCEPT !.ok = FALSE]
      parse[o \in 1..end] ==
        LET l == ParseVariableLength(bytes, o + 1)
            start == o + 1 + l.size
            next == start + l.length
            data == SubSeq(bytes, start, IF next > Len(bytes) THEN Len(bytes) ELSE next - 1)
            later == IF next >= end THEN none ELSE parse[next]
        IN CASE o >= Len(bytes) \/ l.size = 0 -> bad
             [] bytes[o] = DEVICE_ID_MSG /\ later.id = <<>> -> [later EXCEPT !.id = data]
             [] bytes[o] = LOG_MSG /\ later.log = <<>> -> [later EXCEPT !.log = data]
             [] bytes[o] = REPORT_MSG /\ start > Len(bytes) + 1 -> bad
             [] bytes[o] = REPORT_MSG /\ Len(data) >= 6 /\ later.version = Nil
                  /\ data[1] = 0 /\ data[2] = 1 ->
                  [later EXCEPT !.version = FromBe32(SubSeq(data, 3, 6))]
             [] OTHER -> later
      messages == parse[2 + header.size]
  IN IF header.size = 0 THEN bad ELSE [messages EXCEPT !.ok = @ /\ messages.id = DeviceId]

Deploy ==
  /\ deployed < held.deploys
  /\ deployed' = deployed + 1
  /\ UNCHANGED <<pc, connected, log, app, payload, rest, version, known, received, held,
                 raced, losses, failed>>

-----------------------------------------------------------------------------
(* The interval task: the app prints.                                      *)

Emptying == pc \in {"index", "length"}

\* The builtin print, a character at a time, and append_log in the steps in
\* which it loads and stores; __loop exists once an app runs.
PrintBuiltin ==
  /\ task.at = "idle" /\ running # 0 /\ printed < held.prints
  /\ printed' = printed + 1
  /\ log' = [log EXCEPT !.buffer[log.index + 1] = printed']
  /\ task' = [task EXCEPT !.at = "length"]
  /\ raced' = (raced \/ Emptying \/ log.length = LogSize)

LoadLength ==
  /\ task.at = "length"
  /\ task' = [at |-> "length+", loaded |-> log.length]
  /\ UNCHANGED <<log, printed, raced>>

StoreLength ==
  /\ task.at = "length+"
  /\ log' = [log EXCEPT !.length = task.loaded + (IF task.loaded = LogSize THEN 0 ELSE 1)]
  /\ task' = [at |-> "index", loaded |-> 0]
  /\ UNCHANGED <<printed, raced>>

LoadIndex ==
  /\ task.at = "index"
  /\ task' = [at |-> "index+", loaded |-> log.index]
  /\ UNCHANGED <<log, printed, raced>>

StoreIndex ==
  /\ task.at = "index+"
  /\ log' = [log EXCEPT !.index = task.loaded + 1]
  /\ task' = [at |-> "wrap", loaded |-> 0]
  /\ UNCHANGED <<printed, raced>>

WrapIndexLate ==
  /\ task.at = "wrap"
  /\ log' = [log EXCEPT !.index = IF @ > LogSize THEN 0 ELSE @]
  /\ task' = [task EXCEPT !.at = "idle"]
  /\ UNCHANGED <<printed, raced>>

WrapIndex ==
  /\ task.at = "wrap"
  /\ log' = [log EXCEPT !.index = IF @ = LogSize THEN 0 ELSE @]
  /\ task' = [task EXCEPT !.at = "idle"]
  /\ UNCHANGED <<printed, raced>>

AppendLog == LoadLength \/ StoreLength \/ LoadIndex \/ StoreIndex \/ WrapIndex

IntervalTask ==
  /\ PrintBuiltin \/ AppendLog
  /\ UNCHANGED <<pc, connected, payload, rest, version, running, losses, failed, server>>

-----------------------------------------------------------------------------
(* The supervisor task.                                                    *)

ConnectedToWifi ==
  /\ connected' = TRUE
  /\ UNCHANGED <<pc, log, app, payload, rest, version, server, raced, losses, failed>>

\* The constructor waits for the network.
Connect ==
  /\ pc = "wifi"
  /\ connected
  /\ pc' = "send"
  /\ UNCHANGED <<connected, log, app, payload, rest, version, server, raced, losses, failed>>

\* send, until the log is emptied.
Send ==
  /\ pc = "send"
  /\ payload' = Append_(DEVICE_ID_MSG, DeviceId)
                \o (IF log.length > 0 THEN Append_(LOG_MSG, SubSeq(log.buffer, 1, log.length))
                    ELSE <<>>)
  /\ pc' = IF log.length > 0 THEN "index" ELSE "report"
  /\ raced' = (raced \/ (log.length > 0 /\ task.at # "idle"))
  /\ UNCHANGED <<connected, log, app, rest, version, server, losses, failed>>


ResetIndex ==
  /\ pc = "index"
  /\ log' = [log EXCEPT !.index = 0]
  /\ pc' = "length"
  /\ UNCHANGED <<connected, app, payload, rest, version, server, raced, losses, failed>>

ResetLength ==
  /\ pc = "length"
  /\ log' = [log EXCEPT !.length = 0]
  /\ pc' = "report"
  /\ UNCHANGED <<connected, app, payload, rest, version, server, raced, losses, failed>>

Report ==
  /\ pc = "report"
  /\ LET body == payload \o Append_(REPORT_MSG, <<0, 1>> \o Be32(version))
     IN payload' = <<HEADER>> \o FillVariableLength(0, Len(body)) \o body
  /\ pc' = "post"
  /\ UNCHANGED <<connected, log, app, rest, version, server, raced, losses, failed>>

\* WiFiSmmsClient::send_payload: the server may be out of reach, reject the
\* payload, or answer; the answer may be lost.  Commands are answered once.
SendPayload ==
  /\ pc = "post"
  /\ \E m \in {ParsePayload(payload)} :
        \/ /\ m.ok => losses < LossMax
           /\ losses' = losses + (IF m.ok THEN 1 ELSE 0)
           /\ pc' = "send"
           /\ UNCHANGED <<rest, server>>
        \/ /\ m.ok
           /\ known' = IF m.version = Nil THEN known ELSE m.version
           /\ received' = received \o m.log
           /\ held' = [held EXCEPT !.commands = <<>>]
           /\ \/ losses < LossMax /\ losses' = losses + 1 /\ pc' = "send" /\ UNCHANGED rest
              \/ pc' = "receive" /\ rest' = Answer(known') /\ UNCHANGED losses
           /\ UNCHANGED deployed
  /\ UNCHANGED <<connected, log, app, payload, version, raced, failed>>

Drop(bytes, n) == SubSeq(bytes, n + 1, Len(bytes))

\* receive_payload looks for the length at the header byte, and takes one byte for it.
ReceivePayload ==
  /\ pc = "receive"
  /\ LET l == ParseVariableLength(rest, 1)
     IN IF Len(rest) < 2 \/ l.size = 0 THEN pc' = "send" /\ rest' = <<>>
        ELSE pc' = "parse" /\ rest' = Drop(rest, 1 + l.size)
  /\ UNCHANGED <<connected, log, app, payload, version, server, raced, losses, failed>>

\* PARSE_KEY_VALUE_MSG, when it does not skip the message: it writes the end
\* of the key at the length of the message, past the key, which may break the
\* heap, and it copies a value of a negative size when the key is long.
KeyValueSkipped(p, len) == ParseVariableLength(p, 1).size + len > Len(p)
KeyValueCrashes(p, len) ==
  LET key == ParseVariableLength(p, 1)
  IN {TRUE} \cup (IF key.size + key.length > len THEN {} ELSE {FALSE})

\* from_be32 reads past the end of a short message.
VersionsAt(p) == IF Len(p) >= 5 THEN {FromBe32(Tail(p))} ELSE 0..held.deploys

\* A length is looked for at the type byte, so a message is as long as its
\* type says; one byte is taken for the length that follows.
ParseMessage ==
  /\ pc = "parse"
  /\ LET l == ParseVariableLength(rest, 1)
         p == Drop(rest, 1 + l.size)
         isPair == rest[1] \in {CONFIG_MSG, COMMAND_MSG} /\ ~KeyValueSkipped(p, l.length)
         isUpdate == rest[1] = UPDATE_MSG /\ l.length >= 5
     IN IF Len(rest) <= 2 \/ l.size = 0
          THEN pc' = "send" /\ rest' = <<>> /\ UNCHANGED version
          ELSE /\ rest' = Drop(p, l.length)
               /\ \/ /\ isPair
                     /\ \E crash \in KeyValueCrashes(p, l.length) :
                          pc' = IF crash THEN "crash" ELSE pc
                     /\ UNCHANGED version
                  \/ isUpdate /\ version' \in VersionsAt(p) /\ pc' = "download"
                  \/ ~isPair /\ ~isUpdate /\ UNCHANGED <<pc, version>>
  /\ UNCHANGED <<connected, log, app, payload, server, raced, losses, failed>>

Run == running' = version /\ failed' = FALSE
NotLaunched == failed' = TRUE /\ UNCHANGED running

\* A short or a zipped image is refused.
LaunchApp == Run \/ NotLaunched

\* download_app: the image may not arrive.
DownloadApp ==
  /\ pc = "download"
  /\ pc' = "parse"
  /\ LaunchApp \/ NotLaunched
  /\ UNCHANGED <<connected, log, task, payload, rest, version, printed, server, raced, losses>>

\* The watchdog restarts a device that crashed.
AppMain ==
  /\ pc = "crash"
  /\ pc' = "wifi"
  /\ connected' = FALSE
  /\ log' = [log EXCEPT !.index = 0, !.length = 0]
  /\ task' = [at |-> "idle", loaded |-> 0]
  /\ payload' = <<>> /\ rest' = <<>> /\ version' = 0 /\ running' = 0
  /\ UNCHANGED <<printed, server, raced, losses, failed>>

Init ==
  /\ pc = "wifi" /\ connected = FALSE
  /\ log = [buffer |-> [i \in 1..LogSize |-> 0], index |-> 0, length |-> 0]
  /\ task = [at |-> "idle", loaded |-> 0]
  /\ payload = <<>> /\ rest = <<>> /\ version = 0 /\ running = 0 /\ printed = 0
  /\ deployed = 0 /\ known = 0 /\ received = <<>> /\ held \in Holdings
  /\ raced = FALSE /\ losses = 0 /\ failed = FALSE

Supervisor ==
  \/ Connect \/ Send \/ ResetIndex \/ ResetLength \/ Report \/ SendPayload
  \/ ReceivePayload \/ ParseMessage \/ DownloadApp \/ AppMain

Next == Deploy \/ IntervalTask \/ ConnectedToWifi \/ Supervisor

\* FreeRTOS runs every task, and the network comes up.
Fairness ==
  /\ WF_vars(ConnectedToWifi)
  /\ WF_vars(Supervisor)

Spec == Init /\ [][Next]_vars /\ Fairness

-----------------------------------------------------------------------------
(* Properties.                                                             *)

\* The app's task and send() share the log without a lock, and yet neither
\* leaves the buffer (append_log, send), whichever loads and stores overlap.
LogInBounds == log.length <= LogSize /\ log.index <= LogSize
               /\ (task.at # "wrap" => log.index < LogSize)

\* The server's log holds the characters in the order the app printed them,
\* none of them twice, unless append_log overlapped the end of send() or
\* the log was full, in both of which the code loses or repeats characters.
LogsInOrder ==
  ~raced => \A i \in 1..(Len(received) - 1) : received[i] < received[i + 1]

\* A device ends up running the latest deployment, or has failed to download
\* just that one, which the code never tries again (send, receive_payload);
\* with configs the device may crash on every answer.
UpToDate == held.configs = <<>> => running = deployed \/ (failed /\ version = deployed)
RunsLatest == <>[]UpToDate
=============================================================================
