---------------------------- MODULE MakestackOta ----------------------------
(***************************************************************************)
(* The update of a MakeStack device over the Wi-Fi adapter                 *)
(* (makestack/firmware: main.cpp, protocol.cpp, wifi_adapter.cpp; the      *)
(* server is src/server/server.ts).  The device posts a payload with the   *)
(* offset it wants, the reply is a chunk, the end of the file, or a        *)
(* heartbeat with the latest version.  Posts and replies get lost, the     *)
(* device loses power, and the server builds a new firmware at any time.   *)
(***************************************************************************)
EXTENDS Naturals, Sequences, TLAPS

CONSTANTS
  ChunkNum,    \* chunks of a firmware image
  VersionMax,  \* versions the server builds, for TLC
  LossMax,     \* posts and replies lost and power losses, for TLC
  FaultMax     \* OTA calls that fail, for TLC

VARIABLES
  version,         \* __cred.version, of the firmware that runs
  current_state,   \* "NORMAL" or "UPDATING"
  downloaded_size, \* in chunks
  next_version,
  image,           \* what was written through update_handle: <<version, offset>>
  reply_pong,
  latest,          \* ProtocolServer.firmwareVersion
  post,            \* the payload on its way, either way
  booted,          \* the image the boot partition was set to
  stale,           \* esp_ota_begin failed: update_handle is an older one
  losses, faults

vars == <<version, current_state, downloaded_size, next_version, image, reply_pong, latest,
          post, booted, stale, losses, faults>>
memory == <<current_state, downloaded_size, next_version, image, reply_pong, stale>>

Image(v) == [i \in 1..ChunkNum |-> <<v, i - 1>>]
Idle == [kind |-> "idle", version |-> 0, offset |-> 0]

Init ==
  /\ version = 1 /\ latest = 1 /\ booted = Image(1)
  /\ current_state = "NORMAL" /\ downloaded_size = 0 /\ next_version = 0
  /\ image = <<>> /\ reply_pong = FALSE /\ stale = FALSE
  /\ post = Idle /\ losses = 0 /\ faults = 0

-----------------------------------------------------------------------------
(* build_payload, and the POST of send_and_receive_payload. *)
SendPayload ==
  /\ post.kind = "idle"
  /\ post' = IF current_state = "UPDATING"
             THEN [kind |-> "request", version |-> next_version, offset |-> downloaded_size]
             ELSE [kind |-> "status", version |-> 0, offset |-> 0]
  /\ reply_pong' = FALSE
  /\ UNCHANGED <<version, current_state, downloaded_size, next_version, image, latest, booted,
                 stale, losses, faults>>
(* A failed POST, before or after the server has seen it. *)
PostFails ==
  /\ post.kind # "idle" /\ losses < LossMax
  /\ post' = Idle /\ losses' = losses + 1
  /\ UNCHANGED <<version, memory, latest, booted, faults>>

(* processPayload of the server: a request for another version than its    *)
(* own is answered like no request at all, by a heartbeat.                 *)
ServerReplies ==
  /\ post.kind \in {"request", "status"}
  /\ post' = CASE post.kind = "request" /\ post.version = latest /\ post.offset < ChunkNum ->
                    [kind |-> "data", version |-> latest, offset |-> post.offset]
               [] post.kind = "request" /\ post.version = latest /\ post.offset = ChunkNum ->
                    [kind |-> "eof", version |-> latest, offset |-> post.offset]
               [] OTHER -> [kind |-> "heartbeat", version |-> latest, offset |-> 0]
  /\ UNCHANGED <<version, memory, latest, booted, losses, faults>>
(* dev_command: a rebuilt firmware. *)
ServerBuilds ==
  /\ latest < VersionMax /\ latest' = latest + 1
  /\ UNCHANGED <<version, memory, post, booted, losses, faults>>

-----------------------------------------------------------------------------
Fails == faults < FaultMax /\ faults' = faults + 1
Works == UNCHANGED faults

(* update_firmware: UPDATING before the partition is asked for. *)
UpdateFirmware ==
  /\ current_state' = "UPDATING" /\ downloaded_size' = 0
  /\ \/ Works /\ image' = <<>> /\ stale' = FALSE
     \/ Fails /\ UNCHANGED image /\ stale' = TRUE
\* Mutant: a version that comes up during an update is not taken up.
ProcessHeartbeatOnce ==
  /\ post.kind = "heartbeat" /\ post' = Idle
  /\ IF version < post.version /\ next_version = 0
     THEN next_version' = post.version /\ UpdateFirmware
     ELSE UNCHANGED <<next_version, current_state, downloaded_size, image, stale, faults>>
  /\ reply_pong' = TRUE
  /\ UNCHANGED <<version, latest, booted, losses>>
(* process_version_info, and process_ping of the same payload. *)
ProcessHeartbeat ==
  /\ post.kind = "heartbeat" /\ post' = Idle
  /\ IF version < post.version /\ next_version # post.version
     THEN next_version' = post.version /\ UpdateFirmware
     ELSE UNCHANGED <<next_version, current_state, downloaded_size, image, stale, faults>>
  /\ reply_pong' = TRUE
  /\ UNCHANGED <<version, latest, booted, losses>>

AbortUpdate == current_state' = "NORMAL" /\ downloaded_size' = 0
\* Mutant: a failed esp_ota_write does not abort the update.
ReceiveOtaDataOn(chunk) ==
  /\ downloaded_size' = downloaded_size + 1 /\ UNCHANGED current_state
  /\ \/ Works /\ image' = Append(image, chunk)
     \/ Fails /\ UNCHANGED image
(* receive_ota_data. *)
ReceiveOtaData(chunk) ==
  \/ /\ Works
     /\ downloaded_size' = downloaded_size + 1 /\ UNCHANGED current_state
     /\ image' = Append(image, chunk)
  \/ Fails /\ AbortUpdate /\ UNCHANGED image
(* process_firmware_data, RAW or DEFLATE; a chunk that cannot be           *)
(* decompressed is asked for again.                                        *)
ProcessData ==
  /\ post.kind = "data" /\ post' = Idle
  /\ \/ ReceiveOtaData(<<post.version, post.offset>>)
     \/ Fails /\ UNCHANGED <<current_state, downloaded_size, image>>
  /\ UNCHANGED <<version, next_version, reply_pong, latest, booted, stale, losses>>

(* Restarted, by esp_restart, or after a power loss.                       *)
Restart(v) ==
  /\ version' = v
  /\ current_state' = "NORMAL" /\ downloaded_size' = 0 /\ next_version' = 0
  /\ image' = <<>> /\ reply_pong' = FALSE /\ stale' = FALSE
(* process_firmware_data, EOF; esp_ota_end or esp_ota_set_boot_partition   *)
(* may fail.                                                               *)
ProcessEof ==
  /\ post.kind = "eof" /\ post' = Idle
  /\ \/ Works /\ booted' = image /\ Restart(next_version)
     \/ /\ Fails /\ current_state' = "NORMAL"
        /\ UNCHANGED <<version, downloaded_size, next_version, image, reply_pong, stale, booted>>
  /\ UNCHANGED <<latest, losses>>
PowerLoss ==
  /\ losses < LossMax /\ losses' = losses + 1
  /\ Restart(version) /\ post' = Idle
  /\ UNCHANGED <<latest, booted, faults>>

(* process_payload: the server's payloads have one field, or are a heartbeat. *)
ProcessPayload == ProcessHeartbeat \/ ProcessData \/ ProcessEof

Next ==
  \/ SendPayload \/ PostFails \/ ServerReplies \/ ServerBuilds
  \/ ProcessPayload \/ PowerLoss

(* wifi_adapter_task goes on forever, and the server answers.              *)
Device == SendPayload \/ ServerReplies \/ ProcessPayload
Fairness == WF_vars(Device)

Spec == Init /\ [][Next]_vars /\ Fairness

-----------------------------------------------------------------------------
(* What the device has written is what it says it has: the offset it asks  *)
(* for next continues the image of the version it asks for, whatever posts *)
(* were lost and versions were built in between; and the boot partition    *)
(* only ever holds a whole image of one version.  Not after esp_ota_begin  *)
(* failed: then the handle may be that of an older, half written image.    *)
ImageExact ==
  /\ current_state = "UPDATING" /\ ~stale =>
       image = SubSeq(Image(next_version), 1, downloaded_size)
  /\ (\E v \in 1..VersionMax : booted = Image(v)) \/ faults > 0

(* Unless an OTA call failed (a version that failed once is not tried      *)
(* again), the device comes to run the latest firmware, through any number *)
(* of lost posts, restarts and newer versions.                             *)
UpToDate == faults = 0 => version = latest
RunsLatest == <>[]UpToDate

-----------------------------------------------------------------------------
(* The proof, for images of any number of chunks, any number of versions,  *)
(* losses and failing calls: what is written is what the device says it    *)
(* has, and what it boots is a whole image.                                *)

(* An image has a number of chunks, and the server has built a firmware. *)
OtaAssumption == ChunkNum \in Nat /\ VersionMax \in Nat \ {0}

Posts == [kind : {"idle", "request", "status", "data", "eof", "heartbeat"},
          version : Nat, offset : Nat]

OtaTypeOK ==
  /\ version \in Nat
  /\ latest \in 1 .. VersionMax
  /\ current_state \in {"NORMAL", "UPDATING"}
  /\ downloaded_size \in Nat
  /\ next_version \in Nat
  /\ stale \in BOOLEAN
  /\ post \in Posts
  /\ faults \in Nat

(* The device has one payload on its way at a time and does not change     *)
(* what it asks for in between: what the post says about an update is      *)
(* still what the device wants.                                            *)
PostAgrees ==
  /\ post.kind \in {"request", "data", "eof"} =>
       /\ current_state = "UPDATING"
       /\ post.version = next_version
       /\ post.offset = downloaded_size
  /\ post.kind = "data" => post.offset < ChunkNum
  /\ post.kind = "eof" => post.offset = ChunkNum
  /\ post.kind = "heartbeat" => post.version \in 1 .. VersionMax

(* An update is for a version the server has built, and downloads no more  *)
(* than its image.                                                         *)
UpdateInRange ==
  current_state = "UPDATING" =>
    next_version \in 1 .. VersionMax /\ downloaded_size \in 0 .. ChunkNum

OtaInv ==
  /\ OtaTypeOK
  /\ PostAgrees
  /\ UpdateInRange
  /\ stale => faults > 0
  /\ ImageExact

-----------------------------------------------------------------------------
(* Images                                                                  *)

(* All of an image, and nothing of it. *)
LEMMA ImageWhole ==
  ASSUME OtaAssumption, NEW v
  PROVE  SubSeq(Image(v), 1, ChunkNum) = Image(v) /\ SubSeq(Image(v), 1, 0) = <<>>
BY DEF OtaAssumption, Image

(* The next chunk continues the image. *)
LEMMA ImageNext ==
  ASSUME OtaAssumption, NEW v, NEW n \in Nat, n < ChunkNum
  PROVE  Append(SubSeq(Image(v), 1, n), <<v, n>>) = SubSeq(Image(v), 1, n + 1)
BY DEF OtaAssumption, Image

-----------------------------------------------------------------------------
(* The steps                                                               *)

(* The device starts with a whole image and no update under way. *)
LEMMA InitOta ==
  ASSUME OtaAssumption, Init
  PROVE  OtaInv
<1>1. 1 \in 1 .. VersionMax
  BY DEF OtaAssumption
<1>2. OtaTypeOK
  BY <1>1 DEF Init, OtaTypeOK, Posts, Idle
<1>3. PostAgrees /\ UpdateInRange
  BY DEF Init, PostAgrees, UpdateInRange, Idle
<1>4. ImageExact
  BY <1>1 DEF Init, ImageExact
<1> QED
  BY <1>2, <1>3, <1>4 DEF OtaInv, Init

(* What the device asks for is what it wants. *)
LEMMA SendPayloadOta ==
  ASSUME OtaInv, SendPayload
  PROVE  OtaInv'
<1>1. OtaTypeOK'
  BY DEF OtaInv, OtaTypeOK, SendPayload, Posts
<1>2. PostAgrees'
  BY DEF OtaInv, OtaTypeOK, PostAgrees, SendPayload
<1>3. UpdateInRange' /\ ImageExact'
  BY DEF OtaInv, UpdateInRange, ImageExact, SendPayload
<1> QED
  BY <1>1, <1>2, <1>3 DEF OtaInv, SendPayload

(* A post that is lost leaves the device as it was. *)
LEMMA PostFailsOta ==
  ASSUME OtaInv, PostFails
  PROVE  OtaInv'
<1>1. OtaTypeOK'
  BY DEF OtaInv, OtaTypeOK, PostFails, Posts, Idle, memory
<1>2. PostAgrees'
  BY DEF PostAgrees, PostFails, Idle
<1>3. UpdateInRange' /\ ImageExact'
  BY DEF OtaInv, UpdateInRange, ImageExact, PostFails, memory
<1> QED
  BY <1>1, <1>2, <1>3 DEF OtaInv, PostFails, memory

(* The server answers the version and the offset it was asked for. *)
LEMMA ServerRepliesOta ==
  ASSUME OtaAssumption, OtaInv, ServerReplies
  PROVE  OtaInv'
<1>1. OtaTypeOK'
  BY DEF OtaInv, OtaTypeOK, ServerReplies, Posts, memory
<1>2. PostAgrees'
  BY DEF OtaInv, OtaTypeOK, Posts, PostAgrees, ServerReplies, memory
<1>3. UpdateInRange' /\ ImageExact'
  BY DEF OtaInv, UpdateInRange, ImageExact, ServerReplies, memory
<1> QED
  BY <1>1, <1>2, <1>3 DEF OtaInv, ServerReplies, memory

(* A version that is built is noticed with a later post only. *)
LEMMA ServerBuildsOta ==
  ASSUME OtaAssumption, OtaInv, ServerBuilds
  PROVE  OtaInv'
<1>1. OtaTypeOK'
  BY DEF OtaInv, OtaTypeOK, ServerBuilds, memory, OtaAssumption
<1>2. PostAgrees'
  BY DEF OtaInv, PostAgrees, ServerBuilds, memory
<1>3. UpdateInRange' /\ ImageExact'
  BY DEF OtaInv, UpdateInRange, ImageExact, ServerBuilds, memory
<1> QED
  BY <1>1, <1>2, <1>3 DEF OtaInv, ServerBuilds, memory

(* An update starts with an empty image of the version announced. *)
LEMMA ProcessHeartbeatOta ==
  ASSUME OtaAssumption, OtaInv, ProcessHeartbeat
  PROVE  OtaInv'
<1>1. post.version \in 1 .. VersionMax /\ post.version \in Nat
  BY DEF OtaInv, PostAgrees, ProcessHeartbeat, OtaTypeOK, Posts
<1>2. post' = Idle /\ UNCHANGED <<version, latest, booted, losses>>
  BY DEF ProcessHeartbeat
<1>3. PostAgrees'
  BY <1>2 DEF PostAgrees, Idle
<1>4. CASE UNCHANGED <<next_version, current_state, downloaded_size, image, stale, faults>>
  <2>1. OtaTypeOK'
    BY <1>2, <1>4 DEF OtaInv, OtaTypeOK, Posts, Idle
  <2>2. UpdateInRange' /\ ImageExact'
    BY <1>2, <1>4 DEF OtaInv, UpdateInRange, ImageExact
  <2> QED
    BY <1>3, <1>4, <2>1, <2>2 DEF OtaInv
<1>5. CASE next_version' = post.version /\ UpdateFirmware
  <2>1. /\ current_state' = "UPDATING" /\ downloaded_size' = 0
        /\ \/ faults' = faults /\ image' = <<>> /\ stale' = FALSE
           \/ faults' = faults + 1 /\ stale' = TRUE
    BY <1>5 DEF UpdateFirmware, Works, Fails
  <2>2. current_state' \in {"NORMAL", "UPDATING"} /\ downloaded_size' \in Nat
    BY <2>1
  <2>3. stale' \in BOOLEAN
    BY <2>1, Zenon
  <2>4. faults' \in Nat
    BY <2>1 DEF OtaInv, OtaTypeOK
  <2>5. OtaTypeOK'
    BY <1>1, <1>2, <1>5, <2>2, <2>3, <2>4 DEF OtaInv, OtaTypeOK, Posts, Idle
  <2>6. UpdateInRange'
    BY <1>1, <1>5, <2>1 DEF UpdateInRange, OtaAssumption
  <2>7. faults' > 0 \/ faults' = faults
    BY <2>1 DEF OtaInv, OtaTypeOK
  <2>8. stale' => faults' > 0
    BY <2>1 DEF OtaInv, OtaTypeOK
  <2>9. ~stale' => image' = SubSeq(Image(next_version'), 1, downloaded_size')
    BY <1>1, <1>5, <2>1, ImageWhole
  <2>10. ImageExact'
    BY <1>2, <2>7, <2>9 DEF OtaInv, ImageExact, Image
  <2> QED
    BY <1>3, <2>5, <2>6, <2>8, <2>10 DEF OtaInv
<1> QED
  BY <1>4, <1>5 DEF ProcessHeartbeat

(* A chunk continues the image, or the update is given up. *)
LEMMA ProcessDataOta ==
  ASSUME OtaAssumption, OtaInv, ProcessData
  PROVE  OtaInv'
<1>1. /\ current_state = "UPDATING"
      /\ post.version = next_version
      /\ post.offset = downloaded_size
      /\ downloaded_size < ChunkNum /\ downloaded_size \in Nat
      /\ next_version \in 1 .. VersionMax
  BY DEF OtaInv, PostAgrees, UpdateInRange, OtaTypeOK, ProcessData
<1>2. post' = Idle /\ UNCHANGED <<version, next_version, latest, booted, stale, losses>>
  BY DEF ProcessData
<1>3. PostAgrees'
  BY <1>2 DEF PostAgrees, Idle
<1>4. \/ /\ faults' = faults /\ current_state' = current_state
         /\ downloaded_size' = downloaded_size + 1
         /\ image' = Append(image, <<next_version, downloaded_size>>)
      \/ faults' = faults + 1 /\ current_state' = "NORMAL" /\ downloaded_size' = 0
      \/ /\ faults' = faults + 1
         /\ UNCHANGED <<current_state, downloaded_size, image>>
  BY <1>1 DEF ProcessData, ReceiveOtaData, Works, Fails, AbortUpdate
<1>5. OtaTypeOK'
  BY <1>1, <1>2, <1>4 DEF OtaInv, OtaTypeOK, Posts, Idle
<1>6. UpdateInRange'
  BY <1>1, <1>2, <1>4 DEF OtaAssumption, UpdateInRange, OtaInv
<1>7. (faults' > 0 \/ faults' = faults) /\ (stale' => faults' > 0)
  BY <1>2, <1>4 DEF OtaInv, OtaTypeOK
<1>8. current_state' = "UPDATING" /\ ~stale' =>
        image' = SubSeq(Image(next_version'), 1, downloaded_size')
  <2>1. SUFFICES ASSUME current_state' = "UPDATING", ~stale
                 PROVE  image' = SubSeq(Image(next_version), 1, downloaded_size')
    BY <1>2
  <2>2. image = SubSeq(Image(next_version), 1, downloaded_size)
    BY <1>1, <2>1 DEF OtaInv, ImageExact
  <2>3. PICK v \in Nat, n \in Nat : v = next_version /\ n = downloaded_size
    BY <1>1 DEF OtaInv, OtaTypeOK
  <2>4. Append(SubSeq(Image(v), 1, n), <<v, n>>) = SubSeq(Image(v), 1, n + 1)
    BY <1>1, <2>3, ImageNext
  <2> QED
    BY <1>4, <2>1, <2>2, <2>3, <2>4
<1>9. ImageExact'
  BY <1>2, <1>7, <1>8 DEF OtaInv, ImageExact, Image
<1> QED
  BY <1>3, <1>5, <1>6, <1>7, <1>9 DEF OtaInv

(* What is booted is all of the image, unless a call failed. *)
LEMMA ProcessEofOta ==
  ASSUME OtaAssumption, OtaInv, ProcessEof
  PROVE  OtaInv'
<1>1. /\ current_state = "UPDATING"
      /\ downloaded_size = ChunkNum
      /\ next_version \in 1 .. VersionMax /\ next_version \in Nat
  BY DEF OtaInv, PostAgrees, UpdateInRange, OtaTypeOK, ProcessEof
<1>2. post' = Idle /\ UNCHANGED <<latest, losses>>
  BY DEF ProcessEof
<1>3. PostAgrees'
  BY <1>2 DEF PostAgrees, Idle
<1>4. current_state' = "NORMAL"
  BY DEF ProcessEof, Restart
<1>5. UpdateInRange'
  BY <1>4 DEF UpdateInRange
<1>6. CASE Works /\ booted' = image /\ Restart(next_version)
  <2>1. OtaTypeOK'
    BY <1>1, <1>2, <1>6 DEF OtaInv, OtaTypeOK, Posts, Idle, Restart, Works
  <2>2. stale' = FALSE /\ faults' = faults
    BY <1>6 DEF Restart, Works
  <2>3. ASSUME ~(faults > 0)
        PROVE  booted' = Image(next_version)
    <3>1. ~stale
      BY <2>3 DEF OtaInv
    <3>2. image = SubSeq(Image(next_version), 1, ChunkNum)
      BY <1>1, <3>1 DEF OtaInv, ImageExact
    <3>3. PICK v \in Nat : v = next_version
      BY <1>1
    <3>4. SubSeq(Image(v), 1, ChunkNum) = Image(v)
      BY ImageWhole
    <3> QED
      BY <1>6, <3>2, <3>3, <3>4
  <2>4. (\E v \in 1 .. VersionMax : booted' = Image(v)) \/ faults' > 0
    BY <1>1, <2>2, <2>3
  <2>5. ImageExact'
    BY <1>4, <2>4 DEF ImageExact, Image
  <2> QED
    BY <1>3, <1>5, <2>1, <2>2, <2>5 DEF OtaInv
<1>7. CASE /\ Fails /\ UNCHANGED <<version, downloaded_size, next_version, image, stale, booted>>
  <2>1. OtaTypeOK'
    BY <1>2, <1>4, <1>7 DEF OtaInv, OtaTypeOK, Posts, Idle, Fails
  <2>2. faults' > 0
    BY <1>7 DEF OtaInv, OtaTypeOK, Fails
  <2>3. ImageExact'
    BY <1>4, <2>2 DEF ImageExact
  <2> QED
    BY <1>3, <1>5, <2>1, <2>2, <2>3 DEF OtaInv
<1> QED
  BY <1>6, <1>7 DEF ProcessEof

(* A device that loses power forgets the update and boots what it had. *)
LEMMA PowerLossOta ==
  ASSUME OtaInv, PowerLoss
  PROVE  OtaInv'
<1>1. OtaTypeOK'
  BY DEF OtaInv, OtaTypeOK, PowerLoss, Restart, Posts, Idle
<1>2. PostAgrees' /\ UpdateInRange'
  BY DEF PostAgrees, UpdateInRange, PowerLoss, Restart, Idle
<1>3. ImageExact'
  BY DEF OtaInv, ImageExact, PowerLoss, Restart, Image
<1> QED
  BY <1>1, <1>2, <1>3 DEF OtaInv, PowerLoss, Restart

(* Every step keeps the invariant. *)
LEMMA NextOta ==
  ASSUME OtaAssumption, OtaInv, [Next]_vars
  PROVE  OtaInv'
<1>1. CASE UNCHANGED vars
  BY <1>1 DEF OtaInv, OtaTypeOK, PostAgrees, UpdateInRange, ImageExact, Image, vars
<1> QED
  BY <1>1, SendPayloadOta, PostFailsOta, ServerRepliesOta, ServerBuildsOta,
     ProcessHeartbeatOta, ProcessDataOta, ProcessEofOta, PowerLossOta
     DEF Next, ProcessPayload

(* What receive_ota_data has written is the beginning of the image of the  *)
(* version the device asks for, as long as the offset it asks for says,    *)
(* whatever posts were lost, power losses and builds came in between; and  *)
(* what esp_ota_set_boot_partition was given is a whole image, unless an   *)
(* OTA call failed.                                                        *)
THEOREM ImagesAreExact ==
  ASSUME OtaAssumption
  PROVE  Spec => []ImageExact
<1>1. Init => OtaInv
  BY InitOta
<1>2. OtaInv /\ [Next]_vars => OtaInv'
  BY NextOta
<1>3. OtaInv => ImageExact
  BY DEF OtaInv
<1> QED
  BY <1>1, <1>2, <1>3, PTL DEF Spec
=============================================================================
