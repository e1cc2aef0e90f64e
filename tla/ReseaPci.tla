----------------------------- MODULE ReseaPci ------------------------------
(***************************************************************************)
(* Resea: the PCI server (servers/pci), the virtio library (libs/libvirtio) *)
(* that reads a device's configuration through it one call at a time, and  *)
(* the bring-up of virtio_blk.  Other clients of the PCI server read and   *)
(* write configuration registers between these calls.  A word is a tuple   *)
(* of its four bytes, the lowest first.  The driver's last loop polls a    *)
(* device it never notified (it assigns to the notification pointer), so   *)
(* the bring-up ends in that loop.                                         *)
(***************************************************************************)
EXTENDS Naturals, Sequences, FiniteSets

CONSTANTS
  Devices,      \* slot -> the words of its configuration space, by offset
  QueueSize,    \* slot -> the size of its first queue
  PAGES,        \* bytes of the pages allocated for a queue (order 4)
  Offsets,      \* what clients write and read
  Data,         \* the bytes they write
  AccessMax     \* how many accesses they make

VARIABLES
  space,        \* the configuration spaces
  bytes,        \* every byte as it was last written
  answer,       \* the last read: [slot, offset, data]
  accesses,
  drv,          \* the driver: [at, slot, want, off, common, notify, bar, mul, cfg]
  common,       \* the device's common configuration: [status, enabled]
  virtq         \* the queue: [desc, avail, used], offsets in its pages

vars == <<space, bytes, answer, accesses, drv, common, virtq>>

ANY == <<255, 255>>
VIRTIO_PCI_VENDOR == <<244, 26>>
ZERO == <<0, 0, 0, 0>>

-----------------------------------------------------------------------------
(* The PCI server.                                                         *)

Aligned(offset) == offset - (offset % 4)

\* read_config32: a slot without a device reads as ones.
ReadConfig32(slot, offset) ==
  IF slot \notin DOMAIN space THEN <<255, 255, 255, 255>>
  ELSE IF offset \in DOMAIN space[slot] THEN space[slot][offset] ELSE ZERO

\* read_config16: the word shifted; what is past it is lost.
ReadConfig16(slot, offset) ==
  LET w == ReadConfig32(slot, Aligned(offset)) \o <<0>>
  IN <<w[(offset % 4) + 1], w[(offset % 4) + 2]>>

WriteConfig32(slot, offset, word) ==
  space' = [space EXCEPT ![slot] =
              [o \in DOMAIN @ \cup {offset} |-> IF o = offset THEN word ELSE @[o]]]

\* Mutant: the register is written without what the other bytes hold.
WriteConfig8Alone(slot, offset, byte) ==
  WriteConfig32(slot, Aligned(offset), [ZERO EXCEPT ![(offset % 4) + 1] = byte])

\* write_config8 writes the word back with one byte replaced.
WriteConfig8(slot, offset, byte) ==
  WriteConfig32(slot, Aligned(offset),
                [ReadConfig32(slot, Aligned(offset)) EXCEPT ![(offset % 4) + 1] = byte])

\* look_for_device: the first slot with a device of this vendor.
LookForDevice(vendor, device) ==
  {s \in DOMAIN space :
     LET matches(t) == /\ ReadConfig16(t, 0) # ANY
                       /\ vendor \in {ANY, ReadConfig16(t, 0)}
                       /\ device \in {ANY, ReadConfig16(t, 2)}
     IN matches(s) /\ \A t \in DOMAIN space : matches(t) => s <= t}

\* handle_pci_wait_for_device answers with what is there, and waits for nothing.
HandleWaitForDevice == LookForDevice(VIRTIO_PCI_VENDOR, ANY)

Access(slot) ==
  /\ slot \in DOMAIN space
  /\ accesses < AccessMax
  /\ accesses' = accesses + 1
  /\ UNCHANGED <<drv, common, virtq>>

HandleReadConfig16(slot, offset) ==
  /\ Access(slot)
  /\ answer' = [slot |-> slot, offset |-> offset, data |-> ReadConfig16(slot, offset)]
  /\ UNCHANGED <<space, bytes>>

HandleReadConfig32(slot, offset) ==
  /\ Access(slot) /\ offset % 4 = 0
  /\ answer' = [slot |-> slot, offset |-> offset, data |-> ReadConfig32(slot, offset)]
  /\ UNCHANGED <<space, bytes>>

HandleWriteConfig8(slot, offset, byte) ==
  /\ Access(slot)
  /\ WriteConfig8(slot, offset, byte)
  /\ bytes' = [bytes EXCEPT ![slot][offset] = byte]
  /\ answer' = [answer EXCEPT !.data = <<>>]

HandleWriteConfig32(slot, offset, byte) ==
  /\ Access(slot) /\ offset % 4 = 0
  /\ WriteConfig32(slot, offset, <<byte, 0, byte, 0>>)
  /\ bytes' = [bytes EXCEPT ![slot] =
                 [o \in DOMAIN @ |-> IF Aligned(o) # offset THEN @[o]
                                     ELSE <<byte, 0, byte, 0>>[(o % 4) + 1]]]
  /\ answer' = [answer EXCEPT !.data = <<>>]

-----------------------------------------------------------------------------
(* The virtio library.  The driver waits for each answer.                  *)

Config8(offset) == ReadConfig16(drv.slot, offset)[1]

Fail == drv' = [drv EXCEPT !.at = "failed"]
Go(at) == drv' = [drv EXCEPT !.at = at]

\* virtio_setup_pci_device: the first device of the vendor, of any type.
SetupPciDevice ==
  LET found == HandleWaitForDevice
  IN /\ drv.at = "wait"
     /\ drv' = IF found = {} THEN [drv EXCEPT !.at = "failed"]
               ELSE [drv EXCEPT !.at = "status", !.slot = CHOOSE s \in found : TRUE]
     /\ UNCHANGED <<space, bytes, answer, accesses, common, virtq>>

\* get_pci_capability_offset, one call after the other.
GetPciCapabilityOffset ==
  /\ \/ /\ drv.at = "caps"
        /\ drv' = [drv EXCEPT !.at = "vendor", !.off = Aligned(Config8(52))]
     \/ /\ drv.at = "vendor" /\ drv.off = 0
        /\ Fail
     \/ /\ drv.at = "vendor" /\ drv.off # 0
        /\ Go(IF Config8(drv.off) = 9 THEN "type" ELSE "next")
     \/ /\ drv.at = "type"
        /\ drv' = IF Config8(drv.off + 3) # drv.want THEN [drv EXCEPT !.at = "next"]
                  ELSE IF drv.want = 1 THEN [drv EXCEPT !.at = "bar", !.common = drv.off]
                  ELSE [drv EXCEPT !.at = "mul", !.notify = drv.off]
     \/ /\ drv.at = "next"
        /\ drv' = [drv EXCEPT !.at = "vendor", !.off = Config8(drv.off + 1)]
  /\ UNCHANGED <<space, bytes, answer, accesses, common, virtq>>

\* map_pci_config_cfg: both capabilities must name the same bar, and the
\* address for notifications is taken from the first of them.
MapPciConfigCfg ==
  /\ \/ /\ drv.at = "status"
        /\ Go(IF (Config8(6) \div 16) % 2 = 1 THEN "caps" ELSE "failed")
     \/ /\ drv.at = "bar"
        /\ LET no == Config8(drv.common + 4)
               bar == ReadConfig32(drv.slot, 16 + no * 4)
           IN IF no <= 5 /\ bar[1] % 2 = 0
                THEN drv' = [drv EXCEPT !.at = "offset", !.bar = no]
                ELSE Fail
     \/ /\ drv.at = "offset"
        /\ drv' = [drv EXCEPT !.at = "caps", !.want = 2,
                              !.cfg = ReadConfig32(drv.slot, drv.common + 8)]
     \/ /\ drv.at = "mul"
        /\ drv' = IF Config8(drv.notify + 4) = drv.bar
                  THEN [drv EXCEPT !.at = "negotiate",
                                   !.mul = ReadConfig32(drv.slot, drv.notify + 16)]
                  ELSE [drv EXCEPT !.at = "failed"]
  /\ UNCHANGED <<space, bytes, answer, accesses, common, virtq>>

\* negotiate_features_over_pci: reset, ACKNOWLEDGE, DRIVER and FEATURES_OK.
Negotiate ==
  /\ drv.at = "negotiate"
  /\ common' = [common EXCEPT !.status = {"ACKNOWLEDGE", "DRIVER", "FEATURES_OK"}]
  /\ Go("virtq")
  /\ UNCHANGED <<space, bytes, answer, accesses, virtq>>

AlignUp(n) == ((n + 7) \div 8) * 8
DescSize(q) == 16 * q
AvailSize(q) == 4 + 2 * q + 2

\* virtio_setup_virtq.
SetupVirtq ==
  LET q == QueueSize[drv.slot]
  IN /\ drv.at = "virtq"
     /\ virtq' = [desc |-> 0, avail |-> DescSize(q), used |-> AlignUp(DescSize(q) + AvailSize(q))]
     /\ common' = [common EXCEPT !.enabled = TRUE]
     /\ Go("finish")
     /\ UNCHANGED <<space, bytes, answer, accesses>>

\* virtio_finish_init, and init_driver's request: the driver starts to poll.
FinishInit ==
  /\ drv.at = "finish"
  /\ common' = [common EXCEPT !.status = @ \cup {"DRIVER_OK"}]
  /\ Go("poll")
  /\ UNCHANGED <<space, bytes, answer, accesses, virtq>>

-----------------------------------------------------------------------------
Init ==
  /\ space = Devices
  /\ bytes = [s \in DOMAIN Devices |->
                [o \in 0..255 |-> IF Aligned(o) \in DOMAIN Devices[s]
                                  THEN Devices[s][Aligned(o)][(o % 4) + 1] ELSE 0]]
  /\ answer = [slot |-> 0, offset |-> 0, data |-> <<>>]
  /\ accesses = 0
  /\ drv = [at |-> "wait", slot |-> 0, want |-> 1, off |-> 0, common |-> 0, notify |-> 0,
            bar |-> 0, mul |-> ZERO, cfg |-> ZERO]
  /\ common = [status |-> {}, enabled |-> FALSE]
  /\ virtq = [desc |-> 0, avail |-> 0, used |-> 0]

Driver ==
  SetupPciDevice \/ GetPciCapabilityOffset \/ MapPciConfigCfg \/ Negotiate \/ SetupVirtq
    \/ FinishInit

Next ==
  \/ Driver
  \/ \E slot \in DOMAIN Devices, offset \in Offsets :
       \/ HandleReadConfig16(slot, offset)
       \/ HandleReadConfig32(slot, offset)
       \/ \E byte \in Data : HandleWriteConfig8(slot, offset, byte)
                             \/ HandleWriteConfig32(slot, offset, byte)

Spec == Init /\ [][Next]_vars

-----------------------------------------------------------------------------
\* What clients of the PCI server see is a memory of bytes: a read within a
\* word returns what was last written to each of its bytes, and a write of a
\* byte (write_config8, a read and a write of the word) changes no other.
ConfigRight ==
  /\ \A s \in DOMAIN space : \A o \in DOMAIN space[s] : \A k \in 0..3 :
       space[s][o][k + 1] = bytes[s][o + k]
  /\ \A k \in 1..Len(answer.data) :
       (answer.offset % 4) + k <= 4 => answer.data[k] = bytes[answer.slot][answer.offset + k - 1]

\* When virtio_blk polls, its queue is set up: the rings do not overlap and
\* the used ring, whose elements the device writes with 8 bytes each, is in
\* the pages allocated for the queue; the device was told DRIVER_OK after
\* the queue was enabled.
QueueRight ==
  drv.at = "poll" =>
    LET q == QueueSize[drv.slot]
    IN /\ virtq.avail >= virtq.desc + 16 * q
       /\ virtq.used >= virtq.avail + 6 + 2 * q
       /\ virtq.used + 6 + 8 * q <= PAGES
       /\ common.enabled /\ "DRIVER_OK" \in common.status

PciRight == ConfigRight /\ QueueRight
=============================================================================
