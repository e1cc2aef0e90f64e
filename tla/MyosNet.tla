------------------------------ MODULE MyosNet ------------------------------
(***************************************************************************)
(* The network of myos (myos/kernel/net): the receive ring of the NE2000   *)
(* and its interrupt handler, ARP, IP, UDP, the DHCP client that startup   *)
(* waits for, the TCP server with its single connection, and the HTTP      *)
(* server.  The network card and the other hosts (a DHCP server, hosts     *)
(* that send ARP requests, a web client) are external.                     *)
(*                                                                         *)
(* Pages of the card's memory are FIRST..PSTOP-1: reception starts at      *)
(* FIRST (CURR is set below PSTART) and wraps from PSTOP to PSTART.  Bytes *)
(* of a document are scaled down: SEGMENT are the 400 bytes of the first   *)
(* segment and of TCP_DEFAULT_WINDOW_SIZE, an even number, and a length is *)
(* odd if it is odd in the program.  Sequence numbers are offsets from the *)
(* initial one.  faults records what a behaviour met: the properties say   *)
(* which of it the program survives.                                       *)
(***************************************************************************)
EXTENDS Naturals, Sequences, FiniteSets

CONSTANTS
  FIRST, PSTART, PSTOP,
  SEGMENT,
  Lengths,     \* lengths of responses: of a file with 400 added, of a header
  Windows,     \* windows the client announces
  Sizes,       \* sizes of a request, in pages of the card
  ArpMax, RetryMax  \* bounds for TLC

VARIABLES
  mem,         \* page -> part of a frame
  curr, bnry,  \* CURR and BNRY of the card
  irq,         \* ISR is not zero
  handler,     \* where intNE2000Handler is
  buf,         \* the frame in its buffer
  net,         \* Net: the address, and whether it is known
  conn,        \* the connection that getTCPContBySrcPort finds
  wire,        \* frames on their way to the card
  sent,        \* segments on their way to the client
  client,      \* the web client
  arps, retries,
  faults

vars == <<mem, curr, bnry, irq, handler, buf, net, conn, wire, sent, client, arps, retries,
          faults>>

NoFrame == [type |-> "none", size |-> 1]
ARP == [type |-> "arp", size |-> 1]
Damaged == [type |-> "damaged", size |-> 1]   \* bit 0 of its status is not set
DHCP(op) == [type |-> op, size |-> 1]
TCP(flag, ack, win, req, size) ==
  [type |-> "tcp", flag |-> flag, ack |-> ack, win |-> win, req |-> req, size |-> size]
Least(a, b) == IF a < b THEN a ELSE b

(* The page that follows p by n, in the ring. *)
Ahead(p, n) == IF p + n < PSTOP THEN p + n ELSE PSTART + (p + n - PSTOP)

(* createTCPConnection: it passes over every free entry, so the connection *)
(* is the entry behind the last one, and getTCPContBySrcPort finds that.   *)
CreateTCPConnection ==
  [status |-> "CLOSED", seq |-> 0, window |-> SEGMENT, sendP |-> 0, length |-> 0]

(* initNetwork up to its first wait: the card, the connection, and a       *)
(* DHCPDISCOVER, which the DHCP server answers.                            *)
Init ==
  /\ mem = [p \in FIRST..(PSTOP - 1) |-> [frame |-> NoFrame, part |-> 0, next |-> FIRST]]
  /\ curr = FIRST
  /\ bnry = FIRST - 1
  /\ irq = FALSE
  /\ handler = [at |-> "off"]
  /\ buf = NoFrame
  /\ net = [address |-> FALSE, requested |-> FALSE]
  /\ conn = CreateTCPConnection
  /\ wire = <<DHCP("offer")>>
  /\ sent = <<>>
  /\ client \in {[at |-> "idle", ack |-> 0, win |-> w, got |-> 0, wrong |-> FALSE,
                  length |-> n] : w \in Windows, n \in Lengths}
  /\ arps = 0
  /\ retries = 0
  /\ faults = {}

-----------------------------------------------------------------------------
(* The card stores the next frame, if the pages up to BNRY hold it, and    *)
(* raises its interrupt.                                                   *)
Used == IF curr > bnry THEN curr - bnry - 1 ELSE (PSTOP - PSTART) - (bnry - curr) - 1
Store(f) ==
  LET next == Ahead(curr, f.size)
  IN  /\ Used + f.size < PSTOP - PSTART
      /\ mem' = [p \in DOMAIN mem |->
           IF \E i \in 0..(f.size - 1) : p = Ahead(curr, i)
           THEN [frame |-> f, next |-> next,
                 part |-> CHOOSE i \in 0..(f.size - 1) : p = Ahead(curr, i)]
           ELSE mem[p]]
      /\ curr' = next
      /\ irq' = TRUE
      /\ faults' = faults
           \cup (IF Used > 0 \/ handler.at # "off" THEN {"crowded"} ELSE {})
           \cup (IF curr + f.size >= PSTOP THEN {"wrapped"} ELSE {})
           \cup (IF f = Damaged THEN {"damaged"} ELSE {})

Arrive ==
  /\ wire # <<>>
  /\ Store(Head(wire))
  /\ wire' = Tail(wire)
  /\ UNCHANGED <<bnry, handler, buf, net, conn, sent, client, arps, retries>>

(* What others send: an ARP request, or a frame that the card received     *)
(* with an error and stored.                                               *)
ArriveOther ==
  /\ arps < ArpMax
  /\ arps' = arps + 1
  /\ \E f \in {ARP, Damaged} : Store(f)
  /\ UNCHANGED <<bnry, handler, buf, net, conn, wire, sent, client, retries>>

(* The interrupt, once initNetwork has enabled interrupts. *)
Interrupt ==
  /\ handler.at = "off"
  /\ irq
  /\ handler' = [at |-> "loop"]
  /\ UNCHANGED <<mem, curr, bnry, irq, buf, net, conn, wire, sent, client, arps, retries,
                 faults>>

(* NE2000_receive: the header of the frame behind BNRY is read and BNRY is *)
(* moved up to CURR, whatever other frames are there.  ISR is cleared.  A  *)
(* frame whose status or length is not good stays where it is, in front of *)
(* all later ones.                                                         *)
NE2000Receive ==
  /\ handler.at = "loop"
  /\ IF curr = bnry + 1 \/ mem[bnry + 1].frame.type = "damaged"
     THEN handler' = [at |-> "ack"] /\ UNCHANGED <<bnry, irq>>
     ELSE /\ handler' = [at |-> "read", from |-> bnry + 1, next |-> mem[bnry + 1].next,
                         curr |-> curr]
          /\ bnry' = curr - 1
          /\ irq' = FALSE
  /\ UNCHANGED <<mem, curr, buf, net, conn, wire, sent, client, arps, retries, faults>>

(* The end of intNE2000Handler clears ISR again. *)
NE2000Ack ==
  /\ handler.at = "ack"
  /\ handler' = [at |-> "off"]
  /\ irq' = FALSE
  /\ UNCHANGED <<mem, curr, bnry, buf, net, conn, wire, sent, client, arps, retries, faults>>

(* The pages that intNE2000Handler copies: none if the frame wraps, and    *)
(* then the buffer holds what was there before.                            *)
ReadFrame(h) == IF h.from < Least(h.next, h.curr) THEN mem[h.from].frame ELSE buf

-----------------------------------------------------------------------------
(* Mutant: an offer is not answered. *)
ReceiveDHCPPacketSilent(f) ==
  /\ net' = [requested |-> TRUE, address |-> net.address \/ f.type = "ack"]
  /\ UNCHANGED <<conn, sent, wire>>

(* receiveDHCPPacket: an offer is requested; an acknowledgement sets the   *)
(* address.  The DHCP server answers the request.                          *)
ReceiveDHCPPacket(f) ==
  /\ net' = [requested |-> TRUE, address |-> net.address \/ f.type = "ack"]
  /\ wire' = IF f.type = "offer" THEN Append(wire, DHCP("ack")) ELSE wire
  /\ UNCHANGED <<conn, sent>>

(* sendTCPPacket of connection C: len bytes from off of the document.  The *)
(* checksum adds up the data in pairs of bytes and leaves an odd last one  *)
(* out.                                                                    *)
Segment(C, flag, off, len) ==
  [flag |-> flag, seq |-> C.seq, off |-> off, len |-> len, summed |-> len - (len % 2)]

(* sendIPPacket, sendFrame, NE2000_send: in order to the default gateway,  *)
(* each after the transmission of the last.                                *)
SendIPPackets(out) == sent' = sent \o out

(* Mutant: the offset is not moved past the first segment. *)
SendDataByTCPNoOffset(C, length) ==
  [conn |-> [C EXCEPT !.status = "SENDING", !.length = length, !.sendP = 0],
   out |-> <<Segment(C, "ACK", 0, SEGMENT)>>]

(* sendDataByTCP.  The FIN after a short document has the sequence number  *)
(* of its first byte.                                                      *)
SendDataByTCP(C, length) ==
  IF C.window > length
  THEN [conn |-> [C EXCEPT !.status = "FIN_WAIT1", !.sendP = 0],
        out |-> <<Segment(C, "ACK", 0, length), Segment(C, "FIN", 0, 0)>>]
  ELSE [conn |-> [C EXCEPT !.status = "SENDING", !.length = length, !.sendP = SEGMENT],
        out |-> <<Segment(C, "ACK", 0, SEGMENT)>>]

(* HTTPServer: GET finds a file whatever its name (searchFile returns 0);  *)
(* a packet without a request is left alone.                               *)
HTTPServer(C, req, length) ==
  IF req THEN SendDataByTCP(C, length) ELSE [conn |-> C, out |-> <<>>]

(* receiveTCPPacket.  SYN leaves the status alone; FIN is answered and     *)
(* then falls through; while a document is being sent every packet counts  *)
(* as the acknowledgement of the last segment.                             *)
Continue(C) ==
  IF C.length - C.sendP < C.window
  THEN [conn |-> [C EXCEPT !.status = "FIN_WAIT1"],
        out |-> <<Segment(C, "FIN", C.sendP, C.length - C.sendP)>>]
  ELSE [conn |-> [C EXCEPT !.sendP = @ + C.window],
        out |-> <<Segment(C, "ACK", C.sendP, C.window)>>]

ReceiveTCPPacket(f) ==
  LET syn == [conn EXCEPT !.seq = 0, !.window = Least(@, f.win)]
      C == [conn EXCEPT !.seq = f.ack, !.window = Least(@, f.win)]
      fin == IF f.flag = "FIN" THEN <<Segment(C, "FIN", 0, 0)>> ELSE <<>>
      rest == IF conn.status = "SENDING" THEN Continue(C)
              ELSE HTTPServer([C EXCEPT !.status = "ACK_WAIT"], f.req, client.length)
  IN  IF f.flag = "SYN"
      THEN conn' = syn /\ SendIPPackets(<<Segment(syn, "SYN", 0, 0)>>)
      ELSE conn' = rest.conn /\ SendIPPackets(fin \o rest.out)

(* receiveUDPPacket: only the DHCP client's port is served. *)
ReceiveUDPPacket(f) == ReceiveDHCPPacket(f)

(* receiveIPPacket: what is for another host is dropped.  The DHCP server  *)
(* broadcasts.                                                             *)
ReceiveIPPacket(f) ==
  \/ f.type # "tcp" /\ ReceiveUDPPacket(f)
  \/ f.type = "tcp" /\ net.address /\ ReceiveTCPPacket(f) /\ UNCHANGED <<net, wire>>
  \/ f.type = "tcp" /\ ~net.address /\ UNCHANGED <<net, conn, wire, sent>>

(* receiveARPPacket: a request is answered to its sender; a reply is kept  *)
(* for an address that was asked for, which is none.                       *)
ReceiveARPPacket == UNCHANGED <<net, conn, wire, sent>>

(* receiveFrame: the handler processes one frame and looks for the next. *)
ReceiveFrame ==
  /\ handler.at = "read"
  /\ LET f == ReadFrame(handler)
     IN  /\ buf' = f
         /\ IF f.type \in {"arp", "none"} THEN ReceiveARPPacket ELSE ReceiveIPPacket(f)
  /\ handler' = [at |-> "loop"]
  /\ UNCHANGED <<mem, curr, bnry, irq, client, arps, retries, faults>>

-----------------------------------------------------------------------------
(* The web client (external): it opens a connection to the address, sends  *)
(* one request, acknowledges what it has, and closes after FIN.  It takes  *)
(* of a segment what its window holds and nothing out of order.            *)
Ack(c, flag) == TCP(flag, c.ack, c.win, FALSE, 1)
Request(c, size) == TCP("ACK", c.ack, c.win, TRUE, size)

ClientConnect ==
  /\ net.address
  /\ client.at = "idle"
  /\ client' = [client EXCEPT !.at = "syn"]
  /\ wire' = Append(wire, Ack(client, "SYN"))
  /\ UNCHANGED <<mem, curr, bnry, irq, handler, buf, net, conn, sent, arps, retries, faults>>

(* A segment whose checksum does not cover its data is dropped, and so is  *)
(* one whose sum had two carries: sendTCPPacket folds it only once.        *)
ClientDrops ==
  /\ sent # <<>>
  /\ sent' = Tail(sent)
  /\ \/ Head(sent).summed # Head(sent).len /\ faults' = faults \cup {"odd"}
     \/ Head(sent).len > 0 /\ faults' = faults \cup {"carry"}
  /\ UNCHANGED <<mem, curr, bnry, irq, handler, buf, net, conn, wire, client, arps, retries>>

ClientReceive ==
  /\ sent # <<>>
  /\ Head(sent).summed = Head(sent).len
  /\ sent' = Tail(sent)
  /\ LET s == Head(sent)
         c == [client EXCEPT !.at = "open", !.ack = 1]
         taken == Least(s.len, client.win)
         d == [client EXCEPT !.ack = @ + taken, !.got = @ + taken,
                             !.wrong = @ \/ (taken > 0 /\ s.off # client.got),
                             !.at = IF s.flag = "FIN" /\ taken = s.len THEN "closed" ELSE @]
     IN
     \/ /\ client.at = "syn" /\ s.flag = "SYN"
        /\ client' = c
        /\ \E size \in Sizes : wire' = wire \o <<Ack(c, "ACK"), Request(c, size)>>
     \/ /\ client.at = "open" /\ s.flag # "SYN" /\ s.seq = client.ack
        /\ client' = d
        /\ wire' = Append(wire, Ack(d, IF d.at = "closed" THEN "FIN" ELSE "ACK"))
     \/ /\ client.at = "open" /\ s.flag # "SYN" /\ s.seq # client.ack
        /\ client' = client
        /\ wire' = wire
     \/ /\ client.at \in {"idle", "closed"} \/ (client.at = "syn" /\ s.flag # "SYN")
             \/ (client.at = "open" /\ s.flag = "SYN")
        /\ UNCHANGED <<client, wire>>
  /\ UNCHANGED <<mem, curr, bnry, irq, handler, buf, net, conn, arps, retries, faults>>

(* The client's timeout: it repeats its request or its last message. *)
ClientRetransmit ==
  /\ retries < RetryMax
  /\ client.at \in {"syn", "open"}
  /\ retries' = retries + 1
  /\ faults' = faults \cup {"retransmitted"}
  /\ wire' = Append(wire, IF client.at = "syn" THEN Ack(client, "SYN")
                          ELSE IF client.got = 0 THEN Request(client, 1)
                          ELSE Ack(client, "ACK"))
  /\ UNCHANGED <<mem, curr, bnry, irq, handler, buf, net, conn, sent, client, arps>>

Next ==
  \/ Arrive \/ ArriveOther \/ Interrupt \/ NE2000Receive \/ NE2000Ack \/ ReceiveFrame
  \/ ClientConnect \/ ClientReceive \/ ClientDrops \/ ClientRetransmit

(* Frames arrive, the interrupt is taken, the handler runs, and the client *)
(* does what its TCP does; ARP requests and timeouts need not happen.      *)
Fairness ==
  /\ WF_vars(Arrive)
  /\ WF_vars(Interrupt \/ NE2000Receive \/ NE2000Ack \/ ReceiveFrame)
  /\ WF_vars(ClientConnect \/ ClientReceive \/ ClientDrops)

Spec == Init /\ [][Next]_vars /\ Fairness

-----------------------------------------------------------------------------
(* tcp.c keeps the offset in the document and the sequence number apart:   *)
(* still, what the client accepts is the document from its start, without  *)
(* gap or repetition, as long as the client's window holds the first       *)
(* segment, the client does not repeat itself and no frame ends at or past *)
(* the end of the ring, where the driver copies nothing and handles the    *)
(* previous frame again.  Frames that are lost in the card or replace      *)
(* others there, damaged ones, and segments with a wrong checksum do not   *)
(* harm it.                                                                *)
StreamFaithful ==
  client.win >= SEGMENT /\ "retransmitted" \notin faults /\ "wrapped" \notin faults
    => ~client.wrong

(* The address is obtained and the document delivered, if no frame arrives *)
(* while another is in the card, none is damaged or ends at or past the    *)
(* end of the ring, and no segment has a wrong checksum; a document of odd *)
(* length has one ("odd").  Nothing else in the driver or the protocols    *)
(* can stall a client.                                                     *)
Untroubled == faults = {} /\ client.win >= SEGMENT
Delivered == client.got = client.length
Served == []Untroubled => <>Delivered
=============================================================================
