------------------------------- MODULE Mk1Net -------------------------------
(***************************************************************************)
(* Microkernel1's TCP/IP server (microkernel1/tcpip): sockets, mbufs and   *)
(* UDP over the loopback address, which parse_ip_addr makes of every       *)
(* address, and the frames the network device delivers.  The server takes  *)
(* one message at a time.  A packet is a sequence of cells: a header is    *)
(* one record followed by padding.  Memory is handed out once and never    *)
(* released, so what allocate_memory does not clear is zero.               *)
(***************************************************************************)
EXTENDS Integers, Sequences, FiniteSets, SequencesExt

CONSTANTS
  MBUF_DATA_SIZE,   \* cells an mbuf holds
  IpLen, UdpLen,    \* cells of a header
  SocketsMax,       \* 256
  Ports,            \* ports; 0 is PORT_ANY
  Payloads,         \* what is sent
  Truncations       \* cells the network may cut off a frame

VARIABLES
  sockets,   \* sockets[]: used, port of local_addr, bound (local_addr's protocol set)
  last       \* the last datagram: port, payload, and who got what

vars == <<sockets, last>>

Ids == 0..SocketsMax - 1
None == [sent |-> FALSE]
Lost == [id |-> -1, payload |-> <<>>]
Pad == [kind |-> "pad"]
Data(s) == [i \in DOMAIN s |-> [kind |-> "data", value |-> s[i]]]

Init ==
  /\ sockets = [i \in Ids |-> [used |-> FALSE, bound |-> FALSE, port |-> 0]]
  /\ last = None

-----------------------------------------------------------------------------
(* An mbuf: begin and data, whose length is the mbuf's; a packet is a chain *)
(* of them with total_length in the first.                                 *)
Mbuf(data) == [begin |-> 0, data |-> data]
Header(h, len) == Mbuf([i \in 1..len |-> IF i = 1 THEN h ELSE Pad])
(* pack_mbuf: an empty mbuf, then the data in pieces. *)
PieceNum(data) == (Len(data) + MBUF_DATA_SIZE - 1) \div MBUF_DATA_SIZE
Piece(data, k) ==
  SubSeq(data, (k - 1) * MBUF_DATA_SIZE + 1,
         IF k = PieceNum(data) THEN Len(data) ELSE k * MBUF_DATA_SIZE)
Chain(data) == <<Mbuf(<<>>)>> \o [k \in 1..PieceNum(data) |-> Mbuf(Piece(data, k))]
\* Mutant: total_length is that of the last piece.
PackMbufLast(data) ==
  [chain |-> Chain(data), total |-> IF data = <<>> THEN 0 ELSE Len(Piece(data, PieceNum(data)))]
PackMbuf(data) == [chain |-> Chain(data), total |-> Len(data)]
(* append_mbuf: the header's own length is not in its total_length. *)
AppendMbuf(header, packet) == [chain |-> <<header>> \o packet.chain, total |-> packet.total]

(* copy_from_mbuf: what was copied, whether it was enough, and the chain.  *)
(* An mbuf read to its end on the way keeps its begin.                     *)
RECURSIVE CopyFrom(_, _, _, _)
CopyFrom(chain, k, size, copied) ==
  IF k > Len(chain) THEN [ok |-> FALSE, data |-> copied, chain |-> chain]
  ELSE LET m == chain[k]
           left == Len(m.data) - m.begin
           n == IF left < size THEN left ELSE size
           got == copied \o SubSeq(m.data, m.begin + 1, m.begin + n)
       IN IF size - n > 0 THEN CopyFrom(chain, k + 1, size - n, got)
          ELSE [ok |-> TRUE, data |-> got, chain |-> [chain EXCEPT ![k].begin = @ + n]]
CopyFromMbuf(chain, size) == CopyFrom(chain, 1, size, <<>>)

-----------------------------------------------------------------------------
(* compare_addr for the addresses that occur: different IP addresses count *)
(* as equal, and an address that was never bound has no protocol.          *)
CompareAddr(port, s) == s.bound /\ (port # 0 /\ s.port # 0 => port = s.port)
(* get_socket_by_addr; the remote address of a bound socket is any. *)
GetSocketByAddr(port) ==
  LET found == {i \in Ids : sockets[i].used /\ CompareAddr(port, sockets[i])}
  IN IF found = {} THEN -1 ELSE CHOOSE i \in found : \A j \in found : i <= j

(* receive_udp: the payload is as long as the header says; what the copy   *)
(* does not fill is padding.                                               *)
ReceiveUdp(chain) ==
  LET h == CopyFromMbuf(chain, UdpLen)
  IN IF ~h.ok THEN Lost
     ELSE LET udp == h.data[1]
              id == GetSocketByAddr(udp.dest)
              payload == CopyFromMbuf(h.chain, udp.length).data
          IN IF id = -1 THEN Lost
             ELSE [id |-> id,
                   payload |-> [i \in 1..udp.length |->
                                  IF i <= Len(payload) THEN payload[i] ELSE Pad]]
(* receive_ipv4; ICMP is only logged. *)
ReceiveIpv4(chain) ==
  LET h == CopyFromMbuf(chain, IpLen)
  IN IF ~h.ok \/ h.data[1].version # 4 \/ h.data[1].proto # "udp" THEN Lost
     ELSE ReceiveUdp(h.chain)
(* receive_arp looks into the first mbuf, which pack_mbuf leaves empty: the *)
(* packet is always too short.                                             *)
ReceiveArp(chain) == Lost
(* receive_packet, from ethernet_receive. *)
ReceivePacket(type, cells) ==
  IF type = "arp" THEN ReceiveArp(PackMbuf(cells).chain) ELSE ReceiveIpv4(PackMbuf(cells).chain)

(* send_udp and send_ipv4 over the loopback. *)
Udp(src, dest, length) == [kind |-> "udp", src |-> src, dest |-> dest, length |-> length]
Ip(version, proto) == [kind |-> "ip", version |-> version, proto |-> proto]
SendUdp(src, dest, payload) ==
  AppendMbuf(Header(Udp(src, dest, payload.total), UdpLen), payload)
SendIpv4(packet) == ReceiveIpv4(AppendMbuf(Header(Ip(4, "udp"), IpLen), packet).chain)

-----------------------------------------------------------------------------
(* handle_open with create_socket: without a free socket the client gets   *)
(* socket 0 all the same.                                                  *)
HandleOpen ==
  LET free == {i \in Ids \ {0} : ~sockets[i].used}
  IN sockets' = IF free = {} THEN sockets
                ELSE [sockets EXCEPT ![CHOOSE i \in free : \A j \in free : i <= j].used = TRUE]
(* handle_bind. *)
HandleBind(id, port) == sockets' = [sockets EXCEPT ![id].bound = TRUE, ![id].port = port]
(* handle_sendto. *)
HandleSendto(id, port, payload) ==
  last' = [sent |-> TRUE, whole |-> TRUE, local |-> TRUE, port |-> port, payload |-> payload,
           got |-> SendIpv4(SendUdp(sockets[id].port, port, PackMbuf(Data(payload))))]
(* net_device.received: a frame, of a peer, perhaps cut short or of another *)
(* protocol.  The length in the UDP header of a peer counts the header.    *)
Received(type, version, proto, port, payload, cut) ==
  LET frame == Header(Ip(version, proto), IpLen).data
               \o Header(Udp(1, port, UdpLen + Len(payload)), UdpLen).data \o Data(payload)
  IN /\ cut <= Len(frame)
     /\ last' = [sent |-> TRUE, whole |-> type = "ipv4" /\ version = 4 /\ proto = "udp" /\ cut = 0,
                 local |-> FALSE, port |-> port, payload |-> payload,
                 got |-> ReceivePacket(type, SubSeq(frame, 1, Len(frame) - cut))]

(* server_handler; handle_close does nothing, not even reply. *)
ServerHandler ==
  \/ last' = None /\ HandleOpen
  \/ last' = None /\ \E id \in Ids, port \in Ports : HandleBind(id, port)
  \/ /\ \E id \in Ids, port \in Ports, p \in Payloads : HandleSendto(id, port, p)
     /\ UNCHANGED sockets
NetDeviceHandler ==
  /\ \E type \in {"arp", "ipv4"}, version \in {4, 6}, proto \in {"udp", "icmp"},
        port \in Ports, p \in Payloads, cut \in Truncations :
       Received(type, version, proto, port, p, cut)
  /\ UNCHANGED sockets

Next == ServerHandler \/ NetDeviceHandler
Spec == Init /\ [][Next]_vars

-----------------------------------------------------------------------------
(* A whole datagram, from a client of this machine or from the network,    *)
(* whatever mbufs its cells are spread over, reaches the first socket that *)
(* is bound to its port, and no other, and starts with the payload it was  *)
(* sent with; without such a socket it reaches nobody.  One of this        *)
(* machine ends there too.  One of the network is too long by the header,  *)
(* which receive_udp takes for data: the cells after the payload are zero. *)
DatagramsRight ==
  last.sent /\ last.whole =>
    LET bound == {i \in Ids : sockets[i].used /\ sockets[i].bound
                              /\ (sockets[i].port = last.port \/ 0 \in {sockets[i].port, last.port})}
        excess == IF last.local THEN 0 ELSE UdpLen
    IN IF bound = {} THEN last.got = Lost
       ELSE /\ last.got.id \in bound /\ \A i \in bound : last.got.id <= i
            /\ last.got.payload = Data(last.payload) \o [i \in 1..excess |-> Pad]
=============================================================================
