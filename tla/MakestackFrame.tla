--------------------------- MODULE MakestackFrame ---------------------------
(***************************************************************************)
(* The packets of MakeStack's serial adapter                               *)
(* (makestack/firmware: serial_adapter.cpp and the encoding half of        *)
(* protocol.cpp): fields with a LEB128 length, a header with length and    *)
(* checksum, escaped between two newlines.  Bytes are numbers.             *)
(***************************************************************************)
EXTENDS Integers, Sequences, SequencesExt, Folds

CONSTANTS
  Bytes,      \* the bytes a field may hold
  BufLens,    \* the BUF_LENs tried
  FieldMax,   \* fields of a payload, for TLC
  DataMax,    \* bytes of all fields, for TLC
  Lengths,    \* data lengths tried for LEB128 alone
  Noises,     \* bytes read before a packet, no newline among them
  Stales      \* bytes of the buffer behind what was read

VARIABLES fields, closed

Newline == 10
Escape == 238
Magic == <<231, 77, 80, 75, 84>>

-----------------------------------------------------------------------------
(* compute_checksum, and a 16-bit number as two bytes. *)
ComputeChecksum(data) == FoldLeft(LAMBDA sum, b : (sum + b) % 65536, 0, data)
Word(n) == <<n % 256, n \div 256>>

(* encode_leb128 *)
RECURSIVE EncodeLeb128(_)
EncodeLeb128(value) ==
  IF value < 128 THEN <<value>>
  ELSE <<128 + (value % 128)>> \o EncodeLeb128(value \div 128)
(* decode_leb128: the value and its length, at most four bytes. *)
RECURSIVE DecodeFrom(_, _, _)
DecodeFrom(buf, i, shift) ==
  IF i > Len(buf) \/ i > 4 THEN [value |-> 0, len |-> -1]
  ELSE IF buf[i] < 128 THEN [value |-> buf[i] * shift, len |-> i]
  ELSE LET rest == DecodeFrom(buf, i + 1, shift * 128)
       IN [value |-> (buf[i] - 128) * shift + rest.value, len |-> rest.len]
DecodeLeb128(buf) == DecodeFrom(buf, 1, 1)

(* build_field, and build_payload without a field that does not fit (which *)
(* gives the whole payload up).  The header is not taken from the room.    *)
BuildField(f) == <<f.type>> \o EncodeLeb128(Len(f.data)) \o f.data
BuildPayload(fs, buf_len) ==
  LET data == FlattenSeq([i \in 1..Len(fs) |-> BuildField(fs[i])])
  IN IF Len(data) > buf_len THEN <<>>
     ELSE Word(Len(data)) \o Word(ComputeChecksum(data)) \o data

\* Mutant: the escape byte itself is not escaped.
EscapeByteOnce(b) == IF b = Newline THEN <<Escape, 224>> ELSE <<b>>
(* escape_payload, byte by byte. *)
EscapeByte(b) ==
  CASE b = Newline -> <<Escape, 224>>
    [] b = Escape -> <<Escape, 225>>
    [] OTHER -> <<b>>
(* The room is looked at only where a byte is escaped. *)
EscapePayload(p, buf_len) ==
  LET Step(e, b) ==
        IF Len(EscapeByte(b)) = 1 THEN [e EXCEPT !.out = Append(@, b)]
        ELSE [out |-> e.out \o EscapeByte(b), shifts |-> e.shifts + 1,
              short |-> e.short \/ buf_len < Len(p) + e.shifts + 1]
      e == FoldLeft(Step, [out |-> <<>>, shifts |-> 0, short |-> FALSE], p)
  IN IF e.short THEN <<>> ELSE e.out
BuildPacket(fs, buf_len) ==
  LET room == buf_len - 1 - Len(Magic)
      payload == BuildPayload(fs, room)
      escaped == EscapePayload(payload, room)
  IN IF payload = <<>> \/ escaped = <<>> THEN <<>>
     ELSE <<Newline>> \o Magic \o escaped \o <<Newline>>

-----------------------------------------------------------------------------
(* The expansion of escaped sequences in read_packet; NULL, here the empty *)
(* sequence, if one is none of build_packet's.                             *)
Expand(p) ==
  LET Step(x, b) ==
        IF x.escape
        THEN [out |-> Append(x.out, IF b = 224 THEN Newline ELSE Escape), escape |-> FALSE,
              invalid |-> x.invalid \/ b \notin {224, 225}]
        ELSE IF b = Escape THEN [x EXCEPT !.escape = TRUE]
        ELSE [x EXCEPT !.out = Append(@, b)]
      x == FoldLeft(Step, [out |-> <<>>, escape |-> FALSE, invalid |-> FALSE], p)
  IN IF x.invalid THEN <<>>
     ELSE IF x.escape THEN Append(x.out, Escape)
     ELSE x.out
(* read_packet: what is between the first two newlines, behind the magic.  *)
(* The length left for the second is read_len plus the offset of the first,*)
(* where it should be less it.                                             *)
ReadPacket(buf, read_len) ==
  LET First(from, to) == {i \in from..to : buf[i] = Newline /\ \A j \in from..(i - 1) : buf[j] # Newline}
      starts == First(1, read_len)
      start == CHOOSE i \in starts : TRUE
      remaining_len == read_len + (start - 1) - 1
      ends == First(start + 1, start + remaining_len)
      end == CHOOSE i \in ends : TRUE
      packet == SubSeq(buf, start + 1, end - 1)
  IN IF starts = {} \/ ends = {} THEN <<>>
     ELSE IF Len(packet) < Len(Magic) \/ SubSeq(packet, 1, Len(Magic)) # Magic THEN <<>>
     ELSE Expand(SubSeq(packet, Len(Magic) + 1, Len(packet)))

(* verify_magic *)
VerifyMagic(p) ==
  /\ Len(p) >= 4
  /\ p[1] + 256 * p[2] + 4 <= Len(p)
  /\ ComputeChecksum(SubSeq(p, 5, Len(p))) = p[3] + 256 * p[4]
(* process_payload: two bytes that are left are not looked at. *)
RECURSIVE ParseFields(_)
ParseFields(p) ==
  IF Len(p) <= 2 THEN <<>>
  ELSE LET l == DecodeLeb128(Tail(p))
           next == 1 + l.len + l.value
       IN IF l.len < 0 THEN <<>>
          ELSE <<[type |-> p[1], data |-> SubSeq(p, 2 + l.len, next)]>>
               \o ParseFields(SubSeq(p, next + 1, Len(p)))
ProcessPayload(p) == IF VerifyMagic(p) THEN ParseFields(SubSeq(p, 5, Len(p))) ELSE <<>>

-----------------------------------------------------------------------------
(* Payloads, field by field and byte by byte.                              *)
Init == fields = <<>> /\ closed = TRUE
NewField(type) ==
  /\ closed /\ Len(fields) < FieldMax
  /\ fields' = Append(fields, [type |-> type, data |-> <<>>]) /\ closed' = FALSE
AddByte(b) ==
  /\ ~closed
  /\ Len(FlattenSeq([i \in 1..Len(fields) |-> fields[i].data])) < DataMax
  /\ fields' = [fields EXCEPT ![Len(fields)].data = Append(@, b)]
  /\ closed' \in BOOLEAN
Next == \E b \in Bytes : NewField(b) \/ AddByte(b)
Spec == Init /\ [][Next]_<<fields, closed>>

-----------------------------------------------------------------------------
(* A payload comes out of its packet as it went in, newlines and escapes   *)
(* in types, lengths, checksums and data included: build_packet and        *)
(* read_packet with process_payload are inverse to each other, whatever is *)
(* in the buffer before and behind the packet (a last field without data is*)
(* not seen).  As build_payload does not count its header and              *)
(* escape_payload looks at the room only where it escapes, a packet may be *)
(* longer than its buffer, though never by more than five bytes; what is   *)
(* said here is about the ones that are not.  A packet cut short is given  *)
(* up unless it did not begin the buffer and a newline is left so close    *)
(* behind it that the wrong length reaches it.  Lengths survive LEB128 up  *)
(* to the four bytes both sides keep to.                                   *)
PacketSafe(packet, buf_len) ==
  /\ Len(packet) <= buf_len + 5
  /\ packet # <<>> /\ Len(packet) <= buf_len =>
       \A noise \in Noises, stale \in Stales :
         /\ ProcessPayload(ReadPacket(noise \o packet \o stale, Len(noise) + Len(packet))) = fields
         /\ \A cut \in 1..(Len(packet) - 1) :
              LET buf == noise \o SubSeq(packet, 1, cut) \o stale
              IN \/ ReadPacket(buf, Len(noise) + cut) = <<>>
                 \/ \E i \in 1..(2 * Len(noise)) : stale[i] = Newline
RoundTrip ==
  /\ closed => \A buf_len \in BufLens : PacketSafe(BuildPacket(fields, buf_len), buf_len)
  /\ \A n \in Lengths :
       LET e == EncodeLeb128(n)
       IN Len(e) <= 4 => DecodeLeb128(e \o <<255>>) = [value |-> n, len |-> Len(e)]
=============================================================================
