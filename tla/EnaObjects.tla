----------------------------- MODULE EnaObjects -----------------------------
(***************************************************************************)
(* The objects of the Ena interpreter (tiny-script-interpreter/src) that   *)
(* rest on its hash table: identifiers (internal.c), strings (string.c)    *)
(* and maps (map.c, hash.c, utils.c).  A C string is a sequence of bytes   *)
(* without its NUL.  A string object keeps the identifier of its text and  *)
(* size_in_bytes, the size of its source before the escapes were read.     *)
(***************************************************************************)
EXTENDS Integers, Sequences, FiniteSets, SequencesExt, FiniteSetsExt

CONSTANTS
  NumBuckets,      \* INITIAL_NUM_BUCKETS
  Sources,         \* string literals, as bytes
  Ints,            \* integers used as keys and values
  CodePoints,      \* characters whose UTF-8 texts are read
  ObjectMax,       \* strings a script makes
  SetMax           \* entries it stores in the map

VARIABLES
  cstr2ident, ident2cstr,   \* vm's two tables of identifiers
  next_ident,
  objects,                  \* the string objects made so far
  entries,                  \* the hash table of a map
  stored,                   \* what the script stored: key's content to value
  sets, stuck               \* stores so far; the interpreter loops in ena_create_string

vars == <<cstr2ident, ident2cstr, next_ident, objects, entries, stored, sets, stuck>>

IDENT_ANONYMOUS == 1
IDENT_START == 100
NUL == 0
BACKSLASH == 92
FFFD_CHAR == 65533

-----------------------------------------------------------------------------
(* A table is a function from buckets to chains of entries. *)
EmptyTable == [b \in 0..NumBuckets - 1 |-> <<>>]
Entry(key, value) == [key |-> key, value |-> value]
Bucket(digest) == digest % NumBuckets
(* The methods of the tables: identifiers, C strings and values. *)
IdentEquals(k1, k2) == k1 = k2
CstrEquals(k1, k2) == k1 = k2
CstrHash(s) == FoldLeft(LAMBDA x, y : x + y, 0, s)
ValueEquals(v1, v2) == v1.type = v2.type /\ IF v1.type = "int" THEN v1.n = v2.n ELSE v1.ident = v2.ident
ValueHash(v) == IF v.type = "int" THEN v.n ELSE v.size
KeyEquals(methods, k1, k2) ==
  CASE methods = "ident" -> IdentEquals(k1, k2)
    [] methods = "cstr" -> CstrEquals(k1, k2)
    [] methods = "value" -> ValueEquals(k1, k2)

(* ena_hash_search: ENTRY_EQUALS compares the digest of the key with itself. *)
\* Mutant: keys of one digest are taken for equal.
EntryEqualsDigest(digest, hash, equals) == digest = hash
EntryEquals(digest, hash, equals) == digest = hash /\ equals
Search(table, digest, key, methods) ==
  LET chain == table[Bucket(digest)]
      hits == {i \in DOMAIN chain : EntryEquals(digest, digest, KeyEquals(methods, key, chain[i].key))}
  IN IF hits = {} THEN 0 ELSE Min(hits)
At(table, digest, i) == table[Bucket(digest)][i]
(* ena_hash_insert goes to the end of the chain; rehash does nothing. *)
Insert(table, digest, key, value) ==
  [table EXCEPT ![Bucket(digest)] = Append(@, Entry(key, value))]

-----------------------------------------------------------------------------
(* ena_cstr2ident, as the tables after it and the identifier. *)
Cstr2Ident(s) ==
  LET i == Search(cstr2ident, CstrHash(s), s, "cstr")
  IN IF i # 0
     THEN [ident |-> At(cstr2ident, CstrHash(s), i).value, c2i |-> cstr2ident,
           i2c |-> ident2cstr, next |-> next_ident]
     ELSE [ident |-> next_ident, c2i |-> Insert(cstr2ident, CstrHash(s), s, next_ident),
           i2c |-> Insert(ident2cstr, next_ident, next_ident, s), next |-> next_ident + 1]
Ident2Cstr(ident) ==
  At(ident2cstr, ident, Search(ident2cstr, ident, ident, "ident")).value

(* The text up to its NUL: what the tables of C strings see. *)
Cstr(bytes) ==
  IF NUL \in ToSet(bytes)
  THEN SubSeq(bytes, 1, Min({i \in DOMAIN bytes : bytes[i] = NUL}) - 1) ELSE bytes

(* handle_escape_sequence: an unknown escape is read again for ever. *)
Escape(c) == CASE c = 116 -> 9 [] c = 110 -> 10 [] c = 34 -> 34 [] OTHER -> -1
RECURSIVE HandleEscape(_, _)
HandleEscape(s, i) ==
  IF i > Len(s) THEN [stuck |-> FALSE, text |-> <<>>]
  ELSE LET escape == s[i] = BACKSLASH
           c == IF ~escape THEN s[i] ELSE IF i < Len(s) THEN Escape(s[i + 1]) ELSE -1
           rest == HandleEscape(s, IF escape THEN i + 2 ELSE i + 1)
       IN IF c = -1 THEN [stuck |-> TRUE, text |-> <<>>]
          ELSE [stuck |-> rest.stuck, text |-> <<c>> \o rest.text]

StringObject(ident, size) == [type |-> "string", n |-> 0, ident |-> ident, size |-> size]
IntObject(n) == [type |-> "int", n |-> n, ident |-> 0, size |-> 0]

(* ena_create_string of size bytes. *)
CreateString(bytes) ==
  LET e == HandleEscape(bytes, 1)
      r == Cstr2Ident(Cstr(e.text))
  IN IF e.stuck
     THEN stuck' = TRUE /\ UNCHANGED <<cstr2ident, ident2cstr, next_ident, objects>>
     ELSE /\ objects' = objects \cup {StringObject(r.ident, Len(bytes))}
          /\ cstr2ident' = r.c2i /\ ident2cstr' = r.i2c /\ next_ident' = r.next
          /\ UNCHANGED stuck

(* The size bytes at the text of a string: past its NUL, bytes that are not *)
(* its own, here NULs.                                                     *)
Bytes(o) == LET s == Ident2Cstr(o.ident)
            IN [i \in 1..o.size |-> IF i <= Len(s) THEN s[i] ELSE NUL]
Concat(a, b) == Bytes(a) \o Bytes(b)

(* search: a position in the text, -1, -2 when it looks at the same place  *)
(* for ever, -3 when it goes past the end of the text.                     *)
RECURSIVE SearchFrom(_, _, _)
SearchFrom(text, pos, needle) ==
  LET begins == {i \in pos..Len(text) - 1 : text[i + 1] = needle[1]}
      offset == Min(begins)
  IN CASE needle = <<>> -> -1
       [] needle # <<>> /\ pos > Len(text) -> -3
       [] OTHER ->
          CASE begins = {} -> -1
            [] begins # {} /\ Len(text) - offset < Len(needle) -> -1
            [] OTHER -> IF SubSeq(text, offset + 1, offset + Len(needle)) = needle THEN offset
                        ELSE IF offset = 0 THEN -2 ELSE SearchFrom(text, pos + offset, needle)
(* string_replace, of a text in which every search ends. *)
RECURSIVE ReplaceFrom(_, _, _, _)
ReplaceFrom(text, index, old, new) ==
  LET match == IF index >= Len(text) THEN -1 ELSE SearchFrom(text, index, old)
  IN IF match < 0 THEN SubSeq(text, index + 1, Len(text))
     ELSE SubSeq(text, index + 1, match) \o new \o ReplaceFrom(text, match + Len(old), old, new)

(* The bytes of a character, from its first one (ena_utf8_strlen). *)
CharLen(b) == CASE b \div 8 = 30 -> 4 [] b \div 16 = 14 -> 3 [] b \div 32 = 6 -> 2 [] OTHER -> 1
RECURSIVE Utf8Strlen(_, _)
Utf8Strlen(s, i) == IF i >= Len(s) THEN 0 ELSE 1 + Utf8Strlen(s, i + CharLen(s[i + 1]))
RECURSIVE Utf8CharAt(_, _, _)
Utf8CharAt(s, i, index) ==
  IF i >= Len(s) THEN FFFD_CHAR
  ELSE LET len == CharLen(s[i + 1])
           low(k) == s[i + 1 + k] % 64
       IN CASE index > 0 -> Utf8CharAt(s, i + len, index - 1)
            [] index = 0 /\ len = 4 -> ((s[i + 1] % 8) * 262144) + (low(1) * 4096) + (low(2) * 64) + low(3)
            [] index = 0 /\ len = 3 -> ((s[i + 1] % 16) * 4096) + (low(1) * 64) + low(2)
            [] index = 0 /\ len = 2 -> ((s[i + 1] % 32) * 64) + low(1)
            [] OTHER -> s[i + 1]

(* ena_str2int: decimal, or hexadecimal after 0x; a number that begins     *)
(* with 0 is 0.                                                            *)
DigitValue(c) == CASE c \in 65..90 -> c - 65 + 10 [] c \in 97..122 -> c - 97 + 10 [] OTHER -> c - 48
Str2Int(s) ==
  LET hex == Len(s) > 1 /\ s[1] = 48 /\ s[2] = 120
      zero == Len(s) > 1 /\ s[1] = 48 /\ s[2] # 120
  IN IF zero THEN 0
     ELSE FoldLeft(LAMBDA r, c : (r * (IF hex THEN 16 ELSE 10)) + DigitValue(c), 0,
                   IF hex THEN SubSeq(s, 3, Len(s)) ELSE s)

(* ena_check_args looks at every other letter of the rule only. *)
CheckArgs(rule, args) ==
  \A i \in 1..(Len(rule) + 1) \div 2 :
    /\ Len(args) >= i
    /\ rule[(2 * i) - 1] # "x" => args[i].type = rule[(2 * i) - 1]

-----------------------------------------------------------------------------
Init ==
  /\ cstr2ident = EmptyTable /\ ident2cstr = EmptyTable /\ next_ident = IDENT_START
  /\ objects = {} /\ entries = EmptyTable /\ stored = <<>> /\ sets = 0 /\ stuck = FALSE

Keys == objects \cup {IntObject(n) : n \in Ints}
(* What a key stands for to the script. *)
Content(v) == [type |-> v.type, n |-> v.n,
               text |-> IF v.type = "int" THEN <<>> ELSE Ident2Cstr(v.ident)]

Literal ==
  /\ Cardinality(objects) < ObjectMax
  /\ \E s \in Sources : CreateString(s)
  /\ UNCHANGED <<entries, stored, sets>>

StringConcat ==
  /\ Cardinality(objects) < ObjectMax
  /\ \E a, b \in objects : CheckArgs(<<"string">>, <<b>>) /\ CreateString(Concat(a, b))
  /\ UNCHANGED <<entries, stored, sets>>

Store(k, v, replaces) ==
  stored' = [c \in DOMAIN stored \cup {Content(k)} |->
               IF c = Content(k) /\ (replaces \/ c \notin DOMAIN stored) THEN v ELSE stored[c]]

(* An entry of a map literal (eval.c) is inserted without a search. *)
MapLiteral ==
  \E k \in Keys, v \in Ints :
    entries' = Insert(entries, ValueHash(k), k, v) /\ Store(k, v, FALSE)

MapSet ==
  \E k \in Keys, v \in Ints :
    LET i == Search(entries, ValueHash(k), k, "value")
    IN /\ CheckArgs(<<"x", "x">>, <<k, IntObject(v)>>)
       /\ entries' = IF i # 0 THEN [entries EXCEPT ![Bucket(ValueHash(k))][i].value = v]
                     ELSE Insert(entries, ValueHash(k), k, v)
       /\ Store(k, v, TRUE)

MapGet(k) ==
  LET i == Search(entries, ValueHash(k), k, "value")
  IN IF i # 0 THEN <<At(entries, ValueHash(k), i).value>> ELSE <<>>

Stores == /\ sets < SetMax /\ sets' = sets + 1
          /\ (MapLiteral \/ MapSet)
          /\ UNCHANGED <<cstr2ident, ident2cstr, next_ident, objects, stuck>>

Next == ~stuck /\ (Literal \/ StringConcat \/ Stores)
Spec == Init /\ [][Next]_vars

-----------------------------------------------------------------------------
(* A string whose source has no escapes. *)
Plain(o) == o.size = Len(Ident2Cstr(o.ident))
(* The UTF-8 encoding of a character. *)
Encode(c) ==
  LET cont(k) == 128 + ((c \div 64^k) % 64)
  IN CASE c < 128 -> <<c>>
       [] c \in 128..2047 -> <<192 + (c \div 64), cont(0)>>
       [] c \in 2048..65535 -> <<224 + (c \div 4096), cont(1), cont(0)>>
       [] OTHER -> <<240 + (c \div 262144), cont(2), cont(1), cont(0)>>

(* IdentsExact: two texts have one identifier exactly when they are equal, *)
(* an identifier leads back to its text, and none is the anonymous one.    *)
IdentsExact ==
  \A o \in objects :
    LET s == Ident2Cstr(o.ident)
    IN Cstr2Ident(s).ident = o.ident /\ o.ident # IDENT_ANONYMOUS /\ Len(s) <= o.size
(* MapRight: whatever was stored under other keys of the same bucket, get  *)
(* gives what was last set, or first written in the literal, under the     *)
(* key, for integers and strings written without escapes.                  *)
MapRight ==
  \A k \in Keys :
    (\A c \in {x \in objects : x.ident = k.ident} : Plain(c)) =>
      MapGet(k) = IF Content(k) \in DOMAIN stored THEN <<stored[Content(k)]>> ELSE <<>>
(* StringsRight: a search that ends with a position has found the needle   *)
(* there, replacing leaves every other byte, the length and characters of  *)
(* a text are those that were encoded, and digits read as their number.    *)
StringsRight ==
  /\ \A a, b \in objects : Plain(a) /\ Plain(b) =>
       LET text == Ident2Cstr(a.ident)
           needle == Ident2Cstr(b.ident)
           r == SearchFrom(text, 0, needle)
       IN /\ r >= 0 => SubSeq(text, r + 1, r + Len(needle)) = needle
          /\ ReplaceFrom(text, 0, needle, needle) = text
  /\ objects = {} => \A c, d \in CodePoints :
       LET s == Encode(c) \o Encode(d)
       IN Utf8Strlen(s, 0) = 2 /\ Utf8CharAt(s, 0, 0) = c /\ Utf8CharAt(s, 0, 1) = d
            /\ Utf8CharAt(s, 0, 2) = FFFD_CHAR
  /\ objects = {} => \A d \in 1..9, e \in 0..9 :
                               /\ Str2Int(<<48 + d, 48 + e>>) = (10 * d) + e
                               /\ Str2Int(<<48, 120, 96 + (d % 6) + 1, 48 + e>>) = (16 * (10 + (d % 6))) + e
(* ObjectsRight: the three above. *)
ObjectsRight == IdentsExact /\ MapRight /\ StringsRight
=============================================================================
