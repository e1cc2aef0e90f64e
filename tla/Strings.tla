------------------------------- MODULE Strings ------------------------------
(***************************************************************************)
(* The C string functions of the kernels (microkernel1, microkernel2,      *)
(* Resea, myos, Homu) and the growable containers over them: String of     *)
(* microkernel2/lang/cpp, and string_t, vector_t and hash_t of Resea's     *)
(* libresea.  A C string is a sequence of nonzero numbers; memory cells    *)
(* nobody wrote hold Junk.  One container is used at a time (which).       *)
(***************************************************************************)
EXTENDS Integers, Sequences, FiniteSets, SequencesExt, FiniteSetsExt

CONSTANTS
  Chars,                 \* characters
  PieceMax, TextMax,     \* longest piece appended, longest text
  Slack,                 \* 16: what reserve adds
  InitialCapacity,       \* STRING_INITIAL_CAPACITY
  HashBins, RehashThreshold, Keys,
  OpMax, DepthMax        \* stores into a hash_t, calls of hash_rehash, for TLC

VARIABLES which, obj, text, dict, ops
vars == <<which, obj, text, dict, ops>>

NUL == 0
Junk == -1
Pieces == UNION {[1..n -> Chars] : n \in 0..PieceMax}
At(s, i) == IF i < Len(s) THEN s[i + 1] ELSE NUL
Least(a, b) == IF a < b THEN a ELSE b

-----------------------------------------------------------------------------
(* Comparing.  StopAt is where a loop that goes on while both characters   *)
(* are equal and not NUL stops.                                            *)
StopAt(a, b) == CHOOSE i \in 0..Len(a) :
                  /\ At(a, i) = NUL \/ At(b, i) = NUL \/ At(a, i) # At(b, i)
                  /\ \A j \in 0..i - 1 : At(a, j) = At(b, j) /\ At(a, j) # NUL
Diff(a, b, i) == At(a, i) - At(b, i)
Strcmp1(a, b) == Diff(a, b, StopAt(a, b))
Strncmp1(a, b, n) == Diff(a, b, IF n = 0 THEN StopAt(a, b) ELSE Least(StopAt(a, b), n - 1))
\* Mutant: the length is looked at after the characters.
Strncmp2Late(a, b, n) == Diff(a, b, Least(StopAt(a, b), n))
Strncmp2(a, b, n) == IF StopAt(a, b) >= n THEN 0 ELSE Diff(a, b, StopAt(a, b))
(* microkernel2's strcmp compares the length of its first argument only. *)
Strcmp2(a, b) == Strncmp2(a, b, Len(a))
StrcmpResea(a, b) == Diff(a, b, StopAt(a, b))
StrncmpResea(a, b, n) == IF StopAt(a, b) >= n THEN 0 ELSE Diff(a, b, StopAt(a, b))
(* myos: 0 or 1; strncmp does not stop at a NUL: past one, either.         *)
StrcmpMyos(a, b) == IF Diff(a, b, StopAt(a, b)) = 0 THEN 0 ELSE 1
StrncmpMyos(a, b, n) ==
  LET i == StopAt(a, b)
  IN CASE i >= n -> {0} [] i < n /\ Diff(a, b, i) # 0 -> {1} [] OTHER -> {0, 1}
StrcmpHomu(a, b) == IF At(a, StopAt(a, b)) = NUL /\ At(b, StopAt(a, b)) = NUL THEN 0 ELSE 1
Memcmp(a, b, n) == LET ds == {i \in 0..n - 1 : At(a, i) # At(b, i)}
                   IN IF ds = {} THEN 0 ELSE Diff(a, b, Min(ds))

(* Copying into size bytes: microkernel1's strcpy_s writes the NUL over    *)
(* the last character, Resea's stop before it.                             *)
StrcpyS1(src, size) == LET i == Least(Len(src), size)
                       IN SubSeq(src, 1, IF i = size THEN i - 1 ELSE i)
StrcpySResea(src, size) == SubSeq(src, 1, Least(Len(src), size - 1))
StrncpySResea(src, size, n) == SubSeq(src, 1, Least(Least(Len(src), size - 1), n))

(* Numbers: atol of microkernel2, homu_main_str2uint. *)
Digit(c) == c - 48
DigitsOf(s) == SubSeq(s, 1, IF \E i \in DOMAIN s : s[i] \notin 48..57
                            THEN Min({i \in DOMAIN s : s[i] \notin 48..57}) - 1 ELSE Len(s))
Atol(s) == FoldLeft(LAMBDA x, c : (x * 10) + Digit(c), 0, DigitsOf(s))
Pow(base, exp) == IF exp = 0 THEN 1 ELSE FoldLeft(LAMBDA x, y : x * base, base, [i \in 1..exp - 1 |-> 0])
Str2Uint(s) ==
  LET d == DigitsOf(s)
      i == Len(d) - 1
  IN IF i = 0 THEN Digit(s[1])
     ELSE FoldLeft(LAMBDA x, j : x + (Digit(d[j]) * Pow(10, i - (j - 1))), 0, [j \in 1..Len(d) |-> j])
(* myos le2be: two or four bytes in the other order. *)
Le2Be(data, size) ==
  CASE size = 2 -> <<data[2], data[1]>> \o SubSeq(data, 3, Len(data))
    [] size = 4 -> LET swapped(d, i) == [d EXCEPT ![i + 1] = d[4 - i], ![4 - i] = d[i + 1]]
                   IN swapped(swapped(data, 0), 1)
    [] OTHER -> data

-----------------------------------------------------------------------------
(* A growable string: buf has a cell past its capacity, which is not its   *)
(* own.                                                                    *)
Cells(n) == [i \in 1..n + 1 |-> Junk]
Written(buf, from, s) ==
  [i \in DOMAIN buf |-> IF i \in from + 1..from + Len(s) THEN s[i - from] ELSE buf[i]]
Cstr(o) == IF \E i \in DOMAIN o.buf : o.buf[i] = NUL
           THEN SubSeq(o.buf, 1, Min({i \in DOMAIN o.buf : o.buf[i] = NUL}) - 1) ELSE o.buf

(* String: init, reserve, append, assign. *)
NewString == [buf |-> <<>>, length |-> 0, capacity |-> 0]
Reserve(o, n) ==
  [o EXCEPT !.capacity = n,
            !.buf = Written(Cells(n), 0, IF o.buf = <<>> THEN <<>> ELSE SubSeq(o.buf, 1, o.length))]
(* append has no room for the NUL when the text fills the buffer. *)
AppendString(o, s, n) ==
  LET grown == IF o.capacity - o.length < Len(s) \/ (o.capacity = 0 /\ s = <<>>)
               THEN Reserve(o, (o.length + Len(s) + 1 + Slack) * 2) ELSE o
      put == SubSeq(s, 1, Least(Len(s), n))
  IN [grown EXCEPT !.buf = Written(@, o.length, put \o <<NUL>>), !.length = @ + Len(put)]
Truncate(o) == IF o.capacity > 0 THEN [o EXCEPT !.length = 0, !.buf = Written(@, 0, <<NUL>>)] ELSE o
AssignString(o, s, n) == AppendString(Truncate(o), s, n)
(* find, from pos on, of a C string and of a character; npos is -1. *)
FindString(o, s, pos) ==
  LET hits == {p \in pos..o.length : Strncmp2(SubSeq(Cstr(o), p + 1, o.length), s, Len(s)) = 0}
  IN IF o.buf = <<>> \/ hits = {} THEN -1 ELSE Min(hits)
FindChar(o, c, pos) ==
  LET hits == {p \in pos..o.length : o.buf[p + 1] = c}
  IN IF o.buf = <<>> THEN -1 ELSE IF hits = {} THEN -1 ELSE Min(hits)
StartsWith(o, s) == \A i \in 0..Len(s) - 1 : At(Cstr(o), i) = s[i + 1]

(* string_t: string_new leaves the text without a NUL. *)
StringNew == [buf |-> Cells(InitialCapacity), length |-> 0, capacity |-> InitialCapacity]
StringResize(o, n) == [o EXCEPT !.buf = Written(Cells(n), 0, SubSeq(o.buf, 1, o.length + 1)), !.capacity = n]
StringAppendCstr(o, s) ==
  LET need == o.length + Len(s) + 1
      grown == IF o.capacity < need THEN StringResize(o, need * 2) ELSE o
  IN [grown EXCEPT !.buf = Written(@, o.length, s \o <<NUL>>), !.length = @ + Len(s)]
(* string_find_cstr: a tail of the haystack that begins the needle matches. *)
StringFindCstr(h, needle) ==
  LET hits == {p \in 0..Len(h) - 1 :
                 \A i \in 0..Len(needle) - 1 : p + i < Len(h) => h[p + i + 1] = needle[i + 1]}
  IN IF hits = {} THEN -1 ELSE Min(hits)

(* vector_t: buf, size, capacity. *)
VectorNew == [buf |-> Cells(1), length |-> 0, capacity |-> 1]
VectorAppend(v, x) ==
  LET grown == IF v.length = v.capacity
               THEN [v EXCEPT !.buf = Written(Cells(v.capacity * 2), 0, SubSeq(v.buf, 1, v.capacity)),
                              !.capacity = v.capacity * 2] ELSE v
  IN [grown EXCEPT !.buf = Written(@, v.length, <<x>>), !.length = @ + 1]
VectorPop(v) == [v EXCEPT !.length = @ - 1]
Elements(v) == SubSeq(v.buf, 1, v.length)

(* hash_t: bins of vectors; a key is its hash.  depth counts the calls of  *)
(* hash_rehash that have not returned.                                     *)
HashNew == [bins |-> [b \in 0..HashBins - 1 |-> VectorNew], size |-> 0, depth |-> 0]
HashNeedsRehash(h) == h.size \div HashBins >= RehashThreshold
BinOf(k) == k % HashBins
Lookup(h, k) ==
  LET bin == Elements(h.bins[BinOf(k)])
      hits == {i \in DOMAIN bin : bin[i].key = k}
  IN IF hits = {} THEN 0 ELSE Min(hits)
HashSet(h, k, v) ==
  LET e == [key |-> k, value |-> v]
      i == Lookup(h, k)
      appended == [h EXCEPT !.bins[BinOf(k)] = VectorAppend(@, e), !.size = @ + 1]
  IN CASE i # 0 -> [h EXCEPT !.bins[BinOf(k)].buf[i] = e]
       [] i = 0 /\ HashNeedsRehash(appended) -> [appended EXCEPT !.depth = @ + 1]
       [] OTHER -> appended
(* hash_rehash, up to its next hash_set: that puts what was popped into    *)
(* the bins of now, not into the new ones, which begin as many as those    *)
(* and are written twice as far.                                           *)
HashRehash(h) ==
  LET b == Min({c \in 0..HashBins - 1 : h.bins[c].length > 0})
      e == Last(Elements(h.bins[b]))
  IN HashSet([h EXCEPT !.bins[b] = VectorPop(@)], e.key, e.value)
HashGet(h, k) == IF Lookup(h, k) = 0 THEN Junk ELSE Elements(h.bins[BinOf(k)])[Lookup(h, k)].value

-----------------------------------------------------------------------------
Init ==
  /\ which \in {"String", "string_t", "vector_t", "hash_t"}
  /\ obj = CASE which = "String" -> NewString [] which = "string_t" -> StringNew
             [] which = "vector_t" -> VectorNew [] OTHER -> HashNew
  /\ text = <<>> /\ dict = [k \in Keys |-> Junk] /\ ops = 0

Appended(s) ==
  /\ Len(text) + Len(s) <= TextMax
  /\ text' = text \o s /\ UNCHANGED <<which, dict, ops>>

StringAppend == \E s \in Pieces, n \in 0..PieceMax :
  /\ which = "String"
  /\ obj' = AppendString(obj, s, n) /\ Appended(SubSeq(s, 1, Least(Len(s), n)))
StringAssign == \E s \in Pieces :
  /\ which = "String" /\ obj' = AssignString(obj, s, PieceMax)
  /\ text' = s /\ UNCHANGED <<which, dict, ops>>
ReseaAppend == \E s \in Pieces : which = "string_t" /\ obj' = StringAppendCstr(obj, s) /\ Appended(s)
Push == \E c \in Chars : which = "vector_t" /\ obj' = VectorAppend(obj, c) /\ Appended(<<c>>)
Pop == /\ which = "vector_t" /\ obj.length > 0
       /\ obj' = VectorPop(obj) /\ text' = Front(text) /\ UNCHANGED <<which, dict, ops>>
Set == \E k \in Keys, v \in Chars :
  /\ which = "hash_t" /\ obj.depth = 0 /\ ops < OpMax
  /\ obj' = HashSet(obj, k, v) /\ dict' = [dict EXCEPT ![k] = v] /\ ops' = ops + 1
  /\ UNCHANGED <<which, text>>

Rehash ==
  /\ which = "hash_t" /\ obj.depth \in 1..DepthMax
  /\ obj' = HashRehash(obj) /\ UNCHANGED <<which, text, dict, ops>>

Next == StringAppend \/ StringAssign \/ ReseaAppend \/ Push \/ Pop \/ Set \/ Rehash
Spec == Init /\ [][Next]_vars

-----------------------------------------------------------------------------
Sign(n) == IF n < 0 THEN -1 ELSE IF n > 0 THEN 1 ELSE 0
(* The order of two strings: that of the first characters that differ. *)
Order(a, b) ==
  LET ds == {i \in 0..Len(a) + Len(b) : At(a, i) # At(b, i)}
  IN IF ds = {} THEN 0 ELSE Sign(Diff(a, b, Min(ds)))
(* CompareRight: every comparison orders the text and a piece as their     *)
(* first difference does, up to n; microkernel2's strcmp takes a string    *)
(* for one it begins, and myos may take equal strings for different when n *)
(* goes past their end.                                                    *)
CompareRight ==
  \A s \in Pieces :
    /\ Sign(Strcmp1(text, s)) = Order(text, s) /\ Sign(StrcmpResea(text, s)) = Order(text, s)
    /\ Sign(Strcmp2(text, s)) = IF IsPrefix(text, s) THEN 0 ELSE Order(text, s)
    /\ StrcmpMyos(text, s) = Order(text, s)^2 /\ StrcmpHomu(text, s) = Order(text, s)^2
    /\ \A n \in 1..PieceMax + 1 :
         LET order == Order(SubSeq(text, 1, Least(n, Len(text))), SubSeq(s, 1, Least(n, Len(s))))
         IN /\ Sign(Strncmp1(text, s, n)) = order /\ Sign(Strncmp2(text, s, n)) = order
            /\ Sign(StrncmpResea(text, s, n)) = order /\ order^2 \in StrncmpMyos(text, s, n)
            /\ Sign(Memcmp(text, s, n)) = order
(* CopiesFit: a bounded copy is the longest prefix that leaves room for    *)
(* the NUL; reading a number gives the value of its digits; swapping the   *)
(* bytes twice changes nothing.                                            *)
CopiesFit ==
  /\ \A size \in 1..TextMax :
       /\ StrcpyS1(text, size) = SubSeq(text, 1, Least(Len(text), size - 1))
       /\ StrcpyS1(text, size) = StrcpySResea(text, size)
       /\ \A n \in 0..size : StrncpySResea(text, size, n) = StrcpySResea(SubSeq(text, 1, Least(n, Len(text))), size)
  /\ Str2Uint(text) = Atol(text)
  /\ \A size \in {2, 4} : Len(text) >= size => Le2Be(Le2Be(text, size), size) = text
(* ContentsRight: after any sequence of operations the container holds     *)
(* what was put into it and its searches find the first place.  string_t   *)
(* keeps its NUL within its capacity; String puts it just behind when the  *)
(* text fills the buffer, and never further.  string_t's find may stop at a*)
(* tail that only begins the needle, never after the needle.  A hash_t that*)
(* begins to grow never ends: every hash_set of hash_rehash calls          *)
(* hash_rehash again, with all that was stored still there.                *)
ContentsRight ==
  CASE which = "hash_t" ->
         /\ \A k \in Keys : HashGet(obj, k) = dict[k]
         /\ obj.depth > 0 <=> HashNeedsRehash(obj)
    [] which = "vector_t" -> Elements(obj) = text /\ obj.length <= obj.capacity
    [] OTHER ->
       /\ obj.length <= obj.capacity /\ obj.length = Len(text)
       /\ obj.buf # <<>> => SubSeq(obj.buf, 1, obj.length) = text
       /\ text # <<>> => Cstr(obj) = text
       /\ obj.capacity > 0 =>
            \/ obj.buf[obj.capacity + 1] = Junk /\ (which = "String" => Len(text) < obj.capacity)
            \/ obj.buf[obj.capacity + 1] = NUL /\ which = "String"
       /\ \A s \in Pieces :
            LET places == {p \in 0..Len(text) : IsPrefix(s, SubSeq(text, p + 1, Len(text)))}
            IN CASE which = "String" ->
                      /\ obj.buf # <<>> => FindString(obj, s, 0) = IF places = {} THEN -1 ELSE Min(places)
                      /\ StartsWith(obj, s) <=> IsPrefix(s, text)
                      /\ Len(s) = 1 /\ obj.buf # <<>> => FindChar(obj, s[1], 0) = FindString(obj, s, 0)
                 [] OTHER -> /\ text # <<>> /\ s # <<>> /\ places # {} =>
                                  StringFindCstr(text, s) \in 0..Min(places)
                             /\ StringFindCstr(text, s) = -1 => places \subseteq {Len(text)}
(* StringsRight: the three above. *)
StringsRight == CompareRight /\ CopiesFit /\ ContentsRight
=============================================================================
