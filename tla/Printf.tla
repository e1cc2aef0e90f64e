------------------------------- MODULE Printf -------------------------------
(***************************************************************************)
(* The formatters of the repository's kernels, which all read a format     *)
(* character by character and take their arguments from a va_list:         *)
(*   printfmt   microkernel1/lang/cpp/src/printfmt.cpp                     *)
(*   strfmt     microkernel2/lang/cpp/strfmt.c, run-v8-on-uefi/src/strfmt.c *)
(*   vprintf    resea-old-c-userland/libs/libresea/printf.c                *)
(*   printk     resea-old-c-userland/kernel/printk.c                       *)
(*   printk3    microkernel3/kernel/printk.c                               *)
(*   vsprintf   microkernel3/libs/libresea/printf.c, which fills a buffer  *)
(*   myos       myos/kernel/lib/vprintf.c                                  *)
(* A character is a string, "NUL" ends a format, and "?" in the output     *)
(* means that the formatter has gone past the end of the format.  int has  *)
(* IntBits and long long LongBits bits.  An argument is a slot with what   *)
(* each kind of conversion takes from it; the colours the escape sequences *)
(* of myos select are left out.                                            *)
(***************************************************************************)
EXTENDS Integers, Sequences, SequencesExt

CONSTANTS
  IntBits, LongBits,
  Alphabet,     \* Alphabet[f]: the characters of the formats given to formatter f
  ArgLists,     \* sequences of slots [n |-> number, c |-> char, s |-> string, b |-> bytes]
  LengthMax,    \* longest format
  BufSizes      \* 256: the buffer of microkernel3's printf

VARIABLES formatter, fmt, args, buf_size
vars == <<formatter, fmt, args, buf_size>>

Formatters == DOMAIN Alphabet
At(i) == IF i <= Len(fmt) THEN fmt[i] ELSE "NUL"
(* The slot va_arg reads; past the last one it is whatever is there. *)
Arg(k) == IF k <= Len(args) THEN args[k] ELSE [n |-> 0, c |-> "?", s |-> <<"?">>, b |-> <<>>]
ToInt(v) == LET u == v % 2^IntBits IN IF u >= 2^(IntBits - 1) THEN u - 2^IntBits ELSE u
Unsigned(v) == v % 2^IntBits
(* The first position after i whose character is not in S. *)
SkipFrom(i, S) == CHOOSE j \in i + 1..Len(fmt) + 1 :
                    At(j) \notin S /\ \A m \in i + 1..j - 1 : At(m) \in S
Has(c, i, j) == \E m \in i + 1..j - 1 : At(m) = c
If(p, s) == IF p THEN s ELSE <<>>

(* What one round of a formatter's loop does at position i with argument k: *)
(* the characters it prints and where it goes on.                          *)
Round(out, next, k) == [out |-> out, next |-> next, k |-> k, stop |-> FALSE]
Stop(out) == [out |-> out, next |-> 0, k |-> 0, stop |-> TRUE]

Digit == <<"0", "1", "2", "3", "4", "5", "6", "7", "8", "9", "a", "b", "c", "d", "e", "f">>
RECURSIVE Digits(_, _)
Digits(n, base) ==
  (IF n < base THEN <<>> ELSE Digits(n \div base, base)) \o <<Digit[(n % base) + 1]>>

-----------------------------------------------------------------------------
(* print_int of printfmt and strfmt.  The padding and the buffer put the   *)
(* separator at places of their own.                                       *)
Zeros(order, len, sep) ==
  FlattenSeq([j \in 1..(IF len * 2 > order THEN len * 2 - order ELSE 0) |->
                <<"0">> \o If(sep /\ order + j - 1 = len + 1, <<"_">>)])
Buffered(digits, len, sep) ==
  LET low == 16 - len
      high == Len(digits) - low
  IN IF sep /\ high >= 0
     THEN SubSeq(digits, 1, high) \o <<"_">> \o SubSeq(digits, high + 1, Len(digits))
     ELSE digits
PrintInt(bits, base, v, len, sign, alt, pad, sep) ==
  LET neg == sign /\ ToInt(v) < 0
      digits == Digits((IF neg THEN -ToInt(v) ELSE v) % 2^bits, base)
  IN If(neg, <<"-">>) \o If(alt /\ base = 16, <<"0", "x">>)
       \o If(pad, Zeros(Len(digits), len, sep)) \o Buffered(digits, len, sep)

(* intmax_t is an int in microkernel1 and a long long in the others. *)
PrintInt1(base, v, len, sign, alt, pad, sep) == PrintInt(IntBits, base, v, len, sign, alt, pad, sep)
PrintInt2(base, v, sign, alt, pad) == PrintInt(LongBits, base, v, 8, sign, alt, pad, FALSE)

-----------------------------------------------------------------------------
(* microkernel1's vprintfmt: every character up to a letter is a flag, '%' *)
(* and digits included.                                                    *)
Alphabetic == {"d", "u", "x", "X", "b", "c", "s", "p", "P", "V", "h", "l", "j", "z", "a"}
Flags1(i) == CHOOSE j \in i + 1..Len(fmt) + 1 :
               /\ At(j) \in Alphabetic \cup {"NUL"}
               /\ \A m \in i + 1..j - 1 : At(m) \notin Alphabetic
(* The length modifier at j: where the specifier is and the length. *)
Length1(j) ==
  CASE At(j) = "h" -> IF At(j + 1) = "h" THEN [at |-> j + 2, len |-> 1] ELSE [at |-> j + 1, len |-> 2]
    [] At(j) = "l" -> IF At(j + 1) = "l" THEN [at |-> j + 2, len |-> 8] ELSE [at |-> j + 1, len |-> 4]
    [] At(j) \in {"j", "z"} -> [at |-> j + 1, len |-> 4]
    [] OTHER -> [at |-> j, len |-> 4]
Specifier1(j, spec, len, alt, pad, k) ==
  LET v == IF len = 8 THEN Arg(k).n ELSE ToInt(Arg(k).n)
      int(base, sign, a, p, sep) == PrintInt1(base, v, len, sign, a, p, sep)
  IN CASE spec \in {"d", "V"} -> int(10, TRUE, alt, pad, FALSE)
       [] spec = "u" -> int(10, FALSE, alt, pad, FALSE)
       [] spec = "b" -> int(2, FALSE, alt, pad, FALSE)
       [] spec = "p" -> int(16, FALSE, TRUE, TRUE, FALSE)
       [] spec = "x" -> int(16, FALSE, alt, pad, FALSE)
       [] spec = "X" -> int(16, FALSE, alt, pad, TRUE)
       [] spec = "c" -> <<Arg(k).c>>
       [] spec = "s" -> Arg(k).s
       [] OTHER -> <<At(j)>>
Vprintfmt(i, k) ==
  IF At(i) # "%" THEN Round(<<At(i)>>, i + 1, k)
  ELSE LET j == Flags1(i)
           l == Length1(j)
           escaped == At(j) = "P"
           spec == IF escaped THEN "p" ELSE At(l.at)
       IN IF At(j) = "NUL" THEN Stop(<<"%">>)
          ELSE Round(If(escaped, <<"%", "P", "[">>)
                       \o Specifier1(l.at, spec, l.len, Has("#", i, j), Has("0", i, j), k)
                       \o If(escaped, <<"]">>), l.at + 1, k + 1)

-----------------------------------------------------------------------------
(* print_double: four decimals of a number given in 1/100000. *)
PrintDouble(f) ==
  LET v == (IF f < 0 THEN -f ELSE f) + 5
      int(n) == PrintInt2(10, n, TRUE, FALSE, FALSE)
      decimal(p) == int((v \div 10^(5 - p)) % 10)
  IN If(f < 0, <<"-">>) \o int(v \div 100000)
       \o <<".">> \o decimal(1) \o decimal(2) \o decimal(3) \o decimal(4)
(* strfmt: every number is read as a uintmax_t; a '%' at the end of the    *)
(* format is printed and the loop then goes on past the end.               *)
Vstrfmt(i, k) ==
  LET j == SkipFrom(i, {"#", "0"})
      spec == At(j)
      pointer == spec = "p"
      int(base, sign) == PrintInt2(base, Arg(k).n, sign, pointer \/ Has("#", i, j),
                                   pointer \/ Has("0", i, j))
      shown(out) == Round(out, j + 1, k + 1)
  IN CASE At(i) # "%" -> Round(<<At(i)>>, i + 1, k)
       [] OTHER ->
          CASE spec \in {"%", "NUL"} -> Round(<<"%">>, j + 1, k)
            [] spec = "f" -> shown(PrintDouble(Arg(k).n))
            [] spec = "d" -> shown(int(10, TRUE))
            [] spec = "u" -> shown(int(10, FALSE))
            [] spec \in {"p", "x"} -> shown(int(16, FALSE))
            [] spec = "c" -> shown(<<Arg(k).c>>)
            [] spec \in {"s", "q"} -> shown(Arg(k).s)
            [] OTHER -> Round(<<"%", spec>>, j + 1, k)
(* run-v8-on-uefi has its own copy of strfmt.c; printf adds the newline. *)
PrintDoubleV8(f) == PrintDouble(f)
VstrfmtV8(i, k) == IF At(i) = "%" /\ At(SkipFrom(i, {"#", "0"})) = "f"
                   THEN Round(PrintDoubleV8(Arg(k).n), SkipFrom(i, {"#", "0"}) + 1, k + 1)
                   ELSE Vstrfmt(i, k)

-----------------------------------------------------------------------------
(* print_uint of Resea and of microkernel3. *)
\* Mutant: the loop tests before the first digit, so 0 has none.
PrintUintNoZero(n, base, pad, width) ==
  LET digits == IF n = 0 THEN <<>> ELSE Digits(n, base)
  IN [j \in 1..(IF width > Len(digits) THEN width - Len(digits) ELSE 0) |-> pad] \o digits
PrintUint(n, base, pad, width) ==
  LET digits == Digits(n, base)
  IN [j \in 1..(IF width > Len(digits) THEN width - Len(digits) ELSE 0) |-> pad] \o digits
PtrWidth == 16
Pointer(v) == PrintUint(v % 2^LongBits, 16, "0", PtrWidth)
Signed(v) == If(v < 0, <<"-">>) \o PrintUint(IF v < 0 THEN -v ELSE v, 10, " ", 0)

(* Resea's printf: %p takes the character that follows it, whatever it is. *)
Hexdump(b) ==
  FlattenSeq([j \in 1..Len(b) |->
    If((j - 1) % 16 = 0, If(j > 1, <<"\n">>) \o <<"\t">> \o PrintUint(j - 1, 16, "0", 4) \o <<":", " ">>)
      \o PrintUint(b[j], 16, "0", 2) \o <<" ">>])
PrintPtr(i, k) ==
  IF At(i) = "h" THEN Round(Hexdump(Arg(k).b), i + 1, k + 2)
  ELSE Round(Pointer(Arg(k).n) \o <<At(i)>>, i + 1, k + 1)
PrintValue(i, k) ==
  IF At(i) = "E" THEN Round(PrintUint((-ToInt(Arg(k).n)) % 2^LongBits, 10, "NUL", 0), i + 1, k + 1)
  ELSE Round(<<>>, i + 1, k)
(* %pT, %pC and %pS of the kernel. *)
PrintkPtr(i, k) ==
  CASE At(i) \in {"T", "C"} ->
         Round(<<IF At(i) = "T" THEN "#" ELSE "@">> \o Arg(k).s \o <<".">>
                 \o PrintUint(Arg(k).n % 2^IntBits, 10, " ", 0), i + 1, k + 1)
    [] At(i) = "S" ->
         Round(Arg(k).s \o If(Arg(k).n > 0, <<"+", "0", "x">> \o PrintUint(Arg(k).n, 16, "NUL", 0)),
               i + 1, k + 1)
    [] OTHER -> Round(Pointer(Arg(k).n) \o <<At(i)>>, i + 1, k + 1)
Invalid == <<"<", "!", ">">>
(* The conversions both have; ll is l twice, h takes one back. *)
Conversion(i, k) ==
  LET j == SkipFrom(i, {"l", "h", "0", "#"})
      num_len == 1 + Len(SelectSeq(SubSeq(fmt, i + 1, j - 1), LAMBDA c : c = "l"))
                    - Len(SelectSeq(SubSeq(fmt, i + 1, j - 1), LAMBDA c : c = "h"))
      long == num_len = 3
      shown(out) == Round(out, j + 1, k + 1)
      u == IF long THEN Arg(k).n % 2^LongBits ELSE Unsigned(Arg(k).n)
  IN CASE At(j) = "d" -> shown(Signed(IF long THEN Arg(k).n ELSE ToInt(Arg(k).n)))
       [] At(j) = "x" -> shown(PrintUint(u, 16, " ", 0))
       [] At(j) = "u" -> shown(PrintUint(u, 10, " ", 0))
       [] At(j) = "c" -> shown(<<Arg(k).c>>)
       [] At(j) = "s" -> shown(Arg(k).s)
       [] At(j) = "%" -> Round(<<"%">>, j + 1, k)
       [] OTHER -> Stop(Invalid)
Vprintf(i, k) ==
  LET j == SkipFrom(i, {"l", "h", "0", "#"})
  IN CASE At(i) # "%" -> Round(<<At(i)>>, i + 1, k)
       [] At(i) = "%" /\ At(j) = "v" -> PrintValue(j + 1, k)
       [] At(i) = "%" /\ At(j) = "p" -> PrintPtr(j + 1, k)
       [] OTHER -> Conversion(i, k)
Vprintk(i, k) ==
  LET j == SkipFrom(i, {"l", "h", "0", "#"})
  IN CASE At(i) # "%" -> Round(<<At(i)>>, i + 1, k)
       [] At(i) = "%" /\ At(j) = "p" -> PrintkPtr(j + 1, k)
       [] OTHER -> Conversion(i, k)

-----------------------------------------------------------------------------
(* microkernel3: 'l' falls through to '%'.  A round is a sequence of       *)
(* pieces, each with the room vsprintf reserves for it.                    *)
Piece(size, out) == [size |-> size, out |-> out]
VaArgUint(v, num_size) == IF num_size = 3 THEN v % 2^LongBits ELSE Unsigned(v)
Pieces(i, k) ==
  LET j == SkipFrom(i, {"#", "0"})
      n == ToInt(VaArgUint(Arg(k).n, 0))
      alts == [m \in 1..Len(SelectSeq(SubSeq(fmt, i + 1, j - 1), LAMBDA c : c = "#")) |->
                 Piece(2, <<"0", "x">>)]
      shown(size, out) == Round(alts \o <<Piece(size, out)>>, j + 1, k + 1)
  IN CASE At(i) # "%" -> Round(<<Piece(1, <<At(i)>>)>>, i + 1, k)
       [] At(i) = "%" /\ At(i + 1) = "NUL" -> Round(<<Piece(1, <<"%">>)>>, i + 1, k)
       [] OTHER ->
          CASE At(j) = "NUL" -> Round(alts, j, k)
            [] At(j) \in {"l", "%"} -> Round(alts \o <<Piece(1, <<"%">>)>>, j + 1, k)
            [] At(j) = "p" -> shown(32, Pointer(Arg(k).n))
            [] At(j) = "x" -> shown(32, PrintUint(VaArgUint(Arg(k).n, 1), 16, " ", 0))
            [] At(j) = "d" -> shown(32, Signed(n))
            [] At(j) = "u" -> shown(32, PrintUint(VaArgUint(Arg(k).n, 1), 10, " ", 0))
            [] At(j) = "c" -> shown(1, <<Arg(k).c>>)
            [] At(j) = "s" -> shown(Len(Arg(k).s), Arg(k).s)
            [] OTHER -> Round(alts \o <<Piece(2, <<"%", At(j)>>)>>, j + 1, k)
Printk3(i, k) == LET r == Pieces(i, k)
                 IN [r EXCEPT !.out = FlattenSeq([m \in DOMAIN r.out |-> r.out[m].out])]

RECURSIVE AllPieces(_, _)
AllPieces(i, k) ==
  IF i > Len(fmt) THEN <<>>
  ELSE LET r == Pieces(i, k) IN r.out \o AllPieces(r.next, r.k)
(* RESERVE_BUF_SIZE: the text ends before the first piece that has no room. *)
Fill(buf, p) ==
  IF buf.full \/ buf.size - 1 <= p.size THEN [buf EXCEPT !.full = TRUE]
  ELSE [full |-> FALSE, size |-> buf.size - p.size, out |-> buf.out \o p.out]
Vsprintf == FoldLeft(Fill, [full |-> FALSE, size |-> buf_size, out |-> <<>>],
                     AllPieces(1, 1)).out \o <<"NUL">>

-----------------------------------------------------------------------------
(* myos: %d is unsigned; an unknown conversion prints nothing; a '%' or an *)
(* escape at the end of the format takes the loop past it.                 *)
VprintfMyos(i, k) ==
  LET shown(out) == Round(out, i + 2, k + 1)
  IN CASE At(i) = "ESC" -> Round(<<>>, (IF At(i + 1) = "[" THEN i + 2 ELSE i + 1) + 3, k)
       [] At(i) # "%" /\ At(i) # "ESC" -> Round(<<At(i)>>, i + 1, k)
       [] OTHER ->
          CASE At(i + 1) = "%" -> Round(<<"%">>, i + 2, k)
            [] At(i + 1) = "c" -> shown(<<Arg(k).c>>)
            [] At(i + 1) = "s" -> shown(Arg(k).s)
            [] At(i + 1) = "d" -> shown(Digits(Unsigned(Arg(k).n), 10))
            [] At(i + 1) = "x" -> shown(Digits(Unsigned(Arg(k).n), 16))
            [] OTHER -> Round(<<>>, i + 2, k)

-----------------------------------------------------------------------------
RECURSIVE Loop(_, _, _)
Loop(f, i, k) ==
  CASE i = Len(fmt) + 1 -> <<>>
    [] i > Len(fmt) + 1 -> <<"?">>
    [] OTHER ->
       LET r == CASE f = "printfmt" -> Vprintfmt(i, k)
                  [] f = "strfmt" -> Vstrfmt(i, k)
                  [] f = "v8" -> VstrfmtV8(i, k)
                  [] f = "vprintf" -> Vprintf(i, k)
                  [] f = "printk" -> Vprintk(i, k)
                  [] f = "printk3" -> Printk3(i, k)
                  [] OTHER -> VprintfMyos(i, k)
       IN IF r.stop THEN r.out ELSE r.out \o Loop(f, r.next, r.k)
Output == IF formatter = "vsprintf" THEN Vsprintf ELSE Loop(formatter, 1, 1)

Init == formatter \in Formatters /\ args \in ArgLists /\ buf_size \in BufSizes /\ fmt = <<>>
Grow == /\ Len(fmt) < LengthMax
        /\ \E c \in Alphabet[formatter] : fmt' = Append(fmt, c)
        /\ UNCHANGED <<formatter, args, buf_size>>
Next == Grow
Spec == Init /\ [][Next]_vars

-----------------------------------------------------------------------------
(* What a format means: each plain conversion shows the next argument.  A  *)
(* format with anything else in it has no common meaning ("!").            *)
Decimal(f) ==
  LET v == (IF f < 0 THEN 5 - f ELSE f + 5) \div 10
      d == Digits(v % 10000, 10)
  IN If(f < 0, <<"-">>) \o Digits(v \div 10000, 10) \o <<".">>
       \o [j \in 1..4 - Len(d) |-> "0"] \o d
Shown(c, a) ==
  LET v == ToInt(a.n)
  IN CASE c = "d" -> IF v < 0 /\ formatter = "myos" THEN <<"!">>
                     ELSE If(v < 0, <<"-">>) \o Digits(IF v < 0 THEN -v ELSE v, 10)
       [] c \in {"u", "x"} -> IF (a.n < 0 /\ formatter \in {"strfmt", "v8"}) \/ (c = "u" /\ formatter = "myos")
                              THEN <<"!">> ELSE Digits(Unsigned(v), IF c = "u" THEN 10 ELSE 16)
       [] c = "f" -> IF formatter \in {"strfmt", "v8"} THEN Decimal(a.n) ELSE <<"!">>
       [] c = "c" -> <<a.c>>
       [] c = "s" -> a.s
       [] OTHER -> <<"!">>
RECURSIVE Meaning(_, _)
Meaning(i, k) ==
  CASE i > Len(fmt) -> <<>>
    [] i <= Len(fmt) /\ fmt[i] \notin {"%", "ESC"} -> <<fmt[i]>> \o Meaning(i + 1, k)
    [] OTHER ->
       CASE At(i) = "%" /\ At(i + 1) = "%" /\ formatter # "printfmt" -> <<"%">> \o Meaning(i + 2, k)
         [] At(i) = "%" /\ k <= Len(args) -> Shown(At(i + 1), args[k]) \o Meaning(i + 2, k + 1)
         [] OTHER -> <<"!">>

(* FormatsRight: every formatter shows the arguments of a plain format in  *)
(* order, each number in the digits that read back as it, the text between *)
(* them as it is; microkernel3's printf shows, of every format whatever,   *)
(* the same text as the kernel's printk up to where its buffer ends, and   *)
(* never fills more than the buffer.                                       *)
FormatsRight ==
  LET meaning == Meaning(1, 1)
  IN IF formatter = "vsprintf"
     THEN /\ Len(Output) <= buf_size
          /\ IsPrefix(Front(Output), Loop("printk3", 1, 1))
     ELSE "!" \notin ToSet(meaning) => Output = meaning
=============================================================================
