------------------------------ MODULE EnaLexer ------------------------------
(***************************************************************************)
(* The lexer of ena (tiny-script-interpreter/src/lexer.c), character by    *)
(* character, since pushing back is counting characters.  A character      *)
(* stands for its class: "a" for letters and _, "0" for digits, "n" for the*)
(* newline, "q" for the quote, "b" for the backslash.  Keywords are words. *)
(***************************************************************************)
EXTENDS Naturals, Sequences

CONSTANTS
  Chars,
  LengthMax    \* characters of a script, for TLC

VARIABLE script

(* ena_get_next_char: "" at the end, without going on. *)
CharAt(pos) == IF pos < Len(script) THEN script[pos + 1] ELSE ""

Token(type, start, len, next) == [type |-> type, start |-> start, len |-> len, next |-> next]

(* The first position from pos on that P does not hold for. *)
EndOf(pos, P(_)) ==
  CHOOSE e \in pos..Len(script) :
    /\ \A i \in pos..(e - 1) : P(i)
    /\ e < Len(script) => ~P(e)

(* fetch_next_char goes back by one even if there was nothing to read. *)
PosAfterFetch(pos) == IF pos < Len(script) THEN pos ELSE pos - 1

Operators == [c \in {"=", "+", "<"} |->
                CASE c = "=" -> <<"EQ", "DOUBLE_EQ">>
                  [] c = "+" -> <<"PLUS", "ADD_ASSIGN">>
                  [] c = "<" -> <<"LT", "LTE">>]
OperatorToken(c, start) ==
  IF CharAt(start + 1) = "=" THEN Token(Operators[c][2], start, 2, start + 2)
  ELSE Token(Operators[c][1], start, 1, PosAfterFetch(start + 1))

(* A word that the script ends with keeps the type UNKNOWN. *)
WordToken(start) ==
  LET e == EndOf(start, LAMBDA i : CharAt(i) \in {"a", "0"})
  IN Token(IF e = Len(script) THEN "UNKNOWN" ELSE "ID", start, e - start, e)
IntToken(start) ==
  LET e == EndOf(start, LAMBDA i : CharAt(i) = "0")
  IN Token("INT_LIT", start, e - start, e)

\* Mutant: the closing quote is not counted.
StringTokenShort(start) ==
  LET e == EndOf(start + 1, LAMBDA i : ~(CharAt(i) = "q"
                                         /\ (i > start + 1 => CharAt(i - 1) # "b")))
  IN IF e = Len(script) THEN Token("STRING_LIT", start, e - start, e)
     ELSE Token("STRING_LIT", start, e - start, e + 1)
(* A string goes up to a quote with no backslash before it. *)
StringToken(start) ==
  LET e == EndOf(start + 1, LAMBDA i : ~(CharAt(i) = "q"
                                         /\ (i > start + 1 => CharAt(i - 1) # "b")))
  IN IF e = Len(script) THEN Token("STRING_LIT", start, e - start, e)
     ELSE Token("STRING_LIT", start, e + 1 - start, e + 1)

(* Where a block comment ends, from pos with the character before it and   *)
(* the depth; or the end of the script.                                    *)
RECURSIVE CommentEnd(_, _, _)
CommentEnd(pos, prevc, depth) ==
  IF pos = Len(script) THEN [closed |-> FALSE, next |-> pos]
  ELSE LET c == CharAt(pos)
           opened == IF prevc = "/" /\ c = "*" THEN depth + 1 ELSE depth
       IN IF prevc = "*" /\ c = "/"
          THEN IF opened = 1 THEN [closed |-> TRUE, next |-> pos + 1]
               ELSE CommentEnd(pos + 1, c, opened - 1)
          ELSE CommentEnd(pos + 1, c, opened)

(* ena_get_next_token.  In a comment that the script ends in, the end is a *)
(* token of one character.                                                 *)
RECURSIVE GetNextToken(_)
SlashToken(start) ==
  CASE CharAt(start + 1) = "*" ->
         LET e == CommentEnd(start + 1, "/", 0)
         IN IF e.closed THEN GetNextToken(e.next) ELSE Token("EOF", start, 1, e.next)
    [] CharAt(start + 1) = "/" ->
         LET e == EndOf(start + 1, LAMBDA i : CharAt(i) # "n")
         IN IF e < Len(script) THEN GetNextToken(e + 1) ELSE Token("EOF", start, 1, e)
    [] CharAt(start + 1) = "=" -> Token("DIV_ASSIGN", start, 2, start + 2)
    [] OTHER -> Token("SLASH", start, 1, PosAfterFetch(start + 1))

GetNextToken(pos) ==
  LET c == CharAt(pos)
  IN CASE c = "" -> Token("EOF", pos, 0, pos)
       [] c = "a" -> WordToken(pos)
       [] c = "0" -> IntToken(pos)
       [] c = "q" -> StringToken(pos)
       [] c \in DOMAIN Operators -> OperatorToken(c, pos)
       [] c = "/" -> SlashToken(pos)
       [] c = "*" -> Token("ASTERISK", pos, 1, PosAfterFetch(pos + 1))
       [] c = ";" -> Token("SEMICOLON", pos, 1, pos + 1)
       [] c \in {"n", " "} -> GetNextToken(pos + 1)
       [] OTHER -> Token("ERROR", pos, 0, pos)

(* ena_pushback_token, by the length of the token. *)
PushbackToken(t) == t.next - t.len

-----------------------------------------------------------------------------
Init == script = <<>>
Next == \E c \in Chars : Len(script) < LengthMax /\ script' = Append(script, c)
Spec == Init /\ [][Next]_script

-----------------------------------------------------------------------------
(* Looking at the next token and reading it later is reading it: a token   *)
(* that is pushed back comes again, the same, and reading goes on behind   *)
(* it until the script ends.  For scripts that end in a newline: an        *)
(* operator at the very end is read over and over.                         *)
RECURSIVE FetchedAgain(_, _)
FetchedAgain(pos, left) ==
  LET t == GetNextToken(pos)
      again == GetNextToken(PushbackToken(t))
  IN /\ left > 0
     /\ again.type = t.type /\ again.next = t.next
     /\ t.type \notin {"EOF", "ERROR"} => again = t /\ t.next > pos /\ FetchedAgain(t.next, left - 1)
FetchIsStable ==
  script # <<>> /\ script[Len(script)] = "n" => FetchedAgain(0, Len(script) + 1)
=============================================================================
