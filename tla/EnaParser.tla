----------------------------- MODULE EnaParser ------------------------------
(***************************************************************************)
(* The recursive descent parser of ena (tiny-script-interpreter/src:       *)
(* parser.c, and the token operations of lexer.c).  A script is a sequence *)
(* of token types, which grows until the parser refuses it; the token that *)
(* stands for one of a kind (a comparison, an assigning operator) is the   *)
(* kind's first.  ELSE is left out: lexer.c has no keyword for it.         *)
(***************************************************************************)
EXTENDS Naturals, Sequences

CONSTANTS
  TokenSets,   \* the sets of token types that scripts are made of
  LengthMax    \* tokens of a script, for TLC

VARIABLE script

(***************************************************************************)
(* A node: its type, the tokens it stands for before its children and after*)
(* the first of them, and the children.  `paren` says that it was written  *)
(* in parentheses.  Null is NULL.                                          *)
(***************************************************************************)
Node(type, pre, mid, childs) ==
  [type |-> type, pre |-> pre, mid |-> mid, childs |-> childs, paren |-> FALSE]
Null == Node("NULL", <<>>, <<>>, <<>>)

(* What a parse function returns: a node and the position it stopped at, a *)
(* syntax error, or a crash: set_nth_child reads through a NULL child.     *)
Ok(node, pos) == [at |-> "ok", node |-> node, pos |-> pos]
Error(pos) == [at |-> "error", node |-> Null, pos |-> pos]
Crash(pos) == [at |-> "crash", node |-> Null, pos |-> pos]

(* NEXT_TYPE, and CONSUME and EXPECT, which go on behind the token. *)
NextType(pos) == IF pos <= Len(script) THEN script[pos] ELSE "EOF"
Consume(pos, type, Then(_)) == IF NextType(pos) = type THEN Then(pos + 1) ELSE Error(pos)
After(r, Then(_, _)) == IF r.at = "ok" THEN Then(r.node, r.pos) ELSE r
(* set_nth_child of some children. *)
WithChilds(childs, pos, result) ==
  IF \E i \in DOMAIN childs : childs[i] = Null THEN Crash(pos) ELSE result

(* The operators, those that bind least first. *)
\* Mutant: addition and multiplication have changed places.
LevelsSwapped ==
  <<{"DOUBLE_EQ"}, {"OR"}, {"AND"}, {"LT"}, {"ASTERISK"}, {"PLUS", "MINUS"}>>
Levels == <<{"DOUBLE_EQ"}, {"OR"}, {"AND"}, {"LT"}, {"PLUS", "MINUS"}, {"ASTERISK"}>>
Assigning == {"EQ", "ADD_ASSIGN"}

RECURSIVE Expr(_), ExprTail(_, _), BinOp(_, _), BinOpTail(_, _, _), Unary(_, _),
          Primary(_), ExprList(_, _), MapLit(_, _), IdList(_, _), Stmt(_), Stmts(_, _)

(* BIN_OP_LEFT_ASSOC at a level, and the levels below it. *)
BinOp(level, pos) ==
  IF level > Len(Levels) THEN After(Primary(pos), Unary)
  ELSE After(BinOp(level + 1, pos), LAMBDA expr, p : BinOpTail(level, expr, p))
BinOpTail(level, expr, pos) ==
  IF NextType(pos) \notin Levels[level] THEN Ok(expr, pos)
  ELSE After(BinOp(level + 1, pos + 1),
         LAMBDA rhs, p :
           WithChilds(<<expr, rhs>>, p,
             BinOpTail(level, Node("BINOP", <<>>, <<script[pos]>>, <<expr, rhs>>), p)))

(* parse_expr: an assignment to what is before it, whatever that is. *)
Expr(pos) == After(BinOp(1, pos), ExprTail)
ExprTail(expr, pos) ==
  IF NextType(pos) \notin Assigning THEN Ok(expr, pos)
  ELSE After(Expr(pos + 1),
         LAMBDA rhs, p :
           WithChilds(<<expr, rhs>>, p,
             ExprTail(Node("ASSIGN", <<>>, <<script[pos]>>, <<expr, rhs>>), p)))

(* parse_unary: calls, indexes and properties of what is before them. *)
Unary(expr, pos) ==
  CASE NextType(pos) = "LPAREN" ->
         After(ExprList(pos + 1, <<>>), LAMBDA exprs, p :
           Consume(p, "RPAREN", LAMBDA q :
             WithChilds(<<expr>>, q, Unary(Node("CALL", <<>>, <<>>, <<expr, exprs>>), q))))
    [] NextType(pos) = "LBRACKET" ->
         After(Expr(pos + 1), LAMBDA index, p :
           Consume(p, "RBRACKET", LAMBDA q :
             WithChilds(<<expr, index>>, q,
                        Unary(Node("INDEX", <<>>, <<>>, <<expr, index>>), q))))
    [] NextType(pos) = "DOT" ->
         Consume(pos + 1, "ID", LAMBDA p :
           Unary(Node("PROP", <<>>, <<"ID">>, <<expr>>), p))
    [] OTHER -> Ok(expr, pos)

(* parse_primary: a sign takes the next token for a number, whatever it is.*)
Primary(pos) ==
  CASE NextType(pos) = "LPAREN" ->
         After(Expr(pos + 1), LAMBDA expr, p :
           Consume(p, "RPAREN", LAMBDA q : Ok([expr EXCEPT !.paren = TRUE], q)))
    [] NextType(pos) = "NOT" ->
         After(Expr(pos + 1), LAMBDA expr, p : Ok(Node("NOT", <<"NOT">>, <<>>, <<expr>>), p))
    [] NextType(pos) \in {"MINUS", "PLUS"} ->
         IF pos = Len(script) THEN Ok(Node("INT", <<script[pos]>>, <<>>, <<>>), pos + 1)
         ELSE Ok(Node("INT", SubSeq(script, pos, pos + 1), <<>>, <<>>), pos + 2)
    [] NextType(pos) \in {"ID", "INT_LIT"} ->
         Ok(Node("LEAF", <<script[pos]>>, <<>>, <<>>), pos + 1)
    [] NextType(pos) = "LBRACKET" ->
         After(ExprList(pos + 1, <<>>), LAMBDA elems, p :
           Consume(p, "RBRACKET", LAMBDA q : Ok(Node("LIST", <<>>, <<>>, <<elems>>), q)))
    [] NextType(pos) = "LBRACE" -> MapLit(pos + 1, <<>>)
    [] OTHER -> Ok(Null, pos)

(* parse_map_lit, from an entry on. *)
MapLit(pos, entries) ==
  LET end(p) == Consume(p, "RBRACE", LAMBDA q : Ok(Node("MAP", <<>>, <<>>, entries), q))
  IN IF NextType(pos) = "RBRACE" THEN end(pos)
     ELSE After(Expr(pos), LAMBDA key, p :
            IF key = Null THEN end(p)
            ELSE Consume(p, "COLON", LAMBDA q :
                   After(Expr(q), LAMBDA value, r :
                     IF value = Null THEN Error(r)
                     ELSE MapLit(IF NextType(r) = "COMMA" THEN r + 1 ELSE r,
                                 Append(entries,
                                        Node("ENTRY", <<>>, <<>>, <<key, value>>))))))

(* parse_expr_list and parse_id_list: commas may be left out. *)
ExprList(pos, exprs) ==
  After(Expr(pos), LAMBDA expr, p :
    IF expr = Null THEN Ok(Node("EXPR_LIST", <<>>, <<>>, exprs), p)
    ELSE ExprList(IF NextType(p) = "COMMA" THEN p + 1 ELSE p, Append(exprs, expr)))
IdList(pos, ids) ==
  IF NextType(pos) # "ID" THEN Ok(Node("ID_LIST", <<>>, <<>>, ids), pos)
  ELSE IdList(IF NextType(pos + 1) = "COMMA" THEN pos + 2 ELSE pos + 1,
              Append(ids, Node("LEAF", <<"ID">>, <<>>, <<>>)))

-----------------------------------------------------------------------------
(* `{ stmts }`, and what follows it. *)
Block(pos, Then(_, _)) ==
  Consume(pos, "LBRACE", LAMBDA p :
    After(Stmts(p, <<>>), LAMBDA stmts, q :
      Consume(q, "RBRACE", LAMBDA r : Then(stmts, r))))

ClassStmt(pos) ==
  Consume(pos + 1, "ID", LAMBDA p :
    Block(p, LAMBDA stmts, q : Ok(Node("CLASS", <<"CLASS", "ID">>, <<>>, <<stmts>>), q)))

FuncStmt(pos) ==
  Consume(pos + 1, "ID", LAMBDA p : Consume(p, "LPAREN", LAMBDA q :
    After(IdList(q, <<>>), LAMBDA args, r : Consume(r, "RPAREN", LAMBDA s :
      Block(s, LAMBDA stmts, t :
        Ok(Node("FUNC", <<"FUNC", "ID">>, <<>>, <<args, stmts>>), t))))))

VarStmt(pos) ==
  Consume(pos + 1, "ID", LAMBDA p :
    IF NextType(p) = "EQ"
    THEN After(Expr(p + 1), LAMBDA initializer, q : Consume(q, "SEMICOLON", LAMBDA r :
           Ok(Node("VAR", <<"VAR", "ID", "EQ">>, <<>>, <<initializer>>), r)))
    ELSE Consume(p, "SEMICOLON", LAMBDA q : Ok(Node("VAR", <<"VAR", "ID">>, <<>>, <<>>), q)))

ReturnStmt(pos) ==
  After(Expr(pos + 1), LAMBDA expr, p : Consume(p, "SEMICOLON", LAMBDA q :
    Ok(Node("RETURN", <<"RETURN">>, <<>>, IF expr = Null THEN <<>> ELSE <<expr>>), q)))

(* parse_if_stmt without ELSE, and parse_while_stmt. *)
CondStmt(type, pos) ==
  After(Expr(pos + 1), LAMBDA condition, p :
    Block(p, LAMBDA stmts, q :
      WithChilds(<<condition>>, q, Ok(Node(type, <<type>>, <<>>, <<condition, stmts>>), q))))

BreakStmt(type, pos) ==
  Consume(pos + 1, "SEMICOLON", LAMBDA p : Ok(Node(type, <<type>>, <<>>, <<>>), p))

Stmt(pos) ==
  LET type == NextType(pos)
  IN CASE type = "CLASS" -> ClassStmt(pos)
       [] type = "FUNC" -> FuncStmt(pos)
       [] type \in {"IF", "WHILE"} -> CondStmt(type, pos)
       [] type = "VAR" -> VarStmt(pos)
       [] type = "RETURN" -> ReturnStmt(pos)
       [] type \in {"BREAK", "CONTINUE"} -> BreakStmt(type, pos)
       [] type \in {"EOF", "RBRACE"} -> Ok(Null, pos)
       [] OTHER -> After(Expr(pos), LAMBDA expr, p :
                     Consume(p, "SEMICOLON", LAMBDA q : Ok(expr, q)))

(* parse_stmts ends at a statement that is NULL: also at a lone `;`. *)
Stmts(pos, childs) ==
  After(Stmt(pos), LAMBDA stmt, p :
    IF stmt = Null THEN Ok(Node("STMTS", <<>>, <<>>, childs), p)
    ELSE Stmts(p, Append(childs, stmt)))

(* ena_parse: the tree of the script, which may end before the script does.*)
EnaParse == Stmts(1, <<>>)

-----------------------------------------------------------------------------
Init == script = <<>>

(* A script goes on unless what is there already is refused. *)
Extend(token) ==
  /\ Len(script) < LengthMax
  /\ \E S \in TokenSets : \A i \in DOMAIN script : {script[i], token} \subseteq S
  /\ EnaParse.pos > Len(script)
  /\ script' = Append(script, token)

Next == \E token \in UNION TokenSets : Extend(token)

Spec == Init /\ [][Next]_script

-----------------------------------------------------------------------------
(* The tokens a tree stands for, in order, without those that only group. *)
RECURSIVE Yield(_)
Yield(n) ==
  LET rest[i \in 1..(Len(n.childs) + 1)] ==
        IF i > Len(n.childs) THEN IF i = 1 THEN n.mid ELSE <<>>
        ELSE Yield(n.childs[i]) \o (IF i = 1 THEN n.mid ELSE <<>>) \o rest[i + 1]
  IN n.pre \o rest[1]
Grouping == {"LPAREN", "RPAREN", "LBRACKET", "RBRACKET", "LBRACE", "RBRACE", "COMMA", "COLON",
             "SEMICOLON", "DOT"}

(* The levels of the grammar that parser.c:195-200 gives; assignment, which *)
(* it leaves out, is the first.                                            *)
Precedence == <<{"EQ", "ADD_ASSIGN"}, {"OR"}, {"AND"}, {"DOUBLE_EQ"}, {"LT"},
                {"PLUS", "MINUS"}, {"ASTERISK"}>>
Binds(n) == IF n.type \in {"BINOP", "ASSIGN"} /\ ~n.paren
            THEN CHOOSE l \in DOMAIN Precedence : n.mid[1] \in Precedence[l]
            ELSE Len(Precedence) + 1
(* Where the code departs from that grammar: an equality binds less than   *)
(* `and` and `or`, for which it has the wrong operands.                    *)
Departs(n, operand) ==
  /\ n.mid[1] = "DOUBLE_EQ"
  /\ operand.type = "BINOP" /\ ~operand.paren /\ operand.mid[1] \in {"AND", "OR"}

(* The trees are right: a node's operands bind more than it does, the left *)
(* one perhaps as much, unless parentheses say otherwise.  An operand that *)
(* ends in a `not` takes all that follows.                                 *)
RECURSIVE TreeRight(_)
TreeRight(n) ==
  /\ n.type = "BINOP" =>
       LET level == Binds([n EXCEPT !.paren = FALSE])
       IN  /\ Binds(n.childs[1]) >= level \/ Departs(n, n.childs[1])
           /\ Binds(n.childs[2]) > level \/ Departs(n, n.childs[2])
  /\ \A i \in DOMAIN n.childs : TreeRight(n.childs[i])

(* A script that is accepted has a tree that says what the script says: the*)
(* same tokens in the same order, up to where parsing ended, grouped as the*)
(* grammar says, except for an equality beside `and` or `or`.              *)
ParsedRight ==
  LET r == EnaParse
      IsSaid(token) == token \notin Grouping
  IN r.at = "ok" =>
       /\ SelectSeq(Yield(r.node), IsSaid) = SelectSeq(SubSeq(script, 1, r.pos - 1), IsSaid)
       /\ TreeRight(r.node)
=============================================================================
