------------------------------- MODULE EnaVm --------------------------------
(***************************************************************************)
(* The tree-walking evaluator of the ena script language and its garbage   *)
(* collector (tiny-script-interpreter/src: eval.c, gc.c, api.c,            *)
(* internal.c, list.c, map.c).  The script is any script: at each step the *)
(* evaluator may come upon any node whose operands it has.  Names,         *)
(* numbers and strings are left out: a scope, class, list or map holds a   *)
(* set of values, and a lookup may find any of them.                       *)
(*                                                                         *)
(* `stack` is the C stack: an activation for each call_func, while, class  *)
(* body and for ena_eval itself, with the values its C frames hold.  The   *)
(* collector takes all of them for roots, as it does the registers'.       *)
(***************************************************************************)
EXTENDS Naturals, Sequences, FiniteSets, SequencesExt

CONSTANTS
  ENA_MAX_NUM_VALUES,
  ENA_GC_THRESHOLD,
  DepthMax,    \* activations that are nested, for TLC
  EvalMax,     \* calls of ena_eval, for TLC
  NodeMax,     \* nodes of the script that are evaluated, for TLC
  HeldMax      \* values that the frames of an activation hold, for TLC

VARIABLES
  value_pool,  \* object -> [type, ref, cls, vals]
  num_free,
  stack,       \* the C stack
  points,      \* the unwind points: the activation that each one belongs to
  current_scope, current_class, self,
  frames,      \* how many frames there are
  unwinding,   \* what a longjmp to the last unwind point is for, or "no"
  evals, nodes, \* calls of ena_eval, and nodes evaluated
  status       \* "out" of ena_eval, "in", "failed" once, or "crash"

vars == <<value_pool, num_free, stack, points, current_scope, current_class, self, frames,
          unwinding, evals, nodes, status>>

Objects == 1..ENA_MAX_NUM_VALUES
None == 0   \* ENA_UNDEFINED, NULL, and any value that is not an object
Free == [type |-> "free", ref |-> None, cls |-> None, vals |-> {}]
Object(type, ref, cls, vals) == [type |-> type, ref |-> ref, cls |-> cls, vals |-> vals]

-----------------------------------------------------------------------------
(* What mark() goes on to from an object: a function's scope, a scope's    *)
(* parent and variables, a class's methods, an instance's class and        *)
(* properties, what a list or a map holds.  A module is not among the types*)
(* it knows.                                                               *)
\* Mutant: the properties of an instance are not marked.
MarkNextNoProps(o) ==
  CASE o.type = "module" -> {}
    [] o.type = "instance" -> {o.cls}
    [] OTHER -> o.vals \cup {o.ref, o.cls}
MarkNext(o) ==
  CASE o.type = "module" -> {}
    [] OTHER -> o.vals \cup {o.ref, o.cls}

(* The objects that are reached from the roots. *)
Reached(pool, roots, NextOf(_)) ==
  LET Reach[S \in SUBSET Objects] ==
        LET T == S \cup (UNION {NextOf(pool[o]) : o \in S} \ {None})
        IN IF T = S THEN S ELSE Reach[T]
  IN Reach[roots \ {None}]

(* mark_regs and mark_stack: everything the C frames hold. *)
OnStack(st) == UNION {a.held \cup a.args \cup {a.scope, a.recv, a.obj} : a \in Range(st)}

(* The module that ena_register_module registers, its scope, the built-in  *)
(* class and its method: what ena_create_vm and ena_create_module made.    *)
Class == 1
Method == 2
ModuleScope == 3
Module == 4

(* ena_gc: mark from the roots, and sweep.  `extra` are the objects that   *)
(* the allocating function holds.                                          *)
Gc(pool, extra) ==
  LET live == Reached(pool, OnStack(stack) \cup extra
                               \cup {ModuleScope, current_scope, current_class, Class},
                      MarkNext) \cup {Module}
  IN [o \in Objects |-> IF o \in live THEN pool[o] ELSE Free]

CountFree(pool) == Cardinality({o \in Objects : pool[o].type = "free"})

(* ena_alloc_object: the pool after a collection, if one is due, and the   *)
(* first object that is free; num_free counts what sweep freed.            *)
AfterGc(pool, free, extra) == IF free < ENA_GC_THRESHOLD THEN Gc(pool, extra) ELSE pool
NumFreed(pool, after) == CountFree(after) - CountFree(pool)
FirstFree(pool) == CHOOSE o \in Objects :
                     pool[o].type = "free" /\ \A q \in 1..(o - 1) : pool[q].type # "free"

(* Allocates an object for a function that holds `extra`, and goes on with *)
(* Then(pool, object).  Nobody checks for NULL when the pool is full.      *)
AllocObject(obj, extra, Then(_, _)) ==
  LET pool == AfterGc(value_pool, num_free, extra)
      free == num_free + NumFreed(value_pool, pool)
  IN IF CountFree(pool) = 0
     THEN /\ status' = "crash"
          /\ value_pool' = pool
          /\ num_free' = free
          /\ UNCHANGED <<stack, points, current_scope, current_class, self, frames,
                         unwinding, evals>>
     ELSE LET o == FirstFree(pool)
          IN /\ num_free' = free - 1
             /\ Then([pool EXCEPT ![o] = obj], o)
             /\ UNCHANGED <<evals, status>>

-----------------------------------------------------------------------------
(* The activations.  `scope` is call_func's caller_scope, `obj` what it    *)
(* belongs to (the scope of a call, a class), `recv` self of a call, `args`*)
(* its function and arguments; `held` are temporary values.  `lost` is for *)
(* the property: a call that was made in this one has returned.            *)
Activation(kind, scope, obj, recv, args) ==
  [kind |-> kind, scope |-> scope, obj |-> obj, recv |-> recv, args |-> args, held |-> {},
   lost |-> FALSE]

Top == stack[Len(stack)]
Hold(st, v) == [st EXCEPT ![Len(st)].held = (@ \cup {v}) \ {None}]

(* The values a lookup from `scope` may find (lookup_var). *)
RECURSIVE LookupVar(_, _)
LookupVar(pool, scope) ==
  IF scope = None THEN {}
  ELSE pool[scope].vals \cup LookupVar(pool, pool[scope].ref)

Running == status \in {"in", "failed"} /\ stack # <<>> /\ unwinding = "no"
Script == Running /\ Top.kind # "native"
Room == Cardinality(Top.held) < HeldMax

Init ==
  /\ value_pool = [o \in Objects |->
       CASE o = Class -> Object("class", None, None, {Method})
         [] o = Method -> Object("func", None, None, {})
         [] o = ModuleScope -> Object("scope", None, None, {})
         [] o = Module -> Object("module", ModuleScope, None, {})
         [] OTHER -> Free]
  /\ num_free = ENA_MAX_NUM_VALUES - 4
  /\ stack = <<>>
  /\ points = <<>>
  /\ current_scope = None
  /\ current_class = None
  /\ self = None
  /\ frames = 0
  /\ unwinding = "no"
  /\ evals = 0
  /\ nodes = 0
  /\ status = "out"

(* ena_eval: it pushes an unwind point and a frame, which it never pops.   *)
EnaEval ==
  /\ status \in {"out", "failed"} /\ stack = <<>>
  /\ evals < EvalMax
  /\ evals' = evals + 1
  /\ stack' = <<Activation("eval", None, None, None, {})>>
  /\ points' = Append(points, 1)
  /\ frames' = frames + 1
  /\ current_scope' = value_pool[Module].ref
  /\ status' = IF status = "out" THEN "in" ELSE status
  /\ UNCHANGED <<value_pool, num_free, current_class, self, unwinding>>

(* The script ends, and a statement does: its temporary values are gone.   *)
EvalProgram ==
  /\ Running /\ Len(stack) = 1
  /\ stack' = <<>>
  /\ status' = IF status = "in" THEN "out" ELSE status
  /\ UNCHANGED <<value_pool, num_free, points, current_scope, current_class, self, frames,
                 unwinding, evals>>

EvalStmts ==
  /\ Script /\ Top.held # {}
  /\ stack' = [stack EXCEPT ![Len(stack)].held = {}]
  /\ UNCHANGED <<value_pool, num_free, points, current_scope, current_class, self, frames,
                 unwinding, evals, status>>

(* ENA_PANIC: the longjmp to ena_eval, which returns false; the unwind     *)
(* points, the frames, the class and self stay what they are.              *)
Panic ==
  /\ Running
  /\ stack' = <<>>
  /\ status' = "failed"
  /\ UNCHANGED <<value_pool, num_free, points, current_scope, current_class, self, frames,
                 unwinding, evals>>

-----------------------------------------------------------------------------
(* A literal, or the copy that ID makes of an int: an int or a string is   *)
(* like a list that nothing is put into.                                   *)
EvalLiteral ==
  /\ Running /\ Room
  /\ AllocObject(Object("list", None, None, {}), {},
       LAMBDA pool, o : /\ value_pool' = pool
                        /\ stack' = Hold(stack, o)
                        /\ UNCHANGED <<points, current_scope, current_class, self, frames,
                                       unwinding>>)

(* ID and PROP: any variable of the scopes, self, or a property. *)
EvalID ==
  /\ Script /\ Room
  /\ \E v \in LookupVar(value_pool, current_scope) \cup {self}
               \cup UNION {value_pool[value_pool[i].ref].vals :
                             i \in {h \in Top.held : value_pool[h].type = "instance"}} :
       /\ v \notin Top.held \cup {None}
       /\ stack' = Hold(stack, v)
  /\ UNCHANGED <<value_pool, num_free, points, current_scope, current_class, self, frames,
                 unwinding, evals, status>>

(* VAR, OP_ASSIGN to a variable (which replaces a value), to a property of *)
(* self, to an element or an entry, and append() and a list literal.       *)
Targets ==
  {current_scope}
    \cup (IF self # None /\ value_pool[self].type = "instance"
          THEN {value_pool[self].ref} ELSE {})
    \cup {o \in Top.held : value_pool[o].type = "list"}
OpAssign ==
  /\ Script
  /\ \E v \in Top.held, o \in Targets, old \in {None} \cup value_pool[current_scope].vals :
       /\ old # None => o = current_scope
       /\ v \notin value_pool[o].vals
       /\ value_pool' = [value_pool EXCEPT ![o].vals = (@ \ {old}) \cup {v}]
  /\ UNCHANGED <<num_free, stack, points, current_scope, current_class, self, frames,
                 unwinding, evals, status>>

(* FUNC: a closure over the current scope, a method while there is a class.*)
EvalFunc ==
  /\ Script
  /\ LET table == IF current_class # None THEN current_class ELSE current_scope
     IN AllocObject(Object("func", current_scope, None, {}), {},
          LAMBDA pool, o : /\ value_pool' = [pool EXCEPT ![table].vals = @ \cup {o}]
                           /\ UNCHANGED <<stack, points, current_scope, current_class, self,
                                          frames, unwinding>>)

(* CLASS: the class is current while its body is evaluated, then none is,  *)
(* and it is defined as a variable.                                        *)
EvalClass ==
  /\ Script /\ Len(stack) < DepthMax
  /\ AllocObject(Object("class", None, None, {}), {},
       LAMBDA pool, o : /\ value_pool' = pool
                        /\ current_class' = o
                        /\ stack' = Append(stack, Activation("class", None, o, None, {}))
                        /\ UNCHANGED <<points, current_scope, self, frames, unwinding>>)

EvalClassEnd ==
  /\ Running /\ Top.kind = "class"
  /\ current_class' = None
  /\ value_pool' = [value_pool EXCEPT ![current_scope].vals = @ \cup {Top.obj}]
  /\ stack' = Front(stack)
  /\ UNCHANGED <<num_free, points, current_scope, self, frames, unwinding, evals, status>>

-----------------------------------------------------------------------------
(* call_func: a scope for the arguments, an unwind point and a frame; a    *)
(* native function runs in the caller's scope and leaves self alone.       *)
CallFunc(func, recv, args) ==
  /\ Len(stack) < DepthMax
  /\ AllocObject(Object("scope", value_pool[func].ref, None,
                        IF func = Method THEN {} ELSE args), {func, recv} \cup args,
       LAMBDA pool, o :
         LET native == func = Method
         IN /\ value_pool' = pool
            /\ stack' = Append(stack, Activation(IF native THEN "native" ELSE "call",
                                                 current_scope, o, recv, args \cup {func}))
            /\ points' = Append(points, Len(stack) + 1)
            /\ frames' = frames + 1
            /\ current_scope' = IF native THEN current_scope ELSE o
            /\ self' = IF native THEN self ELSE recv
            /\ UNCHANGED <<current_class, unwinding>>)

(* CALL of a function, of a method of an instance (invoke_method), and an  *)
(* operator, which is a native method of the built-in class.  What the     *)
(* frames hold by then are the arguments.                                  *)
EvalCall ==
  /\ Script
  /\ LET args == Top.held IN
       \/ CallFunc(Method, None, args)
       \/ \E f \in LookupVar(value_pool, current_scope) :
            value_pool[f].type = "func" /\ CallFunc(f, None, args)
       \/ \E i \in {h \in Top.held : value_pool[h].type = "instance"} :
            \E m \in value_pool[value_pool[i].cls].vals : CallFunc(m, i, args)

(* CALL of a class (instantiate), in two steps because it allocates twice: *)
(* the scope of the properties, which it holds, and the instance.          *)
Instantiate ==
  /\ Script /\ Room
  /\ \E c \in LookupVar(value_pool, current_scope) :
       /\ value_pool[c].type = "class"
       /\ AllocObject(Object("scope", None, None, {}), {c},
            LAMBDA pool, o :
              /\ value_pool' = pool
              /\ stack' = [stack EXCEPT ![Len(stack)].held = @ \cup {c, o}]
              /\ UNCHANGED <<points, current_scope, current_class, self, frames, unwinding>>)

InstantiateEnd ==
  /\ Script
  /\ \E c, p \in Top.held :
       /\ value_pool[c].type = "class" /\ value_pool[p].type = "scope"
       /\ AllocObject(Object("instance", p, c, {}), {},
            LAMBDA pool, o :
              /\ value_pool' = pool
              /\ stack' = [stack EXCEPT ![Len(stack)].held = (@ \cup {o}) \ {c, p}]
              /\ UNCHANGED <<points, current_scope, current_class, self, frames, unwinding>>)

(* The innermost call of a stack, or 0. *)
InnerCall(st) ==
  LET calls == {i \in DOMAIN st : st[i].kind = "call"}
  IN  IF calls = {} THEN 0 ELSE CHOOSE i \in calls : \A j \in calls : j <= i
Returned(st) ==
  [i \in DOMAIN st |-> IF i = InnerCall(st) THEN [st[i] EXCEPT !.lost = st[i].recv # None]
                       ELSE st[i]]

(* The end of call_func, with what it returns; the unwind point is gone,   *)
(* and self is undefined, not the caller's.                                *)
\* Mutant: the caller's scope is not restored.
CallReturnScope(st, ret) ==
  /\ self' = None
  /\ frames' = frames - 1
  /\ points' = Front(points)
  /\ stack' = Hold(Returned(Front(st)), ret)
  /\ UNCHANGED current_scope
CallReturn(st, ret) ==
  /\ current_scope' = Last(st).scope
  /\ self' = None
  /\ frames' = frames - 1
  /\ points' = Front(points)
  /\ stack' = Hold(Returned(Front(st)), ret)

CallFuncEnd ==
  /\ Running /\ Top.kind \in {"call", "native"}
  /\ \E ret \in {None} \cup (IF Top.kind = "native" THEN Top.held \cup Top.args ELSE {}) :
       CallReturn(stack, ret)
  /\ UNCHANGED <<value_pool, num_free, current_class, unwinding, evals, status>>

(* WHILE: an unwind point, and a body that is evaluated any number of times*)
EvalWhile ==
  /\ Script /\ Len(stack) < DepthMax
  /\ stack' = Append(stack, Activation("while", None, None, None, {}))
  /\ points' = Append(points, Len(stack) + 1)
  /\ UNCHANGED <<value_pool, num_free, current_scope, current_class, self, frames,
                 unwinding, evals, status>>

EvalWhileEnd ==
  /\ Running /\ Top.kind = "while"
  /\ stack' = Front(stack)
  /\ points' = Front(points)
  /\ UNCHANGED <<value_pool, num_free, current_scope, current_class, self, frames,
                 unwinding, evals, status>>

(* RETURN, BREAK and CONTINUE: a longjmp to the last unwind point.  The    *)
(* value goes with it; RETURN leaves its scope on the way.                 *)
EvalReturn ==
  /\ Script
  /\ \E v \in Top.held \cup {None} :
       stack' = [i \in 1..Last(points) |->
                   IF i = Last(points) THEN [stack[i] EXCEPT !.held = @ \cup ({v} \ {None})]
                   ELSE stack[i]]
  /\ current_scope' = value_pool[current_scope].ref
  /\ unwinding' = "return"
  /\ UNCHANGED <<value_pool, num_free, points, current_class, self, frames, evals, status>>

EvalBreak(type) ==
  /\ Script
  /\ stack' = SubSeq(stack, 1, Last(points))
  /\ unwinding' = type
  /\ UNCHANGED <<value_pool, num_free, points, current_scope, current_class, self, frames,
                 evals, status>>

(* Where setjmp returns again: call_func returns, with the value if it is a*)
(* return; ena_eval fails.                                                 *)
CaughtInCall ==
  /\ unwinding # "no" /\ Top.kind = "call"
  /\ unwinding' = "no"
  /\ \E ret \in IF unwinding = "return" THEN Top.held \cup {None} ELSE {None} :
       CallReturn(stack, ret)
  /\ UNCHANGED <<value_pool, num_free, current_class, evals, status>>

CaughtInEval ==
  /\ unwinding # "no" /\ Top.kind = "eval"
  /\ unwinding' = "no"
  /\ stack' = <<>>
  /\ status' = "failed"
  /\ UNCHANGED <<value_pool, num_free, points, current_scope, current_class, self, frames, evals>>

(* WHILE ends at a break and goes on at a continue.  A return it passes on *)
(* to the last unwind point, which is its own: for ever.                   *)
CaughtInWhile ==
  /\ unwinding # "no" /\ Top.kind = "while"
  /\ CASE unwinding = "break" -> unwinding' = "no" /\ stack' = Front(stack)
                                 /\ points' = Front(points)
       [] unwinding = "continue" -> unwinding' = "no" /\ UNCHANGED <<stack, points>>
       [] unwinding = "return" -> UNCHANGED <<unwinding, stack, points>>
  /\ UNCHANGED <<value_pool, num_free, current_scope, current_class, self, frames, evals, status>>

Caught == CaughtInCall \/ CaughtInEval \/ CaughtInWhile

(* eval_node, and what follows without another node. *)
EvalNode ==
  \/ EvalLiteral \/ EvalID \/ OpAssign \/ EvalFunc \/ EvalClass \/ EvalCall \/ Instantiate
  \/ EvalWhile \/ EvalReturn \/ EvalBreak("break") \/ EvalBreak("continue")
Follow ==
  \/ EnaEval \/ EvalProgram \/ EvalStmts \/ Panic \/ EvalClassEnd \/ InstantiateEnd
  \/ CallFuncEnd \/ EvalWhileEnd \/ Caught

Next ==
  \/ nodes < NodeMax /\ EvalNode /\ nodes' = nodes + 1
  \/ Follow /\ UNCHANGED nodes

Spec == Init /\ [][Next]_vars

-----------------------------------------------------------------------------
(* No object that the script can still come to is collected: whatever the  *)
(* C frames, the current scope, self and the module lead to is in use; and *)
(* num_free says how many objects are not.  Until a first panic: the self  *)
(* that it leaves behind is not among the roots.                           *)
LiveNotSwept ==
  LET live == (OnStack(stack) \cup {Module, current_scope, current_class, self}) \ {None}
  IN /\ status # "failed" =>
          \A o \in Reached(value_pool, live, LAMBDA o : o.vals \cup {o.ref, o.cls}) :
             value_pool[o].type # "free"
     /\ num_free = CountFree(value_pool)

(* The evaluator's registers agree with the C stack, however calls, loops, *)
(* jumps and panics nest: the last unwind point is that of the innermost   *)
(* call or loop, and the current scope that of the innermost call.  Until  *)
(* a first panic, self is the receiver of the innermost call, up to the    *)
(* return of the first call that it makes, and undefined from there on     *)
(* (eval.c:80).                                                            *)
ContextExact ==
  status # "crash" /\ stack # <<>> =>
    LET Owners == {i \in DOMAIN stack : stack[i].kind \in {"eval", "call", "native", "while"}}
        inner == InnerCall(stack)
    IN /\ \A i \in Owners : points[Len(points) - Cardinality({j \in Owners : j > i})] = i
       /\ unwinding = "no" =>
            current_scope = IF inner = 0 THEN ModuleScope ELSE stack[inner].obj
       /\ status # "failed" =>
            self = IF inner = 0 THEN None
                   ELSE IF stack[inner].lost THEN None ELSE stack[inner].recv
       /\ frames >= 1 + Cardinality({i \in DOMAIN stack : stack[i].kind \in {"call", "native"}})
=============================================================================
