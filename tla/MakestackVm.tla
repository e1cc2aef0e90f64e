---------------------------- MODULE MakestackVm -----------------------------
(***************************************************************************)
(* The run-time of the apps MakeStack translates to C++                    *)
(* (makestack/firmware: include/makestack/vm.h, vm.cpp, port.cpp):         *)
(* reference-counted values.  An app is the sequence of VM_* expressions   *)
(* its translation evaluates; temps are the Values alive in it, last one   *)
(* first destroyed.  A lambda runs in the scope it was made in, which for  *)
(* every lambda is the globals, so one environment holds all variables.    *)
(***************************************************************************)
EXTENDS Integers, Sequences, FiniteSets, SequencesExt

CONSTANTS
  InnerNum,    \* ValueInners, for TLC
  Ids,         \* names of variables
  Props,       \* properties of the device object
  TempMax,     \* temporaries at a time, for TLC
  CallMax      \* depth of calls, for TLC

VARIABLES
  inners,   \* ValueInner: type, ref_count, members of an object (no other value)
  vars_,    \* the globals' vars
  temps,    \* Values on the C++ stack
  frames,   \* calls: how many temps the caller had, and the arguments
  onready,  \* onready_callback
  state     \* "setup", "run", "done", "panic"

vars == <<inners, vars_, temps, frames, onready, state>>

Inners == 1..InnerNum
None == 0
Freed == [type |-> "Freed", ref_count |-> 0, members |-> [p \in Props |-> None]]
Inner(type) ==
  [type |-> type, ref_count |-> 1, members |-> [p \in Props |-> None]]
Fresh(h) == CHOOSE i \in Inners : h[i].type = "Freed" /\ \A j \in Inners : h[j].type = "Freed" => i <= j
Room(h) == \E i \in Inners : h[i].type = "Freed"

(* ref_count++ of the copy constructor, and Value::deref.  An object's     *)
(* members keep their references when it is freed.                         *)
Ref(h, i) == [h EXCEPT ![i].ref_count = @ + 1]
Deref(h, i) ==
  IF i = None THEN h
  ELSE IF h[i].ref_count = 1 THEN [h EXCEPT ![i] = Freed]
  ELSE [h EXCEPT ![i].ref_count = @ - 1]
DerefAll(h, s) == FoldLeft(Deref, h, s)

(* run_app before app_setup: the device object with its native functions,  *)
(* each inserted by Value::set and its temporary gone.                     *)
DeviceObject == 1
MemberOf(p) == 1 + CHOOSE k \in 1..Cardinality(Props) : SetToSeq(Props)[k] = p
Init ==
  /\ inners = [i \in Inners |->
                 IF i = DeviceObject
                 THEN [Inner("Object") EXCEPT !.members = [p \in Props |-> MemberOf(p)]]
                 ELSE IF \E p \in Props : MemberOf(p) = i THEN Inner("Function")
                 ELSE Freed]
  /\ vars_ = [id \in Ids |-> None]
  /\ temps = <<DeviceObject>> /\ frames = <<>> /\ onready = None
  /\ state = "setup"

-----------------------------------------------------------------------------
Evaluating == state = "run" /\ frames # <<>>
(* The temporaries of the function that runs. *)
Own == Len(temps) - Last(frames).base
Top == Last(temps)
Second == temps[Len(temps) - 1]
Push(t) == Len(temps) < TempMax /\ temps' = Append(temps, t)

(* VM_INT, VM_STR, VM_FUNC and the like. *)
Literal ==
  /\ Evaluating /\ Room(inners)
  /\ \E type \in {"Undefined", "Bool", "Int", "String", "Function"} :
       inners' = [inners EXCEPT ![Fresh(inners)] = Inner(type)]
  /\ Push(Fresh(inners))
  /\ UNCHANGED <<vars_, frames, onready, state>>
(* VM_GET: Scope::get copies the variable's value. *)
ScopeGet(id) ==
  /\ Evaluating
  /\ IF vars_[id] = None
     THEN state' = "panic" /\ UNCHANGED <<inners, temps>>
     ELSE Push(vars_[id]) /\ inners' = Ref(inners, vars_[id]) /\ UNCHANGED state
  /\ UNCHANGED <<vars_, frames, onready>>
(* VM_SET: the old value of the variable loses a reference; the value      *)
(* stays as that of the expression.                                        *)
Assigned(h, id, i) == Deref(Ref(h, i), vars_[id])
ScopeSet(id) ==
  /\ Evaluating /\ Own > 0
  /\ vars_' = [vars_ EXCEPT ![id] = Top]
  /\ inners' = Assigned(inners, id, Top)
  /\ UNCHANGED <<temps, frames, onready, state>>
\* Mutant: the reference of the caller's copy is not counted.
ValueGetUncounted(p) ==
  /\ Evaluating /\ Own > 0
  /\ inners[Top].type = "Object"
  /\ temps' = [temps EXCEPT ![Len(temps)] = inners[Top].members[p]]
  /\ inners' = Deref(inners, Top)
  /\ UNCHANGED <<vars_, frames, onready, state>>
(* VM_MGET: Value::get with a copy of the object, which goes; undefined if *)
(* it is not an object.                                                    *)
ValueGet(p) ==
  /\ Evaluating /\ Own > 0
  /\ IF inners[Top].type = "Object"
     THEN /\ temps' = [temps EXCEPT ![Len(temps)] = inners[Top].members[p]]
          /\ inners' = Deref(Ref(inners, inners[Top].members[p]), Top)
     ELSE LET h == Deref(inners, Top)
          IN /\ Room(h)
             /\ temps' = [temps EXCEPT ![Len(temps)] = Fresh(h)]
             /\ inners' = [h EXCEPT ![Fresh(h)] = Inner("Undefined")]
  /\ UNCHANGED <<vars_, frames, onready, state>>

(* The binary operators: a new value, and both operands go.  + joins if    *)
(* one is a string and toString of the other can; == wants equal types;    *)
(* the others take integers.  Anything else panics.                        *)
Result(lhs, rhs) ==
  (IF "String" \in {lhs, rhs} /\ {lhs, rhs} \subseteq {"Int", "Bool", "String"} THEN {"String"} ELSE {})
  \cup (IF lhs = "Int" /\ rhs = "Int" THEN {"Int"} ELSE {})
Compared(lhs, rhs) == lhs = rhs /\ lhs \in {"Int", "String", "Bool", "Undefined"}
Operate ==
  /\ Evaluating /\ Own > 1
  /\ LET lhs == inners[Second].type
         rhs == inners[Top].type
         h == Deref(Deref(inners, Top), Second)
         types == Result(lhs, rhs) \cup (IF Compared(lhs, rhs) THEN {"Bool"} ELSE {})
     IN \/ \E type \in types :
             /\ Room(h)
             /\ inners' = [h EXCEPT ![Fresh(h)] = Inner(type)]
             /\ temps' = Append(SubSeq(temps, 1, Len(temps) - 2), Fresh(h))
             /\ UNCHANGED state
        \/ {lhs, rhs} # {"Int"} /\ state' = "panic" /\ UNCHANGED <<inners, temps>>
  /\ UNCHANGED <<vars_, frames, onready>>
(* operator+= and the like: the value is changed where it is, for every    *)
(* variable that shares it; the right-hand side goes.                      *)
SelfOperate ==
  /\ Evaluating /\ Own > 1
  /\ IF \/ inners[Second].type = "Int" /\ inners[Top].type = "Int"
        \/ inners[Second].type = "String" /\ inners[Top].type \in {"Int", "Bool", "String"}
     THEN inners' = Deref(inners, Top) /\ temps' = Front(temps) /\ UNCHANGED state
     ELSE state' = "panic" /\ UNCHANGED <<inners, temps>>
  /\ UNCHANGED <<vars_, frames, onready>>
(* The end of a full expression. *)
Discard ==
  /\ Evaluating /\ Own > 0
  /\ temps' = Front(temps) /\ inners' = Deref(inners, Top)
  /\ UNCHANGED <<vars_, frames, onready, state>>

-----------------------------------------------------------------------------
(* VM_CALL and Context::call with one argument, which the parameter takes  *)
(* a copy of.  A value that is no function is an error nobody checks: the  *)
(* device restarts.                                                        *)
Call(id) ==
  /\ Evaluating /\ Own > 1 /\ Len(frames) < CallMax
  /\ IF inners[Second].type = "Function"
     THEN /\ frames' = Append(frames, [base |-> Len(temps)])
          /\ vars_' = [vars_ EXCEPT ![id] = Top]
          /\ inners' = Assigned(inners, id, Top)
          /\ UNCHANGED <<temps, onready, state>>
     ELSE state' = "panic" /\ UNCHANGED <<inners, vars_, temps, frames, onready>>
(* A return: what the function still had on the stack goes, then callee and *)
(* argument of the caller; the value returned remains.                     *)
Return ==
  /\ Evaluating /\ Own > 0 /\ Len(frames) > 1
  /\ LET base == Last(frames).base
     IN /\ inners' = DerefAll(inners, SubSeq(temps, base - 1, Len(temps) - 1))
        /\ temps' = Append(SubSeq(temps, 1, base - 2), Top)
  /\ frames' = Front(frames)
  /\ UNCHANGED <<vars_, onready, state>>

(* app_setup: __onReady(lambda), by api_onready.                           *)
AppSetup ==
  /\ state = "setup" /\ Room(inners)
  /\ inners' = [inners EXCEPT ![Fresh(inners)] = Inner("Function")]
  /\ onready' = Fresh(inners)
  /\ state' = "ready"
  /\ UNCHANGED <<vars_, temps, frames>>
(* run_app: the callback, with a copy of the device object for argument.   *)
RunApp(id) ==
  /\ state = "ready"
  /\ temps' = temps \o <<onready, DeviceObject>>
  /\ frames' = <<[base |-> 3]>>
  /\ vars_' = [vars_ EXCEPT ![id] = DeviceObject]
  /\ inners' = Ref(Ref(Assigned(inners, id, DeviceObject), DeviceObject), onready)
  /\ state' = "run"
  /\ UNCHANGED onready
AppReturns ==
  /\ Evaluating /\ Len(frames) = 1
  /\ inners' = DerefAll(inners, temps)
  /\ temps' = <<>> /\ frames' = <<>> /\ state' = "done"
  /\ UNCHANGED <<vars_, onready>>

Next ==
  \/ Literal \/ Operate \/ SelfOperate \/ Discard \/ Return \/ AppSetup \/ AppReturns
  \/ \E id \in Ids : ScopeGet(id) \/ ScopeSet(id) \/ Call(id) \/ RunApp(id)
  \/ \E p \in Props : ValueGet(p)

Spec == Init /\ [][Next]_vars

-----------------------------------------------------------------------------
Holders(i) ==
  Cardinality({k \in DOMAIN temps : temps[k] = i})
  + Cardinality({id \in Ids : vars_[id] = i})
  + Cardinality({<<o, p>> \in Inners \X Props : inners[o].members[p] = i})
  + (IF onready = i THEN 1 ELSE 0)

(* Through any sequence of expressions the app's values are counted        *)
(* exactly: none that a variable, a temporary, the device object or the    *)
(* callback refers to is freed, and none is left without one.  When run_app *)
(* returns and no variable has the device object, it is freed and its      *)
(* members are not.                                                        *)
CountsExact == state # "done" => \A i \in Inners : inners[i].ref_count = Holders(i)
=============================================================================
