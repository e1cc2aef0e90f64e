---------------------------- MODULE HandleTable ----------------------------
(***************************************************************************)
(* The handle table of a process (ftl1/kernel/src/process.rs): how insert  *)
(* and insert_two look for free ids.  Both search forward from next_id and *)
(* start again at 1 when they reach the end, in a loop that ends only when *)
(* it finds an id.  A step is one iteration of that loop.  The table is    *)
(* locked meanwhile, so nothing else changes it.  The ids are below        *)
(* NUM_HANDLES_MAX and start at 1: there are NUM_HANDLES_MAX - 1 of them.  *)
(***************************************************************************)
EXTENDS Naturals, FiniteSets

CONSTANT NUM_HANDLES_MAX

VARIABLES
  handles,  \* the ids in use
  next_id,  \* where the search continues
  call,     \* the call that is searching, if any
  error     \* whether the last call returned TooManyHandles

vars == <<handles, next_id, call, error>>

HandleIds == 1..(NUM_HANDLES_MAX - 1)

Init ==
  /\ handles = {}
  /\ next_id = 1
  /\ call = "none"
  /\ error = FALSE

-----------------------------------------------------------------------------
(* insert's check for a full table. *)
Insert ==
  /\ call = "none"
  /\ call' = IF Cardinality(handles) >= NUM_HANDLES_MAX THEN "none" ELSE "insert"
  /\ error' = (Cardinality(handles) >= NUM_HANDLES_MAX)
  /\ UNCHANGED <<handles, next_id>>

(* insert_two has none. *)
InsertTwo ==
  /\ call = "none"
  /\ call' = "insert_two"
  /\ error' = FALSE
  /\ UNCHANGED <<handles, next_id>>

(* Mutant: the search is not started again. *)
InsertWrapStuck ==
  /\ call = "insert"
  /\ next_id >= NUM_HANDLES_MAX
  /\ UNCHANGED vars

(* An iteration of insert's loop that finds next_id past the last id. *)
InsertWrap ==
  /\ call = "insert"
  /\ next_id >= NUM_HANDLES_MAX
  /\ next_id' = 1
  /\ UNCHANGED <<handles, call, error>>

(* One that tries an id. *)
InsertTry ==
  /\ call = "insert"
  /\ next_id < NUM_HANDLES_MAX
  /\ next_id' = next_id + 1
  /\ handles' = handles \cup {next_id}
  /\ call' = IF next_id \in handles THEN call ELSE "none"
  /\ UNCHANGED error

(* Mutant: the search starts again at the second id. *)
InsertTwoWrapAtTwo ==
  /\ call = "insert_two"
  /\ next_id + 1 >= NUM_HANDLES_MAX
  /\ next_id' = 2
  /\ UNCHANGED <<handles, call, error>>

InsertTwoWrap ==
  /\ call = "insert_two"
  /\ next_id + 1 >= NUM_HANDLES_MAX
  /\ next_id' = 1
  /\ UNCHANGED <<handles, call, error>>

(* Mutant: the range of the first id is tested instead of the second's. *)
InsertTwoTryFirst ==
  LET free == {next_id, next_id + 1} \cap handles = {}
  IN  /\ call = "insert_two"
      /\ next_id < NUM_HANDLES_MAX
      /\ next_id' = next_id + 2
      /\ handles' = IF free THEN handles \cup {next_id, next_id + 1} ELSE handles
      /\ call' = IF free THEN "none" ELSE call
      /\ UNCHANGED error

(* Both ids must be free; the search moves on by two. *)
InsertTwoTry ==
  LET free == {next_id, next_id + 1} \cap handles = {}
  IN  /\ call = "insert_two"
      /\ next_id + 1 < NUM_HANDLES_MAX
      /\ next_id' = next_id + 2
      /\ handles' = IF free THEN handles \cup {next_id, next_id + 1} ELSE handles
      /\ call' = IF free THEN "none" ELSE call
      /\ UNCHANGED error

(* take, or close: the id is free again. *)
Take(id) ==
  /\ call = "none"
  /\ id \in handles
  /\ handles' = handles \ {id}
  /\ UNCHANGED <<next_id, call, error>>

CloseAll ==
  /\ call = "none"
  /\ handles' = {}
  /\ UNCHANGED <<next_id, call, error>>

Loop == InsertWrap \/ InsertTry \/ InsertTwoWrap \/ InsertTwoTry

Next == Insert \/ InsertTwo \/ Loop \/ (\E id \in HandleIds : Take(id)) \/ CloseAll

(* The kernel does nothing else until the loop ends. *)
Spec == Init /\ [][Next]_vars /\ WF_vars(Loop)

-----------------------------------------------------------------------------
(* The table holds only valid ids, and next_id stays in a range where      *)
(* next_id + 1 and next_id + 2 cannot overflow an i32, even when insert    *)
(* and insert_two alternate.                                               *)
TypeOK ==
  /\ handles \subseteq HandleIds
  /\ next_id \in 1..NUM_HANDLES_MAX
  /\ call \in {"none", "insert", "insert_two"}
  /\ error \in BOOLEAN

(* insert returns whenever an id is free, wherever next_id was left and    *)
(* however the used ids are spread (process.rs insert).  When none is, its *)
(* test for a full table still passes, since there is one id less than it  *)
(* counts, and the loop never ends.                                        *)
CanInsert == call = "insert" /\ HandleIds \ handles # {}
InsertReturns == CanInsert ~> call = "none"

(* insert_two returns if one of the pairs (1,2), (3,4), ... is free, also  *)
(* when next_id is even at first.  Free neighbours like (2,3) do not help: *)
(* a table that is half full may make it loop forever.                     *)
CanInsertTwo ==
  /\ call = "insert_two"
  /\ \E i \in HandleIds : i % 2 = 1 /\ i + 1 \in HandleIds /\ {i, i + 1} \cap handles = {}
InsertTwoReturns == CanInsertTwo ~> call = "none"
=============================================================================
