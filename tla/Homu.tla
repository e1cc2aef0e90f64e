-------------------------------- MODULE Homu --------------------------------
(***************************************************************************)
(* Homu's rule engine (homu/main): which resources an application may use. *)
(* One user's tables; users share nothing.  A query is given parsed; log   *)
(* lines are left out.  reset_rule frees the tables and keeps pointing to  *)
(* them, and set_userres writes wherever its number points: what follows a *)
(* reset that freed something, or a number past the table, is undefined    *)
(* and not modelled.                                                       *)
(***************************************************************************)
EXTENDS Integers, Sequences, FiniteSets

CONSTANTS
  NULL,
  APP_MAX, PROS_MAX, USERRES_MAX,   \* HOMU_MAIN_*
  Paths, Files,                     \* applications; files
  RuleSets                          \* lists of resources a rule may name

VARIABLES
  apps,      \* apps: path and res; apps[1] is the default rule
  userres,   \* files that are resources of their own
  process,   \* appid of each process, 0 if none
  mode,
  undefined, \* a reset freed what the tables point to, or memory behind one was written
  running,   \* ghost: path of each process
  known      \* ghost: its path had a rule when it started

vars == <<apps, userres, process, mode, undefined, running, known>>

Apps == 1..APP_MAX - 1
Procs == 0..PROS_MAX - 1     \* 0 is what a call returns when the table is full
FS_READ == 3
FS_WRITE == 4
USERRES_BEGINNING == 10

(* initUser. *)
Init ==
  /\ apps = [i \in Apps |-> [path |-> NULL, res |-> NULL]]
  /\ userres = [i \in 0..USERRES_MAX - 1 |-> NULL]
  /\ process = [p \in Procs |-> 0] /\ mode = "SLEEP" /\ undefined = FALSE
  /\ running = [p \in Procs |-> NULL] /\ known = [p \in Procs |-> FALSE]

First(S) == CHOOSE i \in S : \A j \in S : i <= j
(* getAppIdByPath: the application's rule, or the default. *)
\* Mutant: the search stops one entry early.
GetAppIdByPathShort(path) ==
  LET found == {i \in Apps \ {1, APP_MAX - 1} : apps[i].path = path}
  IN IF found = {} THEN 1 ELSE First(found)
GetAppIdByPath(path) ==
  LET found == {i \in Apps \ {1} : apps[i].path = path}
  IN IF found = {} THEN 1 ELSE First(found)

(* setAppRule: the entry of the path, or a free one; too many applications *)
(* are only logged, and the query succeeds.                                *)
SetAppRule(path, res) ==
  LET own == {i \in Apps \ {1} : apps[i].path = path}
      free == {i \in Apps \ {1} : apps[i].path = NULL}
      slots == IF own # {} THEN own ELSE free
  IN IF slots = {} THEN UNCHANGED apps
     ELSE apps' = [apps EXCEPT ![First(slots)] = [path |-> path, res |-> res]]
(* setDefaultAppRule. *)
SetDefaultAppRule(res) == apps' = [apps EXCEPT ![1].res = res]
(* setUserRes: the number is not compared with the table's size. *)
SetUserRes(i, file) ==
  \/ i < USERRES_MAX /\ userres' = [userres EXCEPT ![i] = file] /\ UNCHANGED undefined
  \/ i >= USERRES_MAX /\ undefined' = TRUE /\ UNCHANGED userres
(* reset: processes are forgotten, pointers stay. *)
Reset ==
  /\ process' = [p \in Procs |-> 0] /\ mode' = "SLEEP"
  /\ userres' = [i \in DOMAIN userres |-> NULL]
  /\ undefined' = (\E i \in Apps : apps[i].path # NULL \/ apps[i].res # NULL \/ \E k \in DOMAIN userres : userres[k] # NULL)
  /\ running' = [p \in Procs |-> NULL] /\ known' = [p \in Procs |-> FALSE]

(* query: one command; a wrong one is refused. *)
Query ==
  /\ ~undefined
  /\ \/ \E m \in {"SLEEP", "OBSERVE", "INVOKE"} :
          mode' = m /\ UNCHANGED <<apps, userres, process, undefined, running, known>>
     \/ /\ \E res \in RuleSets : SetDefaultAppRule(res) \/ \E path \in Paths : SetAppRule(path, res)
        /\ UNCHANGED <<userres, process, mode, undefined, running, known>>
     \/ /\ \E i \in 0..USERRES_MAX, file \in Files : SetUserRes(i, file)
        /\ UNCHANGED <<apps, process, mode, running, known>>
     \/ Reset /\ UNCHANGED apps

-----------------------------------------------------------------------------
FreeProcs == {p \in Procs \ {0} : process[p] = 0}
Started(p, path, appid) ==
  /\ process' = [process EXCEPT ![p] = appid]
  /\ running' = [running EXCEPT ![p] = path]
  /\ known' = [known EXCEPT ![p] = \E i \in Apps \ {1} : apps[i].path = path]
(* addProcess: nothing if the table is full. *)
AddProcess(path) == FreeProcs # {} /\ Started(First(FreeProcs), path, GetAppIdByPath(path))
(* copyProcess, for fork: the copy has the application of the original,    *)
(* and the default rule if the original is not known.                      *)
CopyProcess(orig) ==
  /\ FreeProcs # {}
  /\ process' = [process EXCEPT ![First(FreeProcs)] = IF process[orig] = 0 THEN 1 ELSE process[orig]]
  /\ running' = [running EXCEPT ![First(FreeProcs)] = running[orig]]
  /\ known' = [known EXCEPT ![First(FreeProcs)] = process[orig] # 0 /\ known[orig]]
(* addCopiedProcess, for exec. *)
AddCopiedProcess(p, path) == Started(p, path, GetAppIdByPath(path))
(* delProcess. *)
DelProcess(p) ==
  /\ process' = [process EXCEPT ![p] = 0]
  /\ running' = [running EXCEPT ![p] = NULL] /\ known' = [known EXCEPT ![p] = FALSE]
Process ==
  /\ ~undefined
  /\ \/ \E path \in Paths : AddProcess(path)
     \/ \E p \in Procs : CopyProcess(p) \/ DelProcess(p) \/ \E path \in Paths : AddCopiedProcess(p, path)
  /\ UNCHANGED <<apps, userres, mode, undefined>>

Next == Query \/ Process
Spec == Init /\ [][Next]_vars

(* judge: without a rule everything is allowed; a file that is a resource  *)
(* of its own needs that resource too.  The table of files is read up to   *)
(* its first free entry.                                                   *)
Listed(i) == i > 0 /\ \A k \in 1..i : userres[k] # NULL
Allowed(p, resid) == apps[process[p]].res = NULL \/ resid \in apps[process[p]].res
Judge(p, resid, file) ==
  /\ resid \in {FS_READ, FS_WRITE} =>
       \A i \in DOMAIN userres : Listed(i) /\ userres[i] = file => Allowed(p, USERRES_BEGINNING + i)
  /\ Allowed(p, resid)

-----------------------------------------------------------------------------
Ruled(path) == \E i \in Apps \ {1} : apps[i].path = path
Rule(path) == apps[CHOOSE i \in Apps \ {1} : apps[i].path = path].res

(* However rules are set and changed and processes started, forked,        *)
(* replaced and ended, up to the limits of the tables: a process whose     *)
(* application had a rule when it started is judged by the rule that       *)
(* application has now, any other by the default rule, and no application  *)
(* has two rules.                                                          *)
JudgedByRule ==
  ~undefined =>
    /\ \A i, j \in Apps \ {1} : i # j /\ apps[i].path # NULL => apps[i].path # apps[j].path
    /\ \A p \in Procs : process[p] # 0 =>
         LET rule == IF known[p] THEN Rule(running[p]) ELSE apps[1].res
         IN /\ known[p] => Ruled(running[p])
            /\ \A resid \in {FS_READ, USERRES_BEGINNING + 1}, file \in Files :
                 Judge(p, resid, file) <=>
                   /\ rule = NULL \/ resid \in rule
                   /\ resid = FS_READ =>
                        \A i \in DOMAIN userres :
                          Listed(i) /\ userres[i] = file /\ rule # NULL => USERRES_BEGINNING + i \in rule
=============================================================================
