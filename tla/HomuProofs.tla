----------------------------- MODULE HomuProofs -----------------------------
(***************************************************************************)
(* Proofs about module Homu, for tables of any size and any paths, files   *)
(* and rules: the appid that the process table keeps stays the right one   *)
(* while rules are set and changed.                                        *)
(***************************************************************************)
EXTENDS Homu, WellFoundedInduction, TLAPS

(* There is room for the default rule, and NULL is no path.                *)
HomuAssumption ==
  /\ APP_MAX \in Nat /\ APP_MAX > 1
  /\ PROS_MAX \in Nat /\ USERRES_MAX \in Nat
  /\ NULL \notin Paths

HomuTypeOK ==
  /\ apps \in [Apps -> [path : Paths \cup {NULL}, res : RuleSets \cup {NULL}]]
  /\ process \in [Procs -> 0 .. APP_MAX - 1]
  /\ running \in [Procs -> Paths \cup {NULL}]
  /\ known \in [Procs -> BOOLEAN]

(* No application has two rules. *)
UniquePaths ==
  \A i, j \in Apps \ {1} : i # j /\ apps[i].path # NULL => apps[i].path # apps[j].path

(* The appid of a process: an entry with its path if there was one when it *)
(* started (entries keep their paths), and else the default.               *)
AppidRight(p) ==
  IF known[p]
  THEN /\ process[p] \in Apps \ {1}
       /\ running[p] \in Paths
       /\ apps[process[p]].path = running[p]
  ELSE process[p] = 1
AppidsRight == \A p \in Procs : process[p] # 0 => AppidRight(p)

HomuInv == ~undefined => HomuTypeOK /\ UniquePaths /\ AppidsRight

-----------------------------------------------------------------------------
(* A search finds an entry of the set if there is one. *)
LEMMA FirstIn ==
  ASSUME NEW S \in SUBSET Nat, S # {}
  PROVE  First(S) \in S
<1>1. \A x, y \in Nat : <<x, y>> \in OpToRel(<, Nat) <=> x < y
  BY DEF OpToRel
<1>2. \E r : IsWellFoundedOn(r, Nat) /\ \A x, y \in Nat : <<x, y>> \in r <=> x < y
  BY <1>1, NatLessThanWellFounded, Zenon
<1>3. PICK r : IsWellFoundedOn(r, Nat) /\ \A x, y \in Nat : <<x, y>> \in r <=> x < y
  BY <1>2
<1>4. S \subseteq Nat
  OBVIOUS
<1>5. IsWellFoundedOn(r, Nat)
  BY <1>3
<1>6. \E x \in S : \A y \in S : ~(<<y, x>> \in r)
  BY <1>4, <1>5, WFMin
<1>7. PICK x \in S : \A y \in S : ~(<<y, x>> \in r)
  BY <1>6
<1>8. \A y \in S : ~(y < x)
  BY <1>3, <1>4, <1>7, Zenon
<1>9. \A y \in S : x <= y
  BY <1>4, <1>8
<1> QED
  BY <1>9 DEF First

(* Nothing runs and no rule is set. *)
LEMMA InitHomu ==
  ASSUME HomuAssumption, Init
  PROVE  HomuInv
<1>1. HomuTypeOK
  BY DEF HomuAssumption, Init, HomuTypeOK, Apps, Procs
<1>2. UniquePaths
  BY DEF Init, UniquePaths, Apps
<1>3. AppidsRight
  BY DEF Init, AppidsRight
<1> QED
  BY <1>1, <1>2, <1>3 DEF HomuInv

(* setAppRule: the path gets the entry it has, or one that had no path. *)
LEMMA SetAppRuleHomu ==
  ASSUME HomuAssumption, HomuTypeOK, UniquePaths, AppidsRight,
         NEW path \in Paths, NEW res \in RuleSets, SetAppRule(path, res),
         UNCHANGED <<process, running, known>>
  PROVE  HomuTypeOK' /\ UniquePaths' /\ AppidsRight'
<1> DEFINE own == {i \in Apps \ {1} : apps[i].path = path}
           free == {i \in Apps \ {1} : apps[i].path = NULL}
           slots == IF own # {} THEN own ELSE free
<1>1. CASE slots = {}
  <2>1. UNCHANGED <<apps, process, running, known>>
    BY <1>1 DEF SetAppRule
  <2> QED
    BY <2>1 DEF HomuTypeOK, UniquePaths, AppidsRight, AppidRight
<1>2. CASE slots # {}
  <2>1. slots \in SUBSET Nat
    BY DEF Apps, HomuAssumption
  <2>2. PICK S \in SUBSET Nat : S = slots
    BY <2>1
  <2>3. First(S) \in S
    BY <1>2, <2>2, FirstIn
  <2>4. PICK k \in Apps \ {1} : k = First(slots) /\ k \in slots
    BY <2>2, <2>3
  <2>5. apps' = [apps EXCEPT ![k] = [path |-> path, res |-> res]]
    BY <1>2, <2>4 DEF SetAppRule
  <2>6. apps[k].path = path \/ (apps[k].path = NULL /\ \A i \in Apps \ {1} : apps[i].path # path)
    BY <2>4
  <2> HIDE DEF own, free, slots
  <2>7. /\ apps'[k].path = path
        /\ \A i \in Apps : i # k => apps'[i] = apps[i]
    BY <2>5 DEF HomuTypeOK
  <2>8. HomuTypeOK'
    BY <2>5 DEF HomuTypeOK
  <2>9. UniquePaths'
    BY <2>6, <2>7 DEF UniquePaths, HomuAssumption
  <2>10. ASSUME NEW p \in Procs, process'[p] # 0
         PROVE  AppidRight(p)'
    <3>1. AppidRight(p)
      BY <2>10 DEF AppidsRight
    <3>2. CASE known[p]
      <4>1. process[p] \in Apps \ {1} /\ running[p] \in Paths /\ apps[process[p]].path = running[p]
        BY <3>1, <3>2 DEF AppidRight
      <4>2. apps'[process[p]].path = running[p]
        BY <2>6, <2>7, <4>1 DEF HomuAssumption
      <4> QED
        BY <3>2, <4>1, <4>2 DEF AppidRight
    <3>3. CASE ~known[p]
      BY <3>1, <3>3 DEF AppidRight
    <3> QED
      BY <3>2, <3>3
  <2> QED
    BY <2>8, <2>9, <2>10 DEF AppidsRight
<1> QED
  BY <1>1, <1>2

(* setDefaultAppRule touches no path. *)
LEMMA SetDefaultHomu ==
  ASSUME HomuAssumption, HomuTypeOK, UniquePaths, AppidsRight,
         NEW res \in RuleSets, SetDefaultAppRule(res),
         UNCHANGED <<process, running, known>>
  PROVE  HomuTypeOK' /\ UniquePaths' /\ AppidsRight'
<1>1. 1 \in Apps
  BY DEF Apps, HomuAssumption
<1>2. HomuTypeOK'
  BY <1>1 DEF HomuTypeOK, SetDefaultAppRule
<1>3. \A i \in Apps \ {1} : apps'[i] = apps[i]
  BY DEF HomuTypeOK, SetDefaultAppRule
<1>4. UniquePaths'
  BY <1>3 DEF UniquePaths
<1>5. AppidsRight'
  BY <1>3 DEF AppidsRight, AppidRight
<1> QED
  BY <1>2, <1>4, <1>5

(* A command leaves the appids right, unless it frees the tables. *)
LEMMA QueryHomu ==
  ASSUME HomuAssumption, HomuInv, Query
  PROVE  HomuInv'
<1>1. HomuTypeOK /\ UniquePaths /\ AppidsRight
  BY DEF HomuInv, Query
<1>2. CASE UNCHANGED <<apps, process, running, known>>
  BY <1>1, <1>2 DEF HomuInv, HomuTypeOK, UniquePaths, AppidsRight, AppidRight
<1>3. CASE /\ \E res \in RuleSets : SetDefaultAppRule(res) \/ \E path \in Paths : SetAppRule(path, res)
           /\ UNCHANGED <<userres, process, mode, undefined, running, known>>
  BY <1>1, <1>3, SetDefaultHomu, SetAppRuleHomu DEF HomuInv
<1>4. CASE Reset /\ UNCHANGED apps
  <2>1. /\ process' = [p \in Procs |-> 0] /\ running' = [p \in Procs |-> NULL]
        /\ known' = [p \in Procs |-> FALSE]
    BY <1>4 DEF Reset
  <2>2. HomuTypeOK'
    BY <1>1, <1>4, <2>1 DEF HomuTypeOK, HomuAssumption
  <2>3. UniquePaths'
    BY <1>1, <1>4 DEF UniquePaths
  <2>4. AppidsRight'
    BY <2>1 DEF AppidsRight
  <2> QED
    BY <2>2, <2>3, <2>4 DEF HomuInv
<1> QED
  BY <1>2, <1>3, <1>4 DEF Query

-----------------------------------------------------------------------------
(* getAppIdByPath finds the entry of the path, or the default. *)
LEMMA FoundAppid ==
  ASSUME HomuAssumption, NEW path \in Paths
  PROVE  /\ GetAppIdByPath(path) \in Apps
         /\ (\E i \in Apps \ {1} : apps[i].path = path) =>
              /\ GetAppIdByPath(path) # 1
              /\ apps[GetAppIdByPath(path)].path = path
         /\ ~(\E i \in Apps \ {1} : apps[i].path = path) => GetAppIdByPath(path) = 1
<1> DEFINE found == {i \in Apps \ {1} : apps[i].path = path}
<1>1. CASE found = {}
  BY <1>1 DEF GetAppIdByPath, Apps, HomuAssumption
<1>2. CASE found # {}
  <2>1. found \in SUBSET Nat
    BY DEF Apps, HomuAssumption
  <2>2. PICK S \in SUBSET Nat : S = found
    BY <2>1
  <2>3. First(S) \in S
    BY <1>2, <2>2, FirstIn
  <2>4. GetAppIdByPath(path) = First(S)
    BY <1>2, <2>2 DEF GetAppIdByPath
  <2> QED
    BY <2>2, <2>3, <2>4
<1> QED
  BY <1>1, <1>2

(* A process that is started, or replaced by exec, has the right appid. *)
LEMMA StartedHomu ==
  ASSUME HomuAssumption, HomuTypeOK, UniquePaths, AppidsRight, UNCHANGED apps,
         NEW p \in Procs, NEW path \in Paths, Started(p, path, GetAppIdByPath(path))
  PROVE  HomuTypeOK' /\ UniquePaths' /\ AppidsRight'
<1> DEFINE is == \E i \in Apps \ {1} : apps[i].path = path
<1>1. PICK a \in Apps : a = GetAppIdByPath(path)
  BY FoundAppid
<1>2. (is => a # 1 /\ apps[a].path = path) /\ (~is => a = 1)
  BY <1>1, FoundAppid
<1>3. PICK b \in BOOLEAN : b = is
  OBVIOUS
<1>4. /\ process' = [process EXCEPT ![p] = a]
      /\ running' = [running EXCEPT ![p] = path]
      /\ known' = [known EXCEPT ![p] = b]
  BY <1>1, <1>3 DEF Started
<1>5. (b => a # 1 /\ apps[a].path = path) /\ (~b => a = 1)
  BY <1>2, <1>3
<1> HIDE DEF is
<1>6. a \in 0 .. APP_MAX - 1
  BY DEF Apps, HomuAssumption
<1>7. HomuTypeOK'
  BY <1>4, <1>6 DEF HomuTypeOK
<1>8. UniquePaths'
  BY DEF UniquePaths
<1>9. ASSUME NEW q \in Procs, process'[q] # 0
      PROVE  AppidRight(q)'
  <2>1. CASE q = p
    <3>1. process'[p] = a /\ running'[p] = path /\ known'[p] = b
      BY <1>4 DEF HomuTypeOK
    <3> QED
      BY <1>5, <2>1, <3>1 DEF AppidRight
  <2>2. CASE q # p
    <3>1. process'[q] = process[q] /\ running'[q] = running[q] /\ known'[q] = known[q]
      BY <1>4, <2>2 DEF HomuTypeOK
    <3> QED
      BY <1>9, <3>1 DEF AppidsRight, AppidRight
  <2> QED
    BY <2>1, <2>2
<1> QED
  BY <1>7, <1>8, <1>9 DEF AppidsRight

(* The process table of a fork. *)
LEMMA CopyProcessHomu ==
  ASSUME HomuAssumption, HomuTypeOK, UniquePaths, AppidsRight, UNCHANGED apps,
         NEW orig \in Procs, NEW p \in Procs, NEW b \in BOOLEAN,
         b <=> process[orig] # 0 /\ known[orig],
         process' = [process EXCEPT ![p] = IF process[orig] = 0 THEN 1 ELSE process[orig]],
         running' = [running EXCEPT ![p] = running[orig]],
         known' = [known EXCEPT ![p] = b]
  PROVE  HomuTypeOK' /\ UniquePaths' /\ AppidsRight'
<1>1. HomuTypeOK'
  BY DEF HomuTypeOK, HomuAssumption
<1>2. UniquePaths'
  BY DEF UniquePaths
<1>3. ASSUME NEW q \in Procs, process'[q] # 0
      PROVE  AppidRight(q)'
  <2>1. CASE q = p /\ process[orig] = 0
    <3>1. process'[q] = 1 /\ ~known'[q]
      BY <2>1 DEF HomuTypeOK
    <3> QED
      BY <3>1 DEF AppidRight
  <2>2. CASE q # p \/ process[orig] # 0
    <3>1. PICK o \in Procs : /\ process[o] # 0
                             /\ process'[q] = process[o]
                             /\ running'[q] = running[o]
                             /\ known'[q] <=> known[o]
      <4>1. CASE q = p
        BY <2>2, <4>1 DEF HomuTypeOK
      <4>2. CASE q # p
        BY <1>3, <4>2 DEF HomuTypeOK
      <4> QED
        BY <4>1, <4>2
    <3>2. AppidRight(o)
      BY <3>1 DEF AppidsRight
    <3>3. CASE known[o]
      BY <3>1, <3>2, <3>3 DEF AppidRight
    <3>4. CASE ~known[o]
      BY <3>1, <3>2, <3>4 DEF AppidRight
    <3> QED
      BY <3>3, <3>4
  <2> QED
    BY <2>1, <2>2
<1> QED
  BY <1>1, <1>2, <1>3 DEF AppidsRight

(* An entry that is given up is judged no more. *)
LEMMA DelProcessHomu ==
  ASSUME HomuAssumption, HomuTypeOK, UniquePaths, AppidsRight, UNCHANGED apps,
         NEW p \in Procs, DelProcess(p)
  PROVE  HomuTypeOK' /\ UniquePaths' /\ AppidsRight'
<1>1. HomuTypeOK'
  BY DEF HomuTypeOK, DelProcess, HomuAssumption
<1>2. UniquePaths'
  BY DEF UniquePaths
<1>3. ASSUME NEW q \in Procs, process'[q] # 0
      PROVE  AppidRight(q)'
  <2>1. q # p
    BY <1>3 DEF DelProcess, HomuTypeOK
  <2>2. process'[q] = process[q] /\ running'[q] = running[q] /\ known'[q] = known[q]
    BY <2>1 DEF DelProcess, HomuTypeOK
  <2> QED
    BY <1>3, <2>2 DEF AppidsRight, AppidRight
<1> QED
  BY <1>1, <1>2, <1>3 DEF AppidsRight

(* Processes come, fork, are replaced and go. *)
LEMMA ProcessHomu ==
  ASSUME HomuAssumption, HomuInv, Process
  PROVE  HomuInv'
<1>1. HomuTypeOK /\ UniquePaths /\ AppidsRight /\ UNCHANGED apps
  BY DEF HomuInv, Process
<1>2. ASSUME FreeProcs # {}
      PROVE  First(FreeProcs) \in Procs
  <2>1. FreeProcs \in SUBSET Nat
    BY DEF FreeProcs, Procs, HomuAssumption
  <2>2. PICK S \in SUBSET Nat : S = FreeProcs
    BY <2>1
  <2>3. First(S) \in S
    BY <1>2, <2>2, FirstIn
  <2> QED
    BY <2>2, <2>3 DEF FreeProcs
<1>3. ASSUME NEW path \in Paths, AddProcess(path)
      PROVE  HomuTypeOK' /\ UniquePaths' /\ AppidsRight'
  <2>1. PICK p \in Procs : p = First(FreeProcs)
    BY <1>2, <1>3 DEF AddProcess
  <2> QED
    BY <1>1, <1>3, <2>1, StartedHomu DEF AddProcess
<1>4. ASSUME NEW orig \in Procs, CopyProcess(orig)
      PROVE  HomuTypeOK' /\ UniquePaths' /\ AppidsRight'
  <2>1. PICK p \in Procs : p = First(FreeProcs)
    BY <1>2, <1>4 DEF CopyProcess
  <2>2. PICK b \in BOOLEAN : b = (process[orig] # 0 /\ known[orig])
    BY DEF HomuTypeOK
  <2>3. /\ process' = [process EXCEPT ![p] = IF process[orig] = 0 THEN 1 ELSE process[orig]]
        /\ running' = [running EXCEPT ![p] = running[orig]]
        /\ known' = [known EXCEPT ![p] = b]
    BY <1>4, <2>1, <2>2 DEF CopyProcess
  <2>4. b <=> process[orig] # 0 /\ known[orig]
    BY <2>2
  <2> HIDE DEF CopyProcess
  <2> QED
    BY <1>1, <2>3, <2>4, CopyProcessHomu
<1>5. ASSUME NEW p \in Procs, DelProcess(p)
      PROVE  HomuTypeOK' /\ UniquePaths' /\ AppidsRight'
  BY <1>1, <1>5, DelProcessHomu
<1>6. ASSUME NEW p \in Procs, NEW path \in Paths, AddCopiedProcess(p, path)
      PROVE  HomuTypeOK' /\ UniquePaths' /\ AppidsRight'
  BY <1>1, <1>6, StartedHomu DEF AddCopiedProcess
<1> QED
  BY <1>3, <1>4, <1>5, <1>6 DEF Process, HomuInv

-----------------------------------------------------------------------------
(* The entry of a process holds the rule its path has now. *)
LEMMA RuleOfProcess ==
  ASSUME HomuAssumption, HomuTypeOK, UniquePaths, AppidsRight,
         NEW p \in Procs, process[p] # 0
  PROVE  /\ known[p] => Ruled(running[p])
         /\ apps[process[p]].res = IF known[p] THEN Rule(running[p]) ELSE apps[1].res
<1>1. AppidRight(p)
  BY DEF AppidsRight
<1>2. CASE known[p]
  <2>1. PICK k \in Apps \ {1}, path \in Paths :
          k = process[p] /\ path = running[p] /\ apps[k].path = path
    BY <1>1, <1>2 DEF AppidRight
  <2>2. Ruled(path)
    BY <2>1 DEF Ruled
  <2>3. \A i \in Apps \ {1} : apps[i].path = path => i = k
    BY <2>1 DEF UniquePaths, HomuAssumption
  <2>4. (CHOOSE i \in Apps \ {1} : apps[i].path = path) = k
    BY <2>1, <2>3
  <2>5. Rule(path) = apps[k].res
    BY <2>4 DEF Rule
  <2> QED
    BY <1>2, <2>1, <2>2, <2>5
<1>3. CASE ~known[p]
  BY <1>1, <1>3 DEF AppidRight
<1> QED
  BY <1>2, <1>3

(* The invariant says that judge() asks the right rule. *)
LEMMA InvJudged ==
  ASSUME HomuAssumption, HomuInv
  PROVE  JudgedByRule
<1>1. SUFFICES ASSUME ~undefined PROVE JudgedByRule
  BY DEF JudgedByRule
<1>2. HomuTypeOK /\ UniquePaths /\ AppidsRight
  BY <1>1 DEF HomuInv
<1>3. ASSUME NEW p \in Procs, process[p] # 0
      PROVE  LET rule == IF known[p] THEN Rule(running[p]) ELSE apps[1].res
             IN /\ known[p] => Ruled(running[p])
                /\ \A resid \in {FS_READ, USERRES_BEGINNING + 1}, file \in Files :
                     Judge(p, resid, file) <=>
                       /\ rule = NULL \/ resid \in rule
                       /\ resid = FS_READ =>
                            \A i \in DOMAIN userres :
                              Listed(i) /\ userres[i] = file /\ rule # NULL =>
                                USERRES_BEGINNING + i \in rule
  <2> DEFINE rule == IF known[p] THEN Rule(running[p]) ELSE apps[1].res
  <2>1. (known[p] => Ruled(running[p])) /\ apps[process[p]].res = rule
    BY <1>2, <1>3, RuleOfProcess
  <2> HIDE DEF rule
  <2>2. \A resid : Allowed(p, resid) <=> rule = NULL \/ resid \in rule
    BY <2>1 DEF Allowed
  <2>3. ASSUME NEW resid \in {FS_READ, USERRES_BEGINNING + 1}, NEW file \in Files
        PROVE  Judge(p, resid, file) <=>
                 /\ rule = NULL \/ resid \in rule
                 /\ resid = FS_READ =>
                      \A i \in DOMAIN userres :
                        Listed(i) /\ userres[i] = file /\ rule # NULL =>
                          USERRES_BEGINNING + i \in rule
    <3>1. resid \in {FS_READ, FS_WRITE} <=> resid = FS_READ
      BY DEF FS_READ, FS_WRITE, USERRES_BEGINNING
    <3> QED
      BY <2>2, <3>1 DEF Judge
  <2> QED
    BY <2>1, <2>3 DEF rule
<1> QED
  BY <1>1, <1>2, <1>3 DEF JudgedByRule, UniquePaths

(* However rules are set and changed and processes started, forked,        *)
(* replaced and ended: no application has two rules, a process whose       *)
(* application had a rule when it started is judged by the rule the        *)
(* application has now, and any other by the default rule.                 *)
THEOREM RulesJudge ==
  ASSUME HomuAssumption
  PROVE  Spec => []JudgedByRule
<1>1. Init => HomuInv
  BY InitHomu
<1>2. HomuInv /\ [Next]_vars => HomuInv'
  <2>1. SUFFICES ASSUME HomuInv, [Next]_vars PROVE HomuInv'
    OBVIOUS
  <2>2. CASE UNCHANGED vars
    BY <2>1, <2>2 DEF HomuInv, HomuTypeOK, UniquePaths, AppidsRight, AppidRight, vars
  <2> QED
    BY <2>1, <2>2, QueryHomu, ProcessHomu DEF Next
<1>3. HomuInv => JudgedByRule
  BY InvJudged
<1> QED
  BY <1>1, <1>2, <1>3, PTL DEF Spec
=============================================================================
