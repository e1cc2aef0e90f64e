------------------------- MODULE ReseaPagingProofs --------------------------
(***************************************************************************)
(* Proofs about module ReseaPaging, for page tables and directories of any *)
(* size: link_page and unlink_page change the pages they are asked to, and *)
(* page payloads arrive.                                                   *)
(***************************************************************************)
EXTENDS ReseaPaging, TLAPS

(* Page tables have entries, and payloads pages. *)
PagingAssumption ==
  /\ EntryNum \in Nat \ {0}
  /\ DirNum \in Nat
  /\ \A o \in 0..OrderMax : 2^o \in Nat \ {0}
  /\ Bases \subseteq [page : Pages, order : Nat]

-----------------------------------------------------------------------------
(* Page numbers. *)

LEMMA Product ==
  ASSUME NEW E \in Nat \ {0}, NEW a \in Nat, NEW b \in Nat, a < b
  PROVE  a * E + E <= b * E
<1>1. b = a + 1 + (b - a - 1) /\ b - a - 1 \in Nat
  OBVIOUS
<1>2. PICK k \in Nat : b = a + 1 + k
  BY <1>1
<1>3. b * E = a * E + E + k * E
  BY <1>2
<1>4. k * E \in Nat /\ a * E \in Nat
  OBVIOUS
<1> QED
  BY <1>3, <1>4

(* The entry of a page is a quotient and a remainder, and the only one. *)
LEMMA DirIndex ==
  ASSUME PagingAssumption, NEW v \in Nat
  PROVE  /\ Dir(v) \in Nat /\ Index(v) \in 0..(EntryNum - 1)
         /\ v = Dir(v) * EntryNum + Index(v)
  BY DEF PagingAssumption, Dir, Index

LEMMA Unique ==
  ASSUME PagingAssumption, NEW v \in Nat, NEW d \in Nat, NEW i \in 0..(EntryNum - 1),
         v = d * EntryNum + i
  PROVE  Dir(v) = d /\ Index(v) = i
<1>1. PICK E \in Nat \ {0} : E = EntryNum
  BY DEF PagingAssumption
<1>2. PICK e \in Nat : e = Dir(v)
  BY DirIndex
<1>3. PICK j \in 0..(E - 1) : j = Index(v)
  BY <1>1, DirIndex
<1>4. v = e * E + j /\ v = d * E + i /\ i \in 0..(E - 1)
  BY <1>1, <1>2, <1>3, DirIndex
<1>5. e * E \in Nat /\ d * E \in Nat
  OBVIOUS
<1>6. ~(e < d)
  <2>1. e < d => e * E + E <= d * E
    BY Product
  <2> QED
    BY <1>4, <1>5, <2>1
<1>7. ~(d < e)
  <2>1. d < e => d * E + E <= e * E
    BY Product
  <2> QED
    BY <1>4, <1>5, <2>1
<1>8. d = e
  BY <1>6, <1>7
<1>9. e * E = d * E
  BY <1>8
<1>10. i = j
  BY <1>4, <1>5, <1>9
<1> QED
  BY <1>2, <1>3, <1>8, <1>10

(* Two pages are different entries. *)
LEMMA OtherEntry ==
  ASSUME PagingAssumption, NEW u \in Nat, NEW v \in Nat, u # v
  PROVE  Dir(u) # Dir(v) \/ Index(u) # Index(v)
  BY DirIndex

(* The page i after v, in the same page table and in the next one. *)
LEMMA Ahead ==
  ASSUME PagingAssumption, NEW v \in Nat, NEW i \in Nat
  PROVE  /\ Index(v) + i < EntryNum => Dir(v + i) = Dir(v) /\ Index(v + i) = Index(v) + i
         /\ i < EntryNum /\ EntryNum <= Index(v) + i =>
              Dir(v + i) = Dir(v) + 1 /\ Index(v + i) = Index(v) + i - EntryNum
<1>1. PICK E \in Nat \ {0} : E = EntryNum
  BY DEF PagingAssumption
<1>2. PICK d \in Nat : d = Dir(v)
  BY DirIndex
<1>3. PICK x \in 0..(E - 1) : x = Index(v)
  BY <1>1, DirIndex
<1>7. v = d * E + x
  BY <1>1, <1>2, <1>3, DirIndex, Zenon
<1>8. d * E \in Nat /\ (d + 1) * E = d * E + E
  OBVIOUS
<1>4. v = d * E + x /\ d * E \in Nat /\ (d + 1) * E = d * E + E
  BY <1>7, <1>8
<1>5. ASSUME x + i < E PROVE Dir(v + i) = d /\ Index(v + i) = x + i
  <2>1. x + i \in 0..(EntryNum - 1) /\ v + i \in Nat
    BY <1>1, <1>5
  <2>2. v + i = d * EntryNum + (x + i)
    BY <1>1, <1>4
  <2> QED
    BY <2>1, <2>2, Unique
<1>6. ASSUME i < E, E <= x + i PROVE Dir(v + i) = d + 1 /\ Index(v + i) = x + i - E
  <2>1. x + i - E \in 0..(EntryNum - 1) /\ v + i \in Nat /\ d + 1 \in Nat
    BY <1>1, <1>6
  <2>2. v + i = (d + 1) * EntryNum + (x + i - E)
    BY <1>1, <1>4
  <2>3. PICK y : y = x + i - E
    OBVIOUS
  <2> QED
    BY <2>1, <2>2, <2>3, Unique
<1> QED
  BY <1>1, <1>2, <1>3, <1>5, <1>6

-----------------------------------------------------------------------------
(* Page tables. *)
Indexes == 0..(EntryNum - 1)
Dirs == 0..(DirNum - 1)
Tables == [Dirs -> [Indexes -> Nat] \cup {NoTable}]

LEMMA PageDir ==
  ASSUME PagingAssumption, NEW v \in Pages
  PROVE  v \in Nat /\ Dir(v) \in Dirs /\ Index(v) \in Indexes
<1>1. PICK E \in Nat \ {0} : E = EntryNum
  BY DEF PagingAssumption
<1>2. PICK D \in Nat : D = DirNum
  BY DEF PagingAssumption
<1>3. D * E \in Nat
  OBVIOUS
<1>4. v \in Nat /\ v < D * E
  BY <1>1, <1>2, <1>3 DEF Pages
<1>5. PICK d \in Nat : d = Dir(v)
  BY <1>4, DirIndex
<1>10. v = d * E + Index(v) /\ Index(v) \in 0..(E - 1)
  BY <1>1, <1>4, <1>5, DirIndex, Zenon
<1>6. v = d * E + Index(v) /\ Index(v) \in 0..(E - 1) /\ d * E \in Nat
  BY <1>10
<1>7. D < d => D * E + E <= d * E
  BY Product
<1>8. D = d => D * E = d * E
  OBVIOUS
<1>9. d < D
  BY <1>3, <1>4, <1>6, <1>7, <1>8
<1> QED
  BY <1>1, <1>2, <1>4, <1>5, <1>6, <1>9 DEF Dirs, Indexes

LEMMA NoTableApart ==
  ASSUME PagingAssumption, NEW f \in [Indexes -> Nat]
  PROVE  f # NoTable
<1>1. 0 \in Indexes
  BY DEF PagingAssumption, Indexes
<1>2. 0 \in DOMAIN f /\ 0 \notin DOMAIN <<>>
  BY <1>1
<1> QED
  BY <1>2 DEF NoTable

(* One pass of link_page. *)
LEMMA LinkOnceEntries ==
  ASSUME PagingAssumption, NEW M \in Tables, NEW d \in Dirs, NEW v \in Nat, d = Dir(v),
         NEW p \in Nat, NEW n \in Nat, NEW G, G = LinkOnce(M, v, p, n)
  PROVE  /\ G \in Tables
         /\ \A e \in Dirs \ {d} : G[e] = M[e]
         /\ G[d] # NoTable
         /\ \A i \in Indexes : G[d][i] =
              IF i >= Index(v) /\ i <= Index(v) + n - 1 THEN p + (i - Index(v))
              ELSE IF M[d] = NoTable THEN 0 ELSE M[d][i]
<1>1. PICK pt : pt = IF M[d] = NoTable THEN NewTable ELSE M[d]
  OBVIOUS
<1>2. NewTable \in [Indexes -> Nat] /\ \A i \in Indexes : NewTable[i] = 0
  BY DEF NewTable, Indexes
<1>3. pt \in [Indexes -> Nat]
  BY <1>1, <1>2 DEF Tables
<1>4. PICK x \in Indexes : x = Index(v)
  BY DirIndex DEF Indexes
<1>5. PICK N : N = [i \in Indexes |-> IF i >= x /\ i <= x + n - 1 THEN p + (i - x) ELSE pt[i]]
  OBVIOUS
<1>6. G = [M EXCEPT ![d] = N]
  BY <1>1, <1>4, <1>5 DEF LinkOnce, Indexes
<1>7. N \in [Indexes -> Nat]
  <2>1. \A i \in Indexes : i >= x /\ i <= x + n - 1 => p + (i - x) \in Nat
    BY <1>4 DEF Indexes
  <2>2. \A i \in Indexes : pt[i] \in Nat
    BY <1>3
  <2>3. \A i \in Indexes : (IF i >= x /\ i <= x + n - 1 THEN p + (i - x) ELSE pt[i]) \in Nat
    BY <2>1, <2>2
  <2> QED
    BY <1>5, <2>3
<1>8. G[d] = N /\ G \in Tables /\ \A e \in Dirs \ {d} : G[e] = M[e]
  BY <1>6, <1>7 DEF Tables
<1>9. N # NoTable
  BY <1>7, NoTableApart
<1> QED
  BY <1>1, <1>2, <1>4, <1>5, <1>8, <1>9

LEMMA LinkOnceResolves ==
  ASSUME PagingAssumption, NEW M \in Tables, NEW v \in Pages, NEW p \in Nat, NEW n \in Nat,
         NEW G, G = LinkOnce(M, v, p, n)
  PROVE  /\ G \in Tables
         /\ \A u \in Pages : Resolve(G, u) =
              IF Dir(u) = Dir(v) /\ Index(u) >= Index(v) /\ Index(u) <= Index(v) + n - 1
              THEN p + (Index(u) - Index(v)) ELSE Resolve(M, u)
<1>1. v \in Nat /\ Dir(v) \in Dirs /\ Index(v) \in Indexes
  BY PageDir
<1>2. PICK d \in Dirs : d = Dir(v)
  BY <1>1
<1>3. /\ G \in Tables
      /\ \A e \in Dirs \ {d} : G[e] = M[e]
      /\ G[d] # NoTable
      /\ \A i \in Indexes : G[d][i] =
           IF i >= Index(v) /\ i <= Index(v) + n - 1 THEN p + (i - Index(v))
           ELSE IF M[d] = NoTable THEN 0 ELSE M[d][i]
  BY <1>1, <1>2, LinkOnceEntries
<1>4. \A u \in Pages : Dir(u) \in Dirs /\ Index(u) \in Indexes
  BY PageDir
<1>5. ASSUME NEW u \in Pages
      PROVE  Resolve(G, u) =
               IF Dir(u) = Dir(v) /\ Index(u) >= Index(v) /\ Index(u) <= Index(v) + n - 1
               THEN p + (Index(u) - Index(v)) ELSE Resolve(M, u)
  <2>1. CASE Dir(u) = d
    BY <1>2, <1>3, <1>4, <2>1 DEF Resolve
  <2>2. CASE Dir(u) # d
    BY <1>2, <1>3, <1>4, <2>2 DEF Resolve
  <2> QED
    BY <2>1, <2>2
<1> QED
  BY <1>3, <1>5

(* link_page maps every page of its range, over the end of a page table too. *)
LEMMA LinkPageResolves ==
  ASSUME PagingAssumption, NEW M \in Tables, NEW v \in Pages, NEW p \in Nat,
         NEW n \in 1..EntryNum, Reached(v, n) \in Pages, NEW G, G = LinkPage(M, v, p, n)
  PROVE  /\ G \in Tables
         /\ \A i \in 0..(n - 1) : v + i \in Pages /\ Resolve(G, v + i) = p + i
<1>1. PICK E \in Nat \ {0} : E = EntryNum
  BY DEF PagingAssumption
<1>2. n \in Nat /\ n >= 1 /\ n <= E
  BY <1>1
<1>3. v \in Nat /\ Dir(v) \in Dirs
  BY PageDir
<1>4. PICK x \in 0..(E - 1) : x = Index(v)
  BY <1>1, <1>3, DirIndex
<1>5. \A u \in Nat, w \in Pages : u <= w => u \in Pages
  BY DEF Pages, PagingAssumption
<1>6. CASE x + n <= E
  <2>1. G = LinkOnce(M, v, p, n) /\ Reached(v, n) = v + n - 1
    BY <1>1, <1>4, <1>6 DEF LinkPage, Reached
  <2>2. /\ G \in Tables
        /\ \A u \in Pages : Resolve(G, u) =
             IF Dir(u) = Dir(v) /\ Index(u) >= Index(v) /\ Index(u) <= Index(v) + n - 1
             THEN p + (Index(u) - Index(v)) ELSE Resolve(M, u)
    BY <1>2, <2>1, LinkOnceResolves
  <2>3. ASSUME NEW i \in 0..(n - 1) PROVE v + i \in Pages /\ Resolve(G, v + i) = p + i
    <3>1. v + i \in Nat /\ v + i <= v + n - 1 /\ i \in Nat /\ x + i < EntryNum
      BY <1>1, <1>2, <1>3, <1>4, <1>6
    <3>2. v + i \in Pages
      BY <1>5, <2>1, <3>1
    <3>3. Dir(v + i) = Dir(v) /\ Index(v + i) = x + i
      BY <1>3, <1>4, <3>1, Ahead
    <3>4. x + i >= x /\ x + i <= x + n - 1 /\ p + ((x + i) - x) = p + i
      BY <1>2, <1>4
    <3> QED
      BY <1>4, <2>2, <3>2, <3>3, <3>4
  <2> QED
    BY <2>2, <2>3
<1>7. CASE ~(x + n <= E)
  <2>1. PICK k : k = E - x
    OBVIOUS
  <2>2. k \in Nat /\ k < n /\ k < E /\ x + k = E
    BY <1>2, <1>4, <1>7, <2>1
  <2>3. PICK L : L = LinkOnce(M, v, p, n)
    OBVIOUS
  <2>4. PICK q \in Nat : q = p + k
    BY <2>2
  <2>5. PICK w \in Nat : w = v + k
    BY <1>3, <2>2
  <2>6. G = LinkOnce(L, w, q, n) /\ Reached(v, n) = w + n - 1
    BY <1>1, <1>4, <1>7, <2>1, <2>3, <2>4, <2>5 DEF LinkPage, Reached
  <2>7. w \in Pages /\ \A i \in 0..(n - 1) : v + i \in Pages
    <3>1. w <= w + n - 1 /\ \A i \in 0..(n - 1) : v + i \in Nat /\ v + i <= w + n - 1
      BY <1>2, <1>3, <2>2, <2>5
    <3> QED
      BY <1>5, <2>6, <3>1
  <2>8. /\ L \in Tables
        /\ \A u \in Pages : Resolve(L, u) =
             IF Dir(u) = Dir(v) /\ Index(u) >= Index(v) /\ Index(u) <= Index(v) + n - 1
             THEN p + (Index(u) - Index(v)) ELSE Resolve(M, u)
    BY <1>2, <2>3, LinkOnceResolves
  <2>9. /\ G \in Tables
        /\ \A u \in Pages : Resolve(G, u) =
             IF Dir(u) = Dir(w) /\ Index(u) >= Index(w) /\ Index(u) <= Index(w) + n - 1
             THEN q + (Index(u) - Index(w)) ELSE Resolve(L, u)
    BY <1>2, <2>6, <2>7, <2>8, LinkOnceResolves
  <2>10. Dir(w) = Dir(v) + 1 /\ Index(w) = 0
    <3>1. Dir(v + k) = Dir(v) + 1 /\ Index(v + k) = x + k - EntryNum
      BY <1>1, <1>3, <1>4, <2>2, Ahead
    <3> QED
      BY <1>1, <2>2, <2>5, <3>1
  <2>11. ASSUME NEW i \in 0..(n - 1) PROVE Resolve(G, v + i) = p + i
    <3>1. CASE i < k
      <4>1. i \in Nat /\ x + i < EntryNum
        BY <1>1, <1>4, <2>2, <3>1
      <4>2. Dir(v + i) = Dir(v) /\ Index(v + i) = x + i
        BY <1>3, <1>4, <4>1, Ahead
      <4>3. Dir(v) # Dir(v) + 1
        BY <1>3 DEF Dirs
      <4>4. Resolve(G, v + i) = Resolve(L, v + i)
        BY <2>7, <2>9, <2>10, <4>2, <4>3
      <4>5. x + i >= x /\ x + i <= x + n - 1 /\ p + ((x + i) - x) = p + i
        BY <1>2, <1>4
      <4> QED
        BY <1>4, <2>7, <2>8, <4>2, <4>4, <4>5
    <3>2. CASE ~(i < k)
      <4>1. i \in Nat /\ i < EntryNum /\ EntryNum <= x + i
        BY <1>1, <1>2, <1>4, <2>2, <3>2
      <4>2. Dir(v + i) = Dir(v) + 1 /\ Index(v + i) = x + i - EntryNum
        BY <1>3, <1>4, <4>1, Ahead
      <4>3. x + i - EntryNum >= 0 /\ x + i - EntryNum <= 0 + n - 1
              /\ q + ((x + i - EntryNum) - 0) = p + i
        BY <1>1, <1>2, <1>4, <2>2, <2>4, <4>1
      <4> QED
        BY <2>7, <2>9, <2>10, <4>2, <4>3
    <3> QED
      BY <3>1, <3>2
  <2> QED
    BY <2>7, <2>9, <2>11
<1> QED
  BY <1>6, <1>7

(* link_page inside one page table leaves the other pages. *)
LEMMA LinkKeeps ==
  ASSUME PagingAssumption, NEW M \in Tables, NEW v \in Pages, NEW p \in Nat,
         NEW n \in Nat, Index(v) + n <= EntryNum, NEW G, G = LinkPage(M, v, p, n)
  PROVE  /\ G \in Tables
         /\ \A u \in Pages : u \notin Span(v, n) => Resolve(G, u) = Resolve(M, u)
<1>1. v \in Nat /\ Dir(v) \in Nat /\ Index(v) \in Nat
  BY PageDir, DirIndex
<1>2. G = LinkOnce(M, v, p, n)
  BY DEF LinkPage
<1>3. /\ G \in Tables
      /\ \A u \in Pages : Resolve(G, u) =
           IF Dir(u) = Dir(v) /\ Index(u) >= Index(v) /\ Index(u) <= Index(v) + n - 1
           THEN p + (Index(u) - Index(v)) ELSE Resolve(M, u)
  BY <1>2, LinkOnceResolves
<1>4. ASSUME NEW u \in Pages, Dir(u) = Dir(v), Index(u) >= Index(v),
             Index(u) <= Index(v) + n - 1
      PROVE  u \in Span(v, n)
  <2>1. u \in Nat /\ Index(u) \in Nat
    BY PageDir, DirIndex
  <2>2. PICK b \in Nat : b = Dir(v) * EntryNum
    BY <1>1 DEF PagingAssumption
  <2>3. u = b + Index(u) /\ v = b + Index(v)
    BY <1>1, <1>4, <2>1, <2>2, DirIndex, Zenon
  <2> QED
    BY <1>1, <1>4, <2>1, <2>2, <2>3 DEF Span
<1> QED
  BY <1>3, <1>4

(* link_page of one page. *)
LEMMA LinkOneKeeps ==
  ASSUME PagingAssumption, NEW M \in Tables, NEW v \in Pages, NEW p \in Nat,
         NEW G, G = LinkPage(M, v, p, 1)
  PROVE  /\ G \in Tables
         /\ Resolve(G, v) = p
         /\ \A u \in Pages : u # v => Resolve(G, u) = Resolve(M, u)
<1>1. v \in Nat /\ Index(v) \in Indexes /\ EntryNum \in Nat /\ EntryNum >= 1
  BY PageDir DEF PagingAssumption
<1>2. Index(v) + 1 <= EntryNum /\ v + 1 - 1 = v
  BY <1>1 DEF Indexes
<1>3. /\ G \in Tables
      /\ \A u \in Pages : u \notin Span(v, 1) => Resolve(G, u) = Resolve(M, u)
  BY <1>2, LinkKeeps
<1>4. \A u \in Pages : u # v => u \notin Span(v, 1)
  BY <1>1, PageDir DEF Span
<1>5. Reached(v, 1) = v
  BY <1>2 DEF Reached
<1>6. \A i \in 0..(1 - 1) : v + i \in Pages /\ Resolve(G, v + i) = p + i
  <2>1. PICK n \in 1..EntryNum : n = 1
    BY <1>1
  <2>2. Reached(v, n) \in Pages /\ G = LinkPage(M, v, p, n)
    BY <1>5, <2>1
  <2>3. \A i \in 0..(n - 1) : v + i \in Pages /\ Resolve(G, v + i) = p + i
    BY <2>2, LinkPageResolves
  <2> QED
    BY <2>1, <2>3
<1>7. v + 0 = v /\ p + 0 = p
  BY <1>1
<1> QED
  BY <1>3, <1>4, <1>6, <1>7

(* unlink_page clears its range and nothing else. *)
LEMMA UnlinkResolves ==
  ASSUME PagingAssumption, NEW M \in Tables, NEW v \in Nat, NEW n \in Nat,
         NEW G, G = UnlinkPage(M, v, n)
  PROVE  /\ G \in Tables
         /\ \A u \in Pages : u \in Span(v, n) => Resolve(G, u) = 0
         /\ \A u \in Pages : u \notin Span(v, n) => Resolve(G, u) = Resolve(M, u)
<1>1. \A d \in Dirs : G[d] = IF M[d] = NoTable THEN NoTable
                             ELSE [i \in Indexes |-> IF d * EntryNum + i \in v..(v + n - 1) THEN 0
                                                     ELSE M[d][i]]
  BY DEF UnlinkPage, Dirs, Indexes
<1>2. \A d \in Dirs : M[d] # NoTable => M[d] \in [Indexes -> Nat]
  BY DEF Tables
<1>3. \A d \in Dirs : M[d] # NoTable =>
        /\ G[d] \in [Indexes -> Nat]
        /\ \A i \in Indexes : G[d][i] = IF d * EntryNum + i \in v..(v + n - 1) THEN 0 ELSE M[d][i]
  <2> SUFFICES ASSUME NEW d \in Dirs, M[d] # NoTable
               PROVE  /\ G[d] \in [Indexes -> Nat]
                      /\ \A i \in Indexes :
                           G[d][i] = IF d * EntryNum + i \in v..(v + n - 1) THEN 0 ELSE M[d][i]
    OBVIOUS
  <2>1. PICK S : S = v..(v + n - 1)
    OBVIOUS
  <2>2. PICK b : b = [i \in Indexes |-> d * EntryNum + i]
    OBVIOUS
  <2>3. G[d] = [i \in Indexes |-> IF d * EntryNum + i \in S THEN 0 ELSE M[d][i]]
    BY <1>1, <2>1
  <2>4. \A i \in Indexes : M[d][i] \in Nat
    BY <1>2
  <2>5. G[d] = [i \in Indexes |-> IF b[i] \in S THEN 0 ELSE M[d][i]]
    BY <2>2, <2>3, Zenon
  <2>6. G[d] \in [Indexes -> Nat]
    BY <2>4, <2>5
  <2> QED
    BY <2>1, <2>3, <2>6, Zenon
<1>4. \A d \in Dirs : M[d] # NoTable => G[d] # NoTable
  BY <1>3, NoTableApart
<1>5. G \in Tables
  BY <1>1, <1>3 DEF Tables, UnlinkPage, Dirs
<1>6. ASSUME NEW u \in Pages
      PROVE  Resolve(G, u) = IF u \in v..(v + n - 1) THEN 0 ELSE Resolve(M, u)
  <2>1. u \in Nat /\ Dir(u) \in Dirs /\ Index(u) \in Indexes
    BY PageDir
  <2>2. u = Dir(u) * EntryNum + Index(u)
    BY <2>1, DirIndex
  <2>3. CASE M[Dir(u)] = NoTable
    BY <1>1, <2>1, <2>3 DEF Resolve
  <2>4. CASE M[Dir(u)] # NoTable
    BY <1>3, <1>4, <2>1, <2>2, <2>4, Zenon DEF Resolve
  <2> QED
    BY <2>3, <2>4
<1> QED
  BY <1>5, <1>6 DEF Span

-----------------------------------------------------------------------------
(* Steps. *)

(* What a fault or a payload needs: page tables are typed, so that entries *)
(* of different pages are different, a thread waits for the first page of  *)
(* its payload, and the last payload has arrived.                          *)
Waiting(w) ==
  /\ w.proc \in Procs /\ w.page \in Pages
  /\ w.payload # NoPayload =>
       /\ w.payload \in Payloads /\ Fits(w.payload)
       /\ w.payload.from = w.proc /\ w.payload.src = w.page
PagingInv ==
  /\ table \in [Procs -> Tables]
  /\ next \in Nat
  /\ \A w \in waits : Waiting(w)
  /\ PayloadMoved

(* What a step does to the tables. *)
Moves == table' \in [Procs -> Tables] /\ PayloadMoved' /\ KeepsOthers

LEMMA StopMoves ==
  ASSUME PagingInv, UNCHANGED <<table, call>>
  PROVE  Moves
  BY DEF PagingInv, PayloadMoved, KeepsOthers, Moves, Resolve

LEMMA AskPagerInv ==
  ASSUME PagingInv, NEW p \in Procs, NEW v \in Pages, NEW m,
         m # NoPayload => m \in Payloads /\ Fits(m) /\ m.from = p /\ m.src = v,
         AskPager(p, v, m)
  PROVE  PagingInv' /\ KeepsOthers
<1>1. UNCHANGED <<table, next, call>>
  BY DEF AskPager, Stop
<1>2. Moves
  BY <1>1, StopMoves
<1>3. PICK w : w = [id |-> calls, proc |-> p, page |-> v, payload |-> m]
  OBVIOUS
<1>4. waits' = waits \/ waits' = waits \cup {w}
  BY <1>3 DEF AskPager
<1>5. Waiting(w)
  BY <1>3 DEF Waiting
<1>6. \A x \in waits' : Waiting(x)
  BY <1>4, <1>5 DEF PagingInv
<1> QED
  BY <1>1, <1>2, <1>6 DEF PagingInv, Moves

(* The end of sys_ipc.  A are the tables once the first page is there, F   *)
(* the sender's, R the receiver's after link_page, X the sender's then and *)
(* S after unlink_page.                                                    *)
LEMMA TransferMoves ==
  ASSUME PagingAssumption, PagingInv, NEW A \in [Procs -> Tables], NEW m \in Payloads, Fits(m),
         \A p \in Procs, u \in Pages :
           ~(p = m.from /\ u = m.src) => Resolve(A[p], u) = Resolve(table[p], u),
         Transfer(A, m)
  PROVE  Moves
<1>1. PICK s \in Procs : s = m.from
  BY DEF Payloads
<1>2. PICK v \in Pages : v = m.src
  BY DEF Payloads
<1>3. PICK base \in Pages : base = m.base.page
  BY DEF Payloads, PagingAssumption
<1>4. PICK n \in Nat : n = 2^m.order
  BY DEF Payloads, PagingAssumption
<1>5. n >= 1 /\ v \in Nat
  BY <1>4, PageDir DEF Payloads, PagingAssumption
<1>6. PICK F \in Tables : F = A[s]
  OBVIOUS
<1>7. PICK frame : frame = Resolve(F, v)
  OBVIOUS
<1>8. frame \in Nat
  BY <1>7, PageDir DEF Resolve, Tables
<1>9. PICK L : L = IF m.to = Kernel THEN A ELSE [A EXCEPT ![m.to] = LinkPage(@, base, frame, n)]
  OBVIOUS
<1>10. \/ table' = A /\ call' = [op |-> "refused"]
       \/ UNCHANGED <<table, call>>
       \/ /\ table' = [L EXCEPT ![s] = UnlinkPage(@, v, n)]
          /\ call' = [op |-> "send", from |-> s, src |-> v, to |-> m.to,
                      at |-> base, frame |-> frame, num |-> n]
          /\ m.to # Kernel => LinkEnds(base, n)
  BY <1>1, <1>2, <1>3, <1>4, <1>6, <1>7, <1>9 DEF Transfer, Stop
<1>11. CASE table' = A /\ call' = [op |-> "refused"]
  <2>1. call'.op \notin {"fault", "send"}
    BY <1>11
  <2> QED
    BY <1>11, <2>1 DEF PayloadMoved, KeepsOthers, Moves
<1>12. CASE UNCHANGED <<table, call>>
  BY <1>12, StopMoves
<1>13. CASE /\ table' = [L EXCEPT ![s] = UnlinkPage(@, v, n)]
            /\ call' = [op |-> "send", from |-> s, src |-> v, to |-> m.to,
                        at |-> base, frame |-> frame, num |-> n]
            /\ m.to # Kernel => LinkEnds(base, n)
  <2>1. /\ call'.op = "send" /\ call'.from = s /\ call'.at = base /\ call'.to = m.to
        /\ call'.src = v /\ call'.frame = frame /\ call'.num = n
    BY <1>13
  <2>2. \A u \in Span(v, n) : u \in Pages
    <3>1. v + n - 1 \in Pages
      BY <1>2, <1>4 DEF Fits
    <3> QED
      BY <1>5, <3>1 DEF Span, Pages, PagingAssumption
  <2>3. v \in Span(v, n)
    BY <1>5 DEF Span
  <2>4. ASSUME NEW X \in Tables, NEW S, S = UnlinkPage(X, v, n)
        PROVE  /\ S \in Tables
               /\ \A u \in Span(v, n) : Resolve(S, u) = 0
               /\ \A u \in Pages : u \notin Span(v, n) => Resolve(S, u) = Resolve(X, u)
    <3>1. PICK w \in Nat : w = v
      BY <1>5
    <3>2. S = UnlinkPage(X, w, n)
      BY <2>4, <3>1
    <3>3. S \in Tables
      BY <3>2, UnlinkResolves
    <3>4. \A u \in Pages : u \in Span(w, n) => Resolve(S, u) = 0
      BY <3>2, UnlinkResolves
    <3>5. \A u \in Pages : u \notin Span(w, n) => Resolve(S, u) = Resolve(X, u)
      BY <3>2, UnlinkResolves
    <3> QED
      BY <2>2, <3>1, <3>3, <3>4, <3>5
  <2>5. CASE m.to = Kernel
    <3>1. PICK S : S = UnlinkPage(F, v, n)
      OBVIOUS
    <3>2. /\ S \in Tables
          /\ \A u \in Span(v, n) : Resolve(S, u) = 0
          /\ \A u \in Pages : u \notin Span(v, n) => Resolve(S, u) = Resolve(F, u)
      BY <2>4, <3>1
    <3>3. /\ table' \in [Procs -> Tables] /\ table'[s] = S
          /\ \A q \in Procs \ {s} : table'[q] = A[q]
      BY <1>6, <1>9, <1>13, <2>5, <3>1, <3>2
    <3>4. PayloadMoved'
      BY <2>1, <2>5, <3>2, <3>3 DEF PayloadMoved, Resolve, Span
    <3>5. ASSUME NEW q \in Procs, NEW u \in Pages, ~(q = s /\ u \in Span(v, n))
          PROVE  Resolve(table'[q], u) = Resolve(table[q], u)
      <4>1. Resolve(A[q], u) = Resolve(table[q], u)
        BY <1>1, <1>2, <2>3, <3>5
      <4>2. Resolve(table'[q], u) = Resolve(A[q], u)
        BY <1>6, <3>2, <3>3, <3>5
      <4> QED
        BY <4>1, <4>2
    <3>6. KeepsOthers
      BY <2>1, <3>5 DEF KeepsOthers
    <3> QED
      BY <3>3, <3>4, <3>6 DEF Moves
  <2>6. CASE m.to # Kernel
    <3>1. PICK r \in Procs : r = m.to
      BY <2>6 DEF Payloads
    <3>2. PICK M \in Tables : M = A[r]
      OBVIOUS
    <3>3. PICK R : R = LinkPage(M, base, frame, n)
      OBVIOUS
    <3>4. LinkEnds(base, n) /\ Reached(base, n) \in Pages
      BY <1>3, <1>4, <1>13, <2>6 DEF Fits
    <3>5. n \in 1..EntryNum
      <4>1. Index(base) \in Nat /\ EntryNum \in Nat
        BY PageDir, DirIndex DEF PagingAssumption
      <4> QED
        BY <1>5, <3>4, <4>1 DEF LinkEnds
    <3>6. /\ R \in Tables
          /\ \A i \in 0..(n - 1) : base + i \in Pages /\ Resolve(R, base + i) = frame + i
      BY <1>8, <3>3, <3>4, <3>5, LinkPageResolves
    <3>7. PICK X \in Tables : X = IF r = s THEN R ELSE F
      BY <3>6
    <3>8. PICK S : S = UnlinkPage(X, v, n)
      OBVIOUS
    <3>9. /\ S \in Tables
          /\ \A u \in Span(v, n) : Resolve(S, u) = 0
          /\ \A u \in Pages : u \notin Span(v, n) => Resolve(S, u) = Resolve(X, u)
      BY <2>4, <3>8
    <3>10. L = [A EXCEPT ![r] = R] /\ L[s] = X
      BY <1>6, <1>9, <2>6, <3>1, <3>2, <3>3, <3>7
    <3>11. /\ table' \in [Procs -> Tables] /\ table'[s] = S
           /\ r # s => table'[r] = R
           /\ \A q \in Procs \ {s, r} : table'[q] = A[q]
      BY <1>13, <3>6, <3>8, <3>9, <3>10
    <3>12. PayloadMoved'
      <4>1. ASSUME NEW i \in 0..(n - 1)
            PROVE  \/ Resolve(table'[r], base + i) = frame + i
                   \/ r = s /\ base + i \in Span(v, n)
        <5>1. CASE r # s
          BY <3>6, <3>11, <5>1
        <5>2. CASE r = s
          BY <3>6, <3>7, <3>9, <3>11, <5>2
        <5> QED
          BY <5>1, <5>2
      <4>2. \A u \in Span(v, n) : Resolve(table'[s], u) = 0
        BY <3>9, <3>11
      <4> QED
        BY <2>1, <3>1, <4>1, <4>2 DEF PayloadMoved, Resolve, Span
    <3>13. KeepsOthers
      <4>1. ASSUME Index(base) + n <= EntryNum, NEW q \in Procs, NEW u \in Pages,
                   ~(q = r /\ u \in Span(base, n)), ~(q = s /\ u \in Span(v, n))
            PROVE  Resolve(table'[q], u) = Resolve(table[q], u)
        <5>1. Resolve(A[q], u) = Resolve(table[q], u)
          BY <1>1, <1>2, <2>3, <4>1
        <5>2. q = r => Resolve(R, u) = Resolve(M, u)
          BY <1>8, <3>3, <4>1, LinkKeeps
        <5>3. Resolve(table'[q], u) = Resolve(A[q], u)
          BY <1>6, <3>2, <3>7, <3>9, <3>11, <4>1, <5>2
        <5> QED
          BY <5>1, <5>3
      <4> QED
        BY <2>1, <3>1, <4>1 DEF KeepsOthers
    <3> QED
      BY <3>11, <3>12, <3>13 DEF Moves
  <2> QED
    BY <2>5, <2>6
<1> QED
  BY <1>10, <1>11, <1>12, <1>13

LEMMA PageFaultInv ==
  ASSUME PagingInv, NEW p \in Procs, NEW v \in Pages, PageFault(p, v)
  PROVE  PagingInv' /\ KeepsOthers
<1>1. CASE AskPager(p, v, NoPayload)
  BY <1>1, AskPagerInv
<1>2. CASE UNCHANGED <<table, call, next, waits>>
  BY <1>2, StopMoves DEF PagingInv, Moves
<1> QED
  BY <1>1, <1>2 DEF PageFault, Stop

LEMMA SendPageInv ==
  ASSUME PagingAssumption, PagingInv, NEW m \in Payloads, Fits(m), SendPage(m)
  PROVE  PagingInv' /\ KeepsOthers
<1>1. m.from \in Procs /\ m.src \in Pages
  BY DEF Payloads
<1>2. CASE AskPager(m.from, m.src, m)
  BY <1>1, <1>2, AskPagerInv
<1>3. CASE Transfer(table, m) /\ UNCHANGED <<next, waits>>
  <2>1. table \in [Procs -> Tables]
    BY DEF PagingInv
  <2>2. Moves
    BY <1>3, <2>1, TransferMoves
  <2> QED
    BY <1>3, <2>2 DEF PagingInv, Moves
<1> QED
  BY <1>2, <1>3 DEF SendPage

(* The pager's answer: T are the tables with the page it gave. *)
LEMMA PagerAnswersInv ==
  ASSUME PagingAssumption, PagingInv, NEW w \in waits, PagerAnswers(w)
  PROVE  PagingInv' /\ KeepsOthers
<1>1. Waiting(w)
  BY DEF PagingInv
<1>2. PICK p \in Procs : p = w.proc
  BY <1>1 DEF Waiting
<1>3. PICK v \in Pages : v = w.page
  BY <1>1 DEF Waiting
<1>4. PICK f \in Nat : f = next
  BY DEF PagingInv
<1>5. PICK M \in Tables : M = table[p]
  BY DEF PagingInv
<1>6. PICK G : G = LinkPage(M, v, f, 1)
  OBVIOUS
<1>7. /\ G \in Tables /\ Resolve(G, v) = f
      /\ \A u \in Pages : u # v => Resolve(G, u) = Resolve(M, u)
  BY <1>6, LinkOneKeeps
<1>8. PICK T : T = [table EXCEPT ![p] = G]
  OBVIOUS
<1>9. T \in [Procs -> Tables] /\ T[p] = G /\ \A q \in Procs \ {p} : T[q] = table[q]
  BY <1>7, <1>8 DEF PagingInv
<1>10. \A q \in Procs, u \in Pages :
         ~(q = p /\ u = v) => Resolve(T[q], u) = Resolve(table[q], u)
  BY <1>5, <1>7, <1>9
<1>11. T = [table EXCEPT ![w.proc] = LinkPage(@, w.page, next, 1)]
  BY <1>2, <1>3, <1>4, <1>5, <1>6, <1>8
<1>12. waits' = waits \ {w} /\ (next' = f \/ next' = f + 1)
  BY <1>4 DEF PagerAnswers
<1>13. \/ UNCHANGED <<table, call>>
       \/ w.payload # NoPayload /\ Transfer(T, w.payload)
       \/ /\ table' = T
          /\ call' = [op |-> "fault", to |-> p, at |-> v, frame |-> f, num |-> 1]
  BY <1>2, <1>3, <1>4, <1>11 DEF PagerAnswers, Stop
<1>14. Moves
  <2>1. CASE UNCHANGED <<table, call>>
    BY <2>1, StopMoves
  <2>2. CASE w.payload # NoPayload /\ Transfer(T, w.payload)
    <3>1. PICK m \in Payloads : m = w.payload
      BY <1>1, <2>2 DEF Waiting
    <3>2. Fits(m) /\ m.from = p /\ m.src = v /\ Transfer(T, m)
      BY <1>1, <1>2, <1>3, <2>2, <3>1 DEF Waiting
    <3> QED
      BY <1>9, <1>10, <3>2, TransferMoves
  <2>3. CASE /\ table' = T
             /\ call' = [op |-> "fault", to |-> p, at |-> v, frame |-> f, num |-> 1]
    <3>1. /\ call'.op = "fault" /\ call'.to = p /\ call'.at = v /\ call'.frame = f
          /\ call'.num = 1
      BY <2>3
    <3>2. PayloadMoved'
      BY <1>7, <1>9, <2>3, <3>1 DEF PayloadMoved, Resolve
    <3>3. v \in Span(v, 1)
      BY PageDir DEF Span
    <3>4. KeepsOthers
      BY <1>10, <2>3, <3>1, <3>3 DEF KeepsOthers
    <3> QED
      BY <1>9, <2>3, <3>2, <3>4 DEF Moves
  <2> QED
    BY <1>13, <2>1, <2>2, <2>3
<1> QED
  BY <1>12, <1>14 DEF PagingInv, Moves

LEMMA NextPaging ==
  ASSUME PagingAssumption, PagingInv, Next
  PROVE  PagingInv' /\ KeepsOthers
  BY PageFaultInv, SendPageInv, PagerAnswersInv DEF Next

LEMMA InitPaging ==
  ASSUME PagingAssumption, Init
  PROVE  PagingInv
<1>1. table \in [Procs -> Tables] /\ next \in Nat /\ waits = {}
  BY DEF Init, Tables, Dirs
<1>2. call.op = "none"
  BY DEF Init
<1> QED
  BY <1>1, <1>2 DEF PagingInv, PayloadMoved

LEMMA PagingInductive ==
  ASSUME PagingAssumption
  PROVE  Spec => []PagingInv
<1>1. Init => PagingInv
  BY InitPaging
<1>2. PagingInv /\ [Next]_vars => PagingInv'
  <2>1. PagingInv /\ Next => PagingInv'
    BY NextPaging
  <2>2. PagingInv /\ UNCHANGED vars => PagingInv'
    BY DEF vars, PagingInv, PayloadMoved
  <2> QED
    BY <2>1, <2>2
<1> QED
  BY <1>1, <1>2, PTL DEF Spec

(* link_page, unlink_page and the payload of sys_ipc: after a page fault   *)
(* or a payload of any order the receiver resolves every page of the range *)
(* to its frame, whatever page tables it spans and whatever other threads  *)
(* did while the sender waited for its pager, and the sender none.         *)
THEOREM PayloadsMove ==
  ASSUME PagingAssumption
  PROVE  Spec => []PayloadMoved
<1>1. PagingInv => PayloadMoved
  BY DEF PagingInv
<1> QED
  BY <1>1, PagingInductive, PTL

(* A page fault, or a payload whose pages go into one page table, changes  *)
(* no other page of any process.                                           *)
THEOREM OtherPagesStay ==
  ASSUME PagingAssumption
  PROVE  Spec => OthersUntouched
<1>1. PagingInv /\ [Next]_vars => [KeepsOthers]_vars
  BY NextPaging
<1> QED
  BY <1>1, PagingInductive, PTL DEF Spec, OthersUntouched
=============================================================================
