------------------------------ MODULE SkipProofs ------------------------------
(***************************************************************************)
(* The classes of storeds/skiplist, for every number of threads, keys,     *)
(* levels, nodes, calls, failures and restarts and whatever levels the     *)
(* coin gives the nodes: SkipList's IInv is inductive, and what it means   *)
(* for the callers and for the pool.                                       *)
(***************************************************************************)
EXTENDS SkipList, ProgramProofs

-----------------------------------------------------------------------------
(***************************************************************************)
(* Where the cells are, and what can be in them.                           *)
(***************************************************************************)
RootCell == <<0, "root_node_oid">>

LEMMA Objects ==
  /\ Node \subseteq Nat \ {0} /\ Node # {} /\ Zero \notin Node
  /\ Level \subseteq Nat /\ 0 \in Level
  /\ SKIPLIST_LEVELS_NUM - 1 \in Level
  /\ Node = 1..MaxNode /\ MaxNode \in Nat \ {0} /\ 1 \in Node
  /\ Level = 0..(SKIPLIST_LEVELS_NUM - 1)
BY SkipAssumption, ContentAssumption DEF Node, Level

LEMMA Cells ==
  /\ RootCells = {RootCell} /\ RootCell \in Cell /\ RootCells \subseteq Cell
  /\ \A o \in Node :
       /\ NodeCells(o) \subseteq Cell /\ EntryOf(o) \subseteq NodeCells(o)
       /\ <<o, "key">> \in NodeCells(o) /\ <<o, "value">> \in NodeCells(o)
       /\ <<o, "value">> \in EntryOf(o)
       /\ \A l \in Level : /\ NextCell(o, l) \in NodeCells(o)
                           /\ NextCell(o, l) \in Pointer
                           /\ Behind(o, l) \subseteq NodeCells(o)
                           /\ NextCell(o, l) \in Behind(o, l)
  /\ Pointer \subseteq Cell /\ RootCell \in Pointer
<1>1. Cell = SkipCell BY ContentAssumption
<1>2. RootCells = {RootCell} BY DEF RootCells, RootCell
<1>3. RootCells \subseteq Cell BY <1>1, Zenon DEF SkipCell
<1>4. \A o \in Node : NodeCells(o) \subseteq Cell BY <1>1 DEF SkipCell
<1>5. ASSUME NEW o \in Node
      PROVE  /\ EntryOf(o) \subseteq NodeCells(o)
             /\ <<o, "key">> \in NodeCells(o) /\ <<o, "value">> \in NodeCells(o)
             /\ <<o, "value">> \in EntryOf(o)
             /\ \A l \in Level : /\ NextCell(o, l) \in NodeCells(o)
                                 /\ NextCell(o, l) \in Pointer
  BY DEF NodeCells, EntryOf, Pointer
<1>6. ASSUME NEW o \in Node, NEW l \in Level
      PROVE  Behind(o, l) \subseteq NodeCells(o) /\ NextCell(o, l) \in Behind(o, l)
  <2>1. l..(SKIPLIST_LEVELS_NUM - 1) \subseteq Level
        /\ l \in l..(SKIPLIST_LEVELS_NUM - 1)
    BY Objects
  <2>2. ASSUME NEW m \in l..(SKIPLIST_LEVELS_NUM - 1)
        PROVE  NextCell(o, m) \in NodeCells(o)
    BY <2>1, Zenon DEF NodeCells
  <2>3. Behind(o, l) \subseteq NodeCells(o) BY <2>2 DEF Behind
  <2>4. NextCell(o, l) \in Behind(o, l)
    <3> HIDE DEF NextCell
    <3> QED BY <2>1 DEF Behind
  <2> QED BY <2>3, <2>4
<1>7. Pointer \subseteq Cell
  <2>1. \A o \in Node, l \in Level : NextCell(o, l) \in Cell BY <1>4, <1>5
  <2> DEFINE Next_ == {NextCell(o, l) : o \in Node, l \in Level}
  <2>2. Next_ \subseteq Cell BY <2>1
  <2> HIDE DEF Next_
  <2>3. RootCells \cup Next_ \subseteq Cell BY <1>3, <2>2
  <2> QED BY <2>3 DEF Pointer, Next_
<1>8. RootCell \in Pointer BY <1>2 DEF Pointer
<1> QED BY <1>2, <1>3, <1>4, <1>5, <1>6, <1>7, <1>8

\* No two fields share a cell.
LEMMA Fields ==
  /\ \A o, q : \A l, m : NextCell(o, l) = NextCell(q, m) => o = q /\ l = m
  /\ \A o, q : \A l : /\ NextCell(o, l) # <<q, "key">>
                      /\ NextCell(o, l) # <<q, "value">>
                      /\ NextCell(o, l) # RootCell
  /\ \A o, q : /\ <<o, "key">> # <<q, "value">>
               /\ <<o, "key">> # RootCell /\ <<o, "value">> # RootCell
               /\ <<o, "key">> = <<q, "key">> => o = q
               /\ <<o, "value">> = <<q, "value">> => o = q
  /\ \A o : <<o, "key">> \notin Pointer /\ <<o, "value">> \notin Pointer
  /\ \A o \in Node : RootCell \notin NodeCells(o)
  /\ \A o, q \in Node : o # q => NodeCells(o) \cap NodeCells(q) = {}
<1>1. /\ \A o, q : \A l, m : NextCell(o, l) = NextCell(q, m) => o = q /\ l = m
      /\ \A o, q : \A l : /\ NextCell(o, l) # <<q, "key">>
                          /\ NextCell(o, l) # <<q, "value">>
                          /\ NextCell(o, l) # RootCell
      /\ \A o, q : /\ <<o, "key">> # <<q, "value">>
                   /\ <<o, "key">> # RootCell /\ <<o, "value">> # RootCell
                   /\ <<o, "key">> = <<q, "key">> => o = q
                   /\ <<o, "value">> = <<q, "value">> => o = q
  BY DEF NextCell, RootCell
<1>2. \A o : <<o, "key">> \notin Pointer /\ <<o, "value">> \notin Pointer
  BY <1>1, Cells DEF Pointer
<1>3. \A o \in Node : RootCell \notin NodeCells(o)
  BY <1>1 DEF NodeCells, EntryOf
<1>4. \A o, q \in Node : o # q => NodeCells(o) \cap NodeCells(q) = {}
  BY <1>1 DEF NodeCells, EntryOf
<1> QED BY <1>1, <1>2, <1>3, <1>4

LEMMA Contents ==
  /\ Zero \in Value /\ Torn \in Value /\ Node \subseteq Value
  /\ Key \subseteq Value /\ Val \subseteq Value /\ Key \subseteq Nat
BY ContentAssumption, StoredsAssumption DEF SkipValue

\* A class is volatile, or pmem, or tx, and inserts what it is to update.
LEMMA Media ==
  ASSUME CallInv
  PROVE  /\ \/ Volatile(cls) /\ cls.medium \notin {"pmem", "tx"}
            \/ ~Volatile(cls) /\ cls.medium = "pmem"
            \/ ~Volatile(cls) /\ cls.medium = "tx"
         /\ cls.upsert
BY StoredsAssumption, ClassAssumption DEF CallInv, CallTypeOK, Volatile

-----------------------------------------------------------------------------
(***************************************************************************)
(* Loops: a search along a level and a walk through it.                    *)
(***************************************************************************)
LEMMA LoopIs ==
  ASSUME NEW o, NEW f
  PROVE  /\ Loop(o, f)[0] = o
         /\ \A n \in 1..MaxNode : Loop(o, f)[n] = f[Loop(o, f)[n - 1]]
<1> DEFINE Def(g, m) ==
             g = [n \in 0..m |-> IF n = 0 THEN o ELSE f[g[n - 1]]]
           T == {m \in Nat : \E g : Def(g, m)}
<1>1. 0 \in T
  <2> DEFINE g == [n \in 0..0 |-> o]
  <2>1. \A n \in 0..0 : n = 0 OBVIOUS
  <2>2. Def(g, 0) BY <2>1
  <2> QED BY <2>2
<1>2. ASSUME NEW m \in T PROVE m + 1 \in T
  <2>1. m \in Nat OBVIOUS
  <2>2. PICK g : Def(g, m) OBVIOUS
  <2> DEFINE h == [n \in 0..(m + 1) |-> IF n = 0 THEN o ELSE f[g[n - 1]]]
  <2>3. \A n \in 0..m : g[n] = IF n = 0 THEN o ELSE f[g[n - 1]]
    BY <2>2, Zenon
  <2>4. \A n \in 0..m : n \in 0..(m + 1) BY <2>1
  <2>5. \A n \in 0..m : h[n] = g[n] BY <2>3, <2>4, Zenon
  <2>6. \A n \in 0..(m + 1) : n = 0 \/ n - 1 \in 0..m BY <2>1
  <2>7. h = [n \in 0..(m + 1) |-> IF n = 0 THEN o ELSE f[h[n - 1]]]
    <3> DEFINE e == [n \in 0..(m + 1) |-> IF n = 0 THEN o ELSE f[h[n - 1]]]
    <3>1. \A n \in 0..(m + 1) : h[n] = e[n] BY <2>5, <2>6, Zenon
    <3>2. h = [n \in 0..(m + 1) |-> h[n]] OBVIOUS
    <3>3. e = [n \in 0..(m + 1) |-> e[n]] OBVIOUS
    <3> HIDE DEF h, e
    <3>4. h = e BY <3>1, <3>2, <3>3
    <3> QED BY <3>4 DEF e
  <2>8. Def(h, m + 1) BY <2>7, Zenon
  <2> HIDE DEF Def, h
  <2> QED BY <2>1, <2>8
<1>3. T = Nat
  <2>1. T \subseteq Nat OBVIOUS
  <2> HIDE DEF T
  <2> QED BY <1>1, <1>2, <2>1, NumbersByInduction
<1>4. \E g : Def(g, MaxNode)
  <2>1. MaxNode \in T BY <1>3, Objects
  <2> QED BY <2>1, Zenon
<1> DEFINE G == CHOOSE g : Def(g, MaxNode)
<1>5. Def(G, MaxNode) BY <1>4, Zenon
<1>6. Loop(o, f) = G BY DEF Loop
<1> HIDE DEF G
<1>7. \A n \in 0..MaxNode : G[n] = IF n = 0 THEN o ELSE f[G[n - 1]]
  BY <1>5, Zenon
<1>8. 0 \in 0..MaxNode /\ \A n \in 1..MaxNode : n \in 0..MaxNode /\ n # 0
  BY Objects
<1> QED BY <1>6, <1>7, <1>8, Zenon

\* What holds at first and is kept by every turn holds throughout.
LEMMA LoopKeeps ==
  ASSUME NEW o, NEW f, NEW A, o \in A,
         \A n \in 1..MaxNode :
           Loop(o, f)[n - 1] \in A => f[Loop(o, f)[n - 1]] \in A
  PROVE  \A n \in 0..MaxNode : Loop(o, f)[n] \in A
<1> DEFINE g == Loop(o, f)
           T == {n \in Nat : n \in 0..MaxNode => g[n] \in A}
<1>1. g[0] = o /\ \A n \in 1..MaxNode : g[n] = f[g[n - 1]] BY LoopIs
<1>2. \A n \in 1..MaxNode : g[n - 1] \in A => f[g[n - 1]] \in A OBVIOUS
<1> HIDE DEF g
<1>3. 0 \in T BY <1>1
<1>4. ASSUME NEW n \in T PROVE n + 1 \in T
  <2> SUFFICES ASSUME n + 1 \in 0..MaxNode PROVE g[n + 1] \in A OBVIOUS
  <2>1. n \in 0..MaxNode /\ n + 1 \in 1..MaxNode /\ (n + 1) - 1 = n
    BY Objects
  <2>2. g[n] \in A BY <2>1
  <2>3. g[n + 1] = f[g[n]] /\ f[g[n]] \in A BY <1>1, <1>2, <2>1, <2>2
  <2> QED BY <2>3
<1>5. T = Nat
  <2>1. T \subseteq Nat OBVIOUS
  <2> HIDE DEF T
  <2> QED BY <1>3, <1>4, <2>1, NumbersByInduction
<1>6. \A n \in 0..MaxNode : n \in T
  <2> HIDE DEF T
  <2> QED BY <1>5, Objects
<1>7. \A n \in 0..MaxNode : g[n] \in A BY <1>6
<1> QED BY <1>7 DEF g

\* A loop does not leave what no turn leaves.
LEMMA LoopStays ==
  ASSUME NEW o, NEW f, NEW B, \A x \in B : f[x] \in B
  PROVE  \A m, n \in 0..MaxNode :
           m <= n /\ Loop(o, f)[m] \in B => Loop(o, f)[n] \in B
<1> DEFINE w == Loop(o, f)
           T == {n \in Nat : n \in 0..MaxNode =>
                   \A m \in 0..MaxNode : m <= n /\ w[m] \in B => w[n] \in B}
<1>1. \A n \in 1..MaxNode : w[n] = f[w[n - 1]] BY LoopIs
<1> HIDE DEF w
<1>2. 0 \in T OBVIOUS
<1>3. ASSUME NEW n \in T PROVE n + 1 \in T
  <2> SUFFICES ASSUME n + 1 \in 0..MaxNode, NEW m \in 0..MaxNode,
                      m <= n + 1, w[m] \in B
               PROVE  w[n + 1] \in B
    OBVIOUS
  <2>1. n \in 0..MaxNode /\ n + 1 \in 1..MaxNode /\ (n + 1) - 1 = n
    BY Objects
  <2>2. CASE m = n + 1 BY <2>2
  <2>3. CASE m # n + 1
    <3>1. m <= n BY <2>3, Objects
    <3>2. w[n] \in B BY <2>1, <3>1
    <3> QED BY <1>1, <2>1, <3>2
  <2> QED BY <2>2, <2>3
<1>4. T = Nat
  <2>1. T \subseteq Nat OBVIOUS
  <2> HIDE DEF T
  <2> QED BY <1>2, <1>3, <2>1, NumbersByInduction
<1>5. ASSUME NEW m \in 0..MaxNode, NEW n \in 0..MaxNode, m <= n, w[m] \in B
      PROVE  w[n] \in B
  <2>1. n \in T
    <3> HIDE DEF T
    <3> QED BY <1>4, Objects
  <2> QED BY <1>5, <2>1
<1> QED BY <1>5 DEF w

\* There are not enough nodes for a loop that comes to a new one every turn.
LEMMA NodesEnd ==
  ASSUME NEW g, \A n \in 0..MaxNode : g[n] \in Node, NEW R,
         \A x, y, z : <<x, y>> \in R /\ <<y, z>> \in R => <<x, z>> \in R,
         \A x : <<x, x>> \notin R,
         \A n \in 1..MaxNode : <<g[n - 1], g[n]>> \in R
  PROVE  FALSE
<1> DEFINE T == {n \in Nat : n \in 0..MaxNode =>
                               \A m \in 0..MaxNode : m < n => <<g[m], g[n]>> \in R}
<1>1. 0 \in T OBVIOUS
<1>2. ASSUME NEW n \in T PROVE n + 1 \in T
  <2> SUFFICES ASSUME n + 1 \in 0..MaxNode, NEW m \in 0..MaxNode, m < n + 1
               PROVE  <<g[m], g[n + 1]>> \in R
    OBVIOUS
  <2>1. n \in 0..MaxNode /\ n + 1 \in 1..MaxNode /\ (n + 1) - 1 = n
    BY Objects
  <2>2. <<g[n], g[n + 1]>> \in R BY <2>1
  <2>3. CASE m = n BY <2>2, <2>3
  <2>4. CASE m # n
    <3>1. m < n BY <2>4, Objects
    <3>2. <<g[m], g[n]>> \in R BY <2>1, <3>1
    <3> QED BY <2>2, <3>2
  <2> QED BY <2>3, <2>4
<1>3. T = Nat
  <2>1. T \subseteq Nat OBVIOUS
  <2> HIDE DEF T
  <2> QED BY <1>1, <1>2, <2>1, NumbersByInduction
<1>4. \A m, n \in 0..MaxNode : m < n => <<g[m], g[n]>> \in R
  <2>1. \A n \in 0..MaxNode : n \in T
    <3> HIDE DEF T
    <3> QED BY <1>3, Objects
  <2> QED BY <2>1
<1>5. \A m, n \in 0..MaxNode : m # n => g[m] # g[n]
  <2> TAKE m, n \in 0..MaxNode
  <2>1. m < n \/ n < m \/ m = n BY Objects
  <2> QED BY <1>4, <2>1
<1> DEFINE i == [n \in 0..MaxNode |-> g[n]]
<1>6. i \in Injection(0..MaxNode, Node) BY <1>5 DEF Injection, IsInjective
<1>7. IsFiniteSet(Node) /\ Cardinality(Node) = MaxNode
  <2>1. Cardinality(1..MaxNode) = IF 1 > MaxNode THEN 0 ELSE MaxNode - 1 + 1
    BY Objects, FS_Interval
  <2>2. IsFiniteSet(1..MaxNode) BY Objects, FS_Interval
  <2> QED BY <2>1, <2>2, Objects
<1>8. Cardinality(0..MaxNode) = MaxNode + 1
  <2>1. Cardinality(0..MaxNode) = IF 0 > MaxNode THEN 0 ELSE MaxNode - 0 + 1
    BY Objects, FS_Interval
  <2> QED BY <2>1, Objects
<1> HIDE DEF i
<1>9. Cardinality(0..MaxNode) <= Cardinality(Node)
  BY <1>6, <1>7, FS_Injection, Zenon
<1> QED BY <1>7, <1>8, <1>9, Objects

-----------------------------------------------------------------------------
(***************************************************************************)
(* The search, level by level from the top.                                *)
(***************************************************************************)
Top == SKIPLIST_LEVELS_NUM - 1

\* What holds at the top and on the way down holds on every level.
LEMMA LevelsDown ==
  ASSUME NEW A, Top \in A, \A l \in Level : l # Top /\ l + 1 \in A => l \in A
  PROVE  Level \subseteq A
<1> DEFINE T == {n \in Nat : Top - n \in Level => Top - n \in A}
<1>1. Top \in Nat /\ Level = 0..Top /\ Top - 0 = Top BY SkipAssumption DEF Top, Level
<1> HIDE DEF Top
<1>2. 0 \in T BY <1>1
<1>3. ASSUME NEW n \in T PROVE n + 1 \in T
  <2>1. SUFFICES ASSUME Top - (n + 1) \in Level PROVE Top - (n + 1) \in A
    OBVIOUS
  <2> DEFINE l == Top - (n + 1)
  <2>2. n \in Nat /\ Top - n \in Level /\ l + 1 = Top - n /\ l # Top
    BY <1>1, <2>1
  <2>3. Top - n \in A BY <2>2
  <2>4. l \in Level BY <2>1
  <2> HIDE DEF l
  <2>5. l \in A BY <2>2, <2>3, <2>4
  <2> QED BY <2>5 DEF l
<1>4. T = Nat
  <2>1. T \subseteq Nat OBVIOUS
  <2> HIDE DEF T
  <2> QED BY <1>2, <1>3, <2>1, NumbersByInduction
<1>5. ASSUME NEW l \in Level PROVE l \in A
  <2>1. Top - l \in Nat /\ Top - (Top - l) = l BY <1>1
  <2>2. Top - l \in T
    <3> HIDE DEF T
    <3> QED BY <1>4, <2>1
  <2> QED BY <2>1, <2>2
<1> QED BY <1>5

LEMMA PathIs ==
  ASSUME NEW k
  PROVE  /\ find(k)[Top] = LastBelow(HeadNode, Top, k)
         /\ \A l \in Level : l # Top => find(k)[l] = LastBelow(find(k)[l + 1], l, k)
<1>1. Top \in Nat /\ Level = 0..Top /\ SKIPLIST_LEVELS_NUM - 1 = Top
      /\ \A n \in Nat : Top - n \in Int
  BY SkipAssumption DEF Top, Level
<1> DEFINE Body(g, l) == LastBelow(IF l = Top THEN HeadNode ELSE g[l + 1], l, k)
           Def(g, n) == g = [l \in (Top - n)..Top |-> Body(g, l)]
           T == {n \in Nat : \E g : Def(g, n)}
<1> HIDE DEF Top
<1>2. 0 \in T
  <2> DEFINE g == [l \in (Top - 0)..Top |-> LastBelow(HeadNode, l, k)]
  <2>1. \A l \in (Top - 0)..Top : l = Top BY <1>1
  <2>2. Def(g, 0) BY <2>1
  <2> QED BY <2>2
<1>3. ASSUME NEW n \in T PROVE n + 1 \in T
  <2>1. n \in Nat OBVIOUS
  <2>2. PICK g : Def(g, n) OBVIOUS
  <2> DEFINE D == (Top - n)..Top  E == (Top - (n + 1))..Top
             h == [l \in E |-> Body(g, l)]
  <2>3. \A l \in D : g[l] = Body(g, l) BY <2>2, Zenon
  <2>4. \A l \in D : l \in E BY <1>1, <2>1
  <2>5. \A l \in D : h[l] = g[l] BY <2>3, <2>4, Zenon
  <2>6. \A l \in E : l = Top \/ l + 1 \in D BY <1>1, <2>1
  <2>7. h = [l \in E |-> Body(h, l)]
    <3> DEFINE e == [l \in E |-> Body(h, l)]
    <3> HIDE DEF D, E
    <3>1. ASSUME NEW l \in E PROVE h[l] = e[l]
      <4>1. (IF l = Top THEN HeadNode ELSE g[l + 1])
              = (IF l = Top THEN HeadNode ELSE h[l + 1])
        BY <2>5, <2>6, Zenon
      <4> QED BY <4>1, Zenon
    <3>2. h = [l \in E |-> h[l]] OBVIOUS
    <3>3. e = [l \in E |-> e[l]] OBVIOUS
    <3> HIDE DEF h, e
    <3>4. h = e BY <3>1, <3>2, <3>3
    <3> QED BY <3>4 DEF e
  <2>8. Def(h, n + 1) BY <2>7, Zenon
  <2> HIDE DEF Def, h
  <2> QED BY <2>1, <2>8
<1>4. T = Nat
  <2>1. T \subseteq Nat OBVIOUS
  <2> HIDE DEF T
  <2> QED BY <1>2, <1>3, <2>1, NumbersByInduction
<1> DEFINE Path(g) == g = [l \in Level |-> Body(g, l)]
<1>5. \E g : Path(g)
  <2>1. Top \in T
    <3> HIDE DEF T
    <3> QED BY <1>1, <1>4
  <2>2. PICK g : Def(g, Top) BY <2>1, Zenon
  <2>3. (Top - Top)..Top = Level BY <1>1
  <2>4. Path(g) BY <2>2, <2>3
  <2> QED BY <2>4
<1> DEFINE G == CHOOSE g : Path(g)
<1>6. Path(G) BY <1>5, Zenon
<1>7. find(k) = G BY <1>1 DEF find
<1> HIDE DEF G
<1>8. \A l \in Level : G[l] = Body(G, l) BY <1>6, Zenon
<1>9. Top \in Level BY <1>1
<1> QED BY <1>7, <1>8, <1>9, Zenon

\* In every process pointers lead to nodes, and so do the loops.
Leads == HeadNode \in Node /\ \A o \in Node, l \in Level :
           NextOf(o, l) \in Node \cup {Zero}

LEMMA LeadsIs ==
  ASSUME HoldOnly(Pointer, Node \cup {Zero}), HeadNode \in Node
  PROVE  Leads
BY Cells DEF HoldOnly, Leads, NextOf

LEMMA BelowTyped ==
  ASSUME Leads, NEW l \in Level, NEW k, NEW o \in Node
  PROVE  LastBelow(o, l, k) \in Node
<1> DEFINE f == Ahead(l, k)
<1>1. \A x \in Node : f[x] \in Node BY DEF Ahead, Leads
<1> HIDE DEF f
<1>2. \A n \in 0..MaxNode : Loop(o, f)[n] \in Node
  BY <1>1, LoopKeeps, Zenon
<1>3. MaxNode \in 0..MaxNode BY Objects
<1> QED BY <1>2, <1>3 DEF LastBelow, f

LEMMA PathTyped ==
  ASSUME Leads, NEW k
  PROVE  /\ \A l \in Level : find(k)[l] \in Node
         /\ PossibleFound(k) \in Node \cup {Zero}
<1> DEFINE A == {l \in Level : find(k)[l] \in Node}
<1>1. Top \in Level BY Objects DEF Top
<1>2. Top \in A BY <1>1, PathIs, BelowTyped DEF Leads
<1>3. ASSUME NEW l \in Level, l # Top, l + 1 \in A PROVE l \in A
  <2>1. find(k)[l + 1] \in Node BY <1>3
  <2>2. find(k)[l] = LastBelow(find(k)[l + 1], l, k) BY <1>3, PathIs
  <2> QED BY <2>1, <2>2, BelowTyped
<1>4. Level \subseteq A
  <2> HIDE DEF A
  <2> QED BY <1>2, <1>3, LevelsDown
<1>5. \A l \in Level : find(k)[l] \in Node BY <1>4
<1>6. PossibleFound(k) \in Node \cup {Zero}
  BY <1>5, Objects DEF PossibleFound, Leads
<1> QED BY <1>5, <1>6

-----------------------------------------------------------------------------
(***************************************************************************)
(* The walk through a level.                                               *)
(***************************************************************************)
LEMMA WalkIs ==
  ASSUME Leads, NEW l \in Level, NEW o \in Node \cup {Zero}
  PROVE  LET w == Walk(o, l) IN
         /\ w[0] = o /\ \A n \in 0..MaxNode : w[n] \in Node \cup {Zero}
         /\ \A n \in 1..MaxNode :
              w[n] = IF w[n - 1] = Zero THEN Zero ELSE NextOf(w[n - 1], l)
         /\ \A m, n \in 0..MaxNode : m <= n /\ w[m] = Zero => w[n] = Zero
<1> DEFINE f == Onward(l)  w == Walk(o, l)  A == Node \cup {Zero}
<1>1. \A x \in A : f[x] = IF x = Zero THEN Zero ELSE NextOf(x, l)
  BY DEF Onward
<1>2. \A x \in A : f[x] \in A BY <1>1 DEF Leads
<1>3. w[0] = o /\ \A n \in 1..MaxNode : w[n] = f[w[n - 1]]
  BY LoopIs DEF Walk
<1>4. \A n \in 0..MaxNode : w[n] \in A
  <2> HIDE DEF f
  <2>1. \A n \in 0..MaxNode : Loop(o, f)[n] \in A BY <1>2, LoopKeeps, Zenon
  <2> QED BY <2>1 DEF Walk, f
<1> HIDE DEF w, f
<1>5. \A n \in 1..MaxNode :
        w[n] = IF w[n - 1] = Zero THEN Zero ELSE NextOf(w[n - 1], l)
  <2> TAKE n \in 1..MaxNode
  <2>1. n - 1 \in 0..MaxNode BY Objects
  <2> QED BY <1>1, <1>3, <1>4, <2>1
<1>6. \A m, n \in 0..MaxNode : m <= n /\ w[m] = Zero => w[n] = Zero
  <2>1. \A x \in {Zero} : f[x] \in {Zero} BY <1>1
  <2>2. \A m, n \in 0..MaxNode :
          m <= n /\ Loop(o, f)[m] \in {Zero} => Loop(o, f)[n] \in {Zero}
    BY <2>1, LoopStays, Zenon
  <2> QED BY <2>2 DEF Walk, f, w
<1> QED BY <1>3, <1>4, <1>5, <1>6, Zenon DEF w

\* A chain is what the walk from the head meets before it ends.
LEMMA ChainTyped ==
  ASSUME Leads, NEW l \in Level
  PROVE  LET w == Walk(HeadNode, l) IN
         \E len \in 0..MaxNode :
           /\ Chain(l) \in Seq(Node) /\ Len(Chain(l)) = len
           /\ DOMAIN Chain(l) = 1..len
           /\ \A n \in 1..len : Chain(l)[n] = w[n] /\ w[n] # Zero
           /\ \A n \in 1..MaxNode : n \notin 1..len => w[n] = Zero
<1> DEFINE w == Walk(HeadNode, l)  S == {n \in 1..MaxNode : w[n] # Zero}
<1>1. /\ w[0] = HeadNode /\ \A n \in 0..MaxNode : w[n] \in Node \cup {Zero}
      /\ \A m, n \in 0..MaxNode : m <= n /\ w[m] = Zero => w[n] = Zero
  <2>1. HeadNode \in Node \cup {Zero} BY DEF Leads
  <2> QED BY <2>1, WalkIs, Zenon
<1>2. Chain(l) = [n \in 1..Cardinality(S) |-> w[n]] BY DEF Chain
<1> HIDE DEF w
<1>3. \E len \in 0..MaxNode : S = 1..len
  <2>1. CASE S = {}
    <3>1. S = 1..0 /\ 0 \in 0..MaxNode BY <2>1, Objects
    <3> QED BY <3>1
  <2>2. CASE S # {}
    <3>1. S \in SUBSET (0..MaxNode) /\ MaxNode \in Nat BY Objects
    <3> DEFINE len == Max(S)
    <3>2. len \in S /\ \A y \in S : len >= y BY <2>2, <3>1, MaxIs
    <3> HIDE DEF len
    <3>3. len \in 1..MaxNode BY <3>2
    <3>4. S \subseteq 1..len BY <3>2, <3>3, Objects
    <3>5. ASSUME NEW n \in 1..len PROVE n \in S
      <4>1. /\ n \in 0..MaxNode /\ len \in 0..MaxNode /\ n <= len
            /\ n \in 1..MaxNode
        BY <3>3, Objects
      <4> QED BY <1>1, <3>2, <4>1
    <3>6. S = 1..len /\ len \in 0..MaxNode BY <3>3, <3>4, <3>5
    <3> QED BY <3>6
  <2> QED BY <2>1, <2>2
<1>4. PICK len \in 0..MaxNode : S = 1..len BY <1>3
<1>5. Cardinality(S) = len
  <2>1. len \in Nat BY <1>4, Objects
  <2>2. Cardinality(1..len) = IF 1 > len THEN 0 ELSE len - 1 + 1
    BY <2>1, FS_Interval
  <2>3. (IF 1 > len THEN 0 ELSE len - 1 + 1) = len BY <2>1
  <2> QED BY <1>4, <2>2, <2>3, Zenon
<1>6. len \in Nat /\ 1..len \subseteq 1..MaxNode /\ 1..len \subseteq 0..MaxNode
  BY <1>4, Objects
<1>7. Chain(l) = [n \in 1..len |-> w[n]] BY <1>2, <1>5
<1>8. \A n \in 1..len : w[n] # Zero BY <1>4
<1>9. \A n \in 1..MaxNode : n \notin 1..len => w[n] = Zero BY <1>4
<1> HIDE DEF S
<1>10. \A n \in 1..len : w[n] \in Node BY <1>1, <1>6, <1>8
<1>11. Chain(l) \in Seq(Node) /\ Len(Chain(l)) = len /\ DOMAIN Chain(l) = 1..len
  BY <1>6, <1>7, <1>10
<1>12. \A n \in 1..len : Chain(l)[n] = w[n] BY <1>7
<1>13. \A n \in 1..len : Chain(l)[n] = w[n] /\ w[n] # Zero
  BY <1>8, <1>12, Zenon
<1> QED BY <1>4, <1>9, <1>11, <1>13, Zenon DEF w

LEMMA ScannedTyped ==
  ASSUME Leads, MemoryTypeOK, NEW k, NEW len
  PROVE  Scanned(k, len) \in SUBSET Value
<1> DEFINE w == Walk(PossibleFound(k), 0)
<1>1. \A n \in 0..MaxNode : w[n] \in Node \cup {Zero}
  BY PathTyped, Objects, WalkIs, Zenon
<1> HIDE DEF w
<1>2. \A o \in Node : mem[<<o, "value">>] \in Value
  BY Cells DEF MemoryTypeOK
<1>3. \A n \in 0..MaxNode : w[n] # Zero => mem[<<w[n], "value">>] \in Value
  BY <1>1, <1>2
<1> DEFINE J == {j \in 0..MaxNode : j < len /\ w[j] # Zero}
<1>4. \A i \in J : mem[<<w[i], "value">>] \in Value BY <1>3
<1>5. Scanned(k, len) = {mem[<<w[i], "value">>] : i \in J} BY DEF Scanned, w
<1> HIDE DEF J
<1> QED BY <1>4, <1>5

-----------------------------------------------------------------------------
(***************************************************************************)
(* What a search finds in a list that is in order.                         *)
(***************************************************************************)
\* ns are the nodes of the levels of the list in memory.
Listed(ns) ==
  /\ Leads /\ ns \in [Level -> SUBSET Node]
  /\ Linked(mem, ns) /\ Keyed(mem, ns) /\ Nested(ns)

\* A level from node to node; only the head precedes all.
LEMMA ListedIs ==
  ASSUME NEW ns, Listed(ns)
  PROVE  /\ HeadNode \in Node /\ HeadNode \notin ns[0]
         /\ \A l \in Level : ns[l] \subseteq ns[0] /\ ns[l] \subseteq Node
         /\ \A o \in ns[0] : KeyOf(o) \in Key /\ KeyOf(o) \in Nat
         /\ \A o, q \in ns[0] : KeyOf(o) = KeyOf(q) => o = q
         /\ \A o, q : Precedes(mem, o, q) <=> o = HeadNode \/ KeyOf(o) < KeyOf(q)
         /\ \A l \in Level : \A o \in ns[l] \cup {HeadNode} :
              LET p == NextOf(o, l) IN
              /\ p = Zero => \A q \in ns[l] : ~Precedes(mem, o, q)
              /\ p # Zero =>
                   /\ p \in ns[l] /\ p # HeadNode /\ Precedes(mem, o, p)
                   /\ \A q \in ns[l] : Precedes(mem, o, q) =>
                        q = p \/ KeyOf(p) < KeyOf(q)
<1>1. HeadOf(mem) = HeadNode /\ \A o : KeyIn(mem, o) = KeyOf(o)
  BY DEF HeadOf, HeadNode, KeyIn, KeyOf
<1>2. \A o, q : Precedes(mem, o, q) <=> o = HeadNode \/ KeyOf(o) < KeyOf(q)
  BY <1>1 DEF Precedes
<1>3. HeadNode \in Node /\ HeadNode \notin ns[0] BY <1>1 DEF Listed, Keyed
<1>4. \A l \in Level : ns[l] \subseteq ns[0] /\ ns[l] \subseteq Node
  <2> TAKE l \in Level
  <2>1. 0 \in Level /\ 0 <= l BY Objects
  <2> QED BY <2>1 DEF Listed, Nested
<1>5. \A o \in ns[0] : KeyOf(o) \in Key /\ KeyOf(o) \in Nat
  BY <1>1, Contents DEF Listed, Keyed
<1>6. \A o, q \in ns[0] : KeyOf(o) = KeyOf(q) => o = q
  BY <1>1 DEF Listed, Keyed
<1>7. ASSUME NEW l \in Level, NEW o \in ns[l] \cup {HeadNode}
      PROVE  LET p == NextOf(o, l) IN
             /\ p = Zero => \A q \in ns[l] : ~Precedes(mem, o, q)
             /\ p # Zero =>
                  /\ p \in ns[l] /\ p # HeadNode /\ Precedes(mem, o, p)
                  /\ \A q \in ns[l] : Precedes(mem, o, q) =>
                       q = p \/ KeyOf(p) < KeyOf(q)
  <2> DEFINE p == NextOf(o, l)
  <2>1. /\ p = Zero => \A q \in ns[l] : ~Precedes(mem, o, q)
        /\ p # Zero =>
             /\ p \in ns[l] /\ Precedes(mem, o, p)
             /\ \A q \in ns[l] : Precedes(mem, o, q) =>
                  q = p \/ Precedes(mem, p, q)
    BY <1>1, <1>7 DEF Listed, Linked, NextOf
  <2>2. p # Zero => p # HeadNode BY <1>3, <1>4, <2>1
  <2> HIDE DEF p
  <2> QED BY <1>2, <2>1, <2>2 DEF p
<1> QED BY <1>2, <1>3, <1>4, <1>5, <1>6, <1>7

\* The order of a list's nodes.
Order(ns) ==
  {e \in (ns[0] \cup {HeadNode}) \X (ns[0] \cup {HeadNode}) :
     Precedes(mem, e[1], e[2]) /\ e[2] # HeadNode}

LEMMA OrderIs ==
  ASSUME NEW ns, Listed(ns)
  PROVE  /\ \A x, y, z : <<x, y>> \in Order(ns) /\ <<y, z>> \in Order(ns)
                           => <<x, z>> \in Order(ns)
         /\ \A x : <<x, x>> \notin Order(ns)
         /\ \A x, y \in ns[0] \cup {HeadNode} :
              <<x, y>> \in Order(ns) <=> Precedes(mem, x, y) /\ y # HeadNode
<1> DEFINE A == ns[0] \cup {HeadNode}
<1>1. \A x, y : <<x, y>> \in Order(ns) <=>
        /\ x \in A /\ y \in A /\ y # HeadNode
        /\ x = HeadNode \/ KeyOf(x) < KeyOf(y)
  BY ListedIs DEF Order
<1>2. \A o \in A : o = HeadNode \/ KeyOf(o) \in Nat BY ListedIs
<1>3. \A x, y, z : <<x, y>> \in Order(ns) /\ <<y, z>> \in Order(ns)
                     => <<x, z>> \in Order(ns)
  <2> SUFFICES ASSUME NEW x, NEW y, NEW z,
                      <<x, y>> \in Order(ns), <<y, z>> \in Order(ns)
               PROVE  <<x, z>> \in Order(ns)
    OBVIOUS
  <2>1. /\ x \in A /\ y \in A /\ z \in A /\ y # HeadNode /\ z # HeadNode
        /\ x = HeadNode \/ KeyOf(x) < KeyOf(y)
        /\ KeyOf(y) < KeyOf(z)
    BY <1>1
  <2>2. KeyOf(y) \in Nat /\ KeyOf(z) \in Nat BY <1>2, <2>1
  <2>3. x = HeadNode \/ KeyOf(x) < KeyOf(z) BY <1>2, <2>1, <2>2
  <2> QED BY <1>1, <2>1, <2>3
<1>4. \A x : <<x, x>> \notin Order(ns)
  <2> SUFFICES ASSUME NEW x, <<x, x>> \in Order(ns) PROVE FALSE OBVIOUS
  <2>1. x \in A /\ x # HeadNode /\ KeyOf(x) < KeyOf(x) BY <1>1
  <2>2. KeyOf(x) \in Nat BY <1>2, <2>1
  <2> QED BY <2>1, <2>2
<1>5. \A x, y \in A : <<x, y>> \in Order(ns) <=>
                        Precedes(mem, x, y) /\ y # HeadNode
  BY <1>1, ListedIs
<1> QED BY <1>3, <1>4, <1>5

\* r is the head or the last node of level l with a key below k.
Reached(ns, l, k, r) ==
  /\ r \in ns[l] \cup {HeadNode} /\ (r = HeadNode \/ KeyOf(r) < k)
  /\ \A q \in ns[l] : Precedes(mem, r, q) => ~(KeyOf(q) < k)

LEMMA BelowIs ==
  ASSUME NEW ns, Listed(ns), NEW l \in Level, NEW k \in Key,
         NEW o \in ns[l] \cup {HeadNode}, o = HeadNode \/ KeyOf(o) < k
  PROVE  Reached(ns, l, k, LastBelow(o, l, k))
<1> DEFINE f == Ahead(l, k)  g == Loop(o, f)
           A == {x \in ns[l] \cup {HeadNode} : x = HeadNode \/ KeyOf(x) < k}
           r == LastBelow(o, l, k)
<1>1. /\ HeadNode \in Node /\ HeadNode \notin ns[0]
      /\ ns[l] \subseteq ns[0] /\ ns[l] \subseteq Node
      /\ \A x \in ns[0] : KeyOf(x) \in Nat
      /\ \A x, y : Precedes(mem, x, y) <=> x = HeadNode \/ KeyOf(x) < KeyOf(y)
      /\ \A x \in ns[l] \cup {HeadNode} :
           LET p == NextOf(x, l) IN
           /\ p = Zero => \A q \in ns[l] : ~Precedes(mem, x, q)
           /\ p # Zero =>
                /\ p \in ns[l] /\ p # HeadNode /\ Precedes(mem, x, p)
                /\ \A q \in ns[l] : Precedes(mem, x, q) =>
                     q = p \/ KeyOf(p) < KeyOf(q)
  BY ListedIs
<1>2. /\ \A x, y, z : <<x, y>> \in Order(ns) /\ <<y, z>> \in Order(ns)
                        => <<x, z>> \in Order(ns)
      /\ \A x : <<x, x>> \notin Order(ns)
      /\ \A x, y \in ns[0] \cup {HeadNode} :
           <<x, y>> \in Order(ns) <=> Precedes(mem, x, y) /\ y # HeadNode
  BY OrderIs
<1>3. \A x \in Node : f[x] = IF NextOf(x, l) # Zero /\ KeyOf(NextOf(x, l)) < k
                             THEN NextOf(x, l) ELSE x
  BY DEF Ahead
<1> HIDE DEF f
<1>4. A \subseteq Node BY <1>1
<1>5. ASSUME NEW x \in A
      PROVE  f[x] \in A /\ (f[x] # x => <<x, f[x]>> \in Order(ns))
  <2>1. CASE NextOf(x, l) # Zero /\ KeyOf(NextOf(x, l)) < k
    <3>1. f[x] = NextOf(x, l) BY <1>3, <1>4, <2>1
    <3>2. /\ f[x] \in ns[l] /\ f[x] # HeadNode /\ Precedes(mem, x, f[x])
          /\ KeyOf(f[x]) < k
      BY <1>1, <2>1, <3>1
    <3>3. x \in ns[0] \cup {HeadNode} /\ f[x] \in ns[0] \cup {HeadNode}
      BY <1>1, <3>2
    <3> QED BY <1>2, <3>2, <3>3
  <2>2. CASE ~(NextOf(x, l) # Zero /\ KeyOf(NextOf(x, l)) < k)
    BY <1>3, <1>4, <2>2
  <2> QED BY <2>1, <2>2
<1>6. o \in A OBVIOUS
<1> HIDE DEF A
<1>7. \A n \in 0..MaxNode : g[n] \in A
  <2>1. \A x \in A : f[x] \in A BY <1>5
  <2>2. \A n \in 1..MaxNode :
          Loop(o, f)[n - 1] \in A => f[Loop(o, f)[n - 1]] \in A
    BY <2>1, Zenon
  <2>3. \A n \in 0..MaxNode : Loop(o, f)[n] \in A
    BY <1>6, <2>2, LoopKeeps
  <2> QED BY <2>3
<1>8. r = g[MaxNode] /\ MaxNode \in 0..MaxNode BY Objects DEF LastBelow, f
<1>9. f[r] = r
  <2> SUFFICES ASSUME f[r] # r PROVE FALSE OBVIOUS
  <2> DEFINE B == {x \in A : f[x] = x}
  <2>1. \A x \in B : f[x] \in B OBVIOUS
  <2>2. \A m, n \in 0..MaxNode : m <= n /\ g[m] \in B => g[n] \in B
    <3> HIDE DEF B
    <3> QED BY <2>1, LoopStays, Zenon
  <2>3. r \notin B OBVIOUS
  <2>4. \A n \in 0..MaxNode : g[n] \notin B BY <1>8, <2>2, <2>3, Objects
  <2>5. \A n \in 1..MaxNode : n - 1 \in 0..MaxNode /\ g[n] = f[g[n - 1]]
    BY LoopIs, Objects
  <2>6. \A n \in 0..MaxNode : g[n] \in A /\ f[g[n]] # g[n] BY <1>7, <2>4
  <2> HIDE DEF g, r, B
  <2>7. \A n \in 1..MaxNode : <<g[n - 1], g[n]>> \in Order(ns)
    BY <1>5, <2>5, <2>6
  <2>8. \A n \in 0..MaxNode : g[n] \in Node BY <1>4, <1>7
  <2> QED BY <1>2, <2>7, <2>8, NodesEnd, Zenon
<1>10. r \in A BY <1>7, <1>8
<1> HIDE DEF g, r
<1>11. r \in ns[l] \cup {HeadNode} /\ (r = HeadNode \/ KeyOf(r) < k)
  BY <1>10 DEF A
<1>12. ASSUME NEW q \in ns[l], Precedes(mem, r, q) PROVE ~(KeyOf(q) < k)
  <2> DEFINE p == NextOf(r, l)
  <2>1. /\ p # Zero /\ p \in ns[l] /\ Precedes(mem, r, p)
        /\ q = p \/ KeyOf(p) < KeyOf(q)
    BY <1>1, <1>11, <1>12
  <2> HIDE DEF p
  <2>2. p # r
    <3>1. p \in ns[0] /\ p # HeadNode BY <1>1, <2>1
    <3>2. <<r, p>> \in Order(ns) BY <1>1, <1>2, <1>11, <2>1, <3>1
    <3> QED BY <1>2, <3>2
  <2>3. ~(KeyOf(p) < k) BY <1>3, <1>4, <1>9, <1>10, <2>1, <2>2 DEF p
  <2>4. KeyOf(p) \in Nat /\ KeyOf(q) \in Nat /\ k \in Nat
    BY <1>1, <1>12, <2>1, Contents
  <2> QED BY <2>1, <2>3, <2>4
<1> QED BY <1>11, <1>12 DEF Reached, r

\* find gives it for every level.
LEMMA PathReaches ==
  ASSUME NEW ns, Listed(ns), NEW k \in Key, NEW l \in Level
  PROVE  Reached(ns, l, k, find(k)[l])
<1> DEFINE A == {m \in Level : Reached(ns, m, k, find(k)[m])}
<1>1. Top \in Level BY Objects DEF Top
<1>2. Top \in A
  <2>1. find(k)[Top] = LastBelow(HeadNode, Top, k) BY PathIs
  <2>2. Reached(ns, Top, k, LastBelow(HeadNode, Top, k)) BY <1>1, BelowIs
  <2> QED BY <1>1, <2>1, <2>2
<1>3. ASSUME NEW m \in Level, m # Top, m + 1 \in A PROVE m \in A
  <2> DEFINE o == find(k)[m + 1]
  <2>1. m + 1 \in Level /\ Reached(ns, m + 1, k, o) BY <1>3
  <2>2. find(k)[m] = LastBelow(o, m, k) BY <1>3, PathIs
  <2>3. m \in Nat /\ m <= m + 1 BY Objects
  <2>4. ns[m + 1] \subseteq ns[m] BY <2>1, <2>3 DEF Listed, Nested
  <2>5. o \in ns[m] \cup {HeadNode} /\ (o = HeadNode \/ KeyOf(o) < k)
    BY <2>1, <2>4 DEF Reached
  <2> HIDE DEF o
  <2>6. Reached(ns, m, k, LastBelow(o, m, k)) BY <2>5, BelowIs
  <2> QED BY <2>2, <2>6
<1>4. Level \subseteq A
  <2> HIDE DEF A
  <2> QED BY <1>2, <1>3, LevelsDown
<1> QED BY <1>4

\* A key has one node or none, and the search finds it.
LEMMA HitIs ==
  ASSUME NEW ns, Listed(ns), NEW k \in Key
  PROVE  /\ Hit(k) <=> \E q \in ns[0] : KeyOf(q) = k
         /\ Hit(k) => /\ PossibleFound(k) \in ns[0] /\ PossibleFound(k) \in Node
                      /\ KeyOf(PossibleFound(k)) = k
<1> DEFINE r == find(k)[0]  p == PossibleFound(k)
<1>1. 0 \in Level BY Objects
<1>2. Reached(ns, 0, k, r) BY <1>1, PathReaches
<1>3. p = NextOf(r, 0) BY DEF PossibleFound
<1>4. /\ HeadNode \notin ns[0] /\ ns[0] \subseteq Node
      /\ \A x \in ns[0] : KeyOf(x) \in Nat
      /\ \A x, y : Precedes(mem, x, y) <=> x = HeadNode \/ KeyOf(x) < KeyOf(y)
  BY <1>1, ListedIs
<1> HIDE DEF r
<1>5. /\ p = Zero => \A q \in ns[0] : ~Precedes(mem, r, q)
      /\ p # Zero =>
           /\ p \in ns[0] /\ Precedes(mem, r, p)
           /\ \A q \in ns[0] : Precedes(mem, r, q) => q = p \/ KeyOf(p) < KeyOf(q)
  BY <1>1, <1>2, <1>3, ListedIs DEF Reached
<1> HIDE DEF p
<1>6. ASSUME NEW q \in ns[0], KeyOf(q) = k PROVE p # Zero /\ KeyOf(p) = k
  <2>1. Precedes(mem, r, q) BY <1>2, <1>4, <1>6 DEF Reached
  <2>2. p # Zero /\ p \in ns[0] /\ (q = p \/ KeyOf(p) < k)
    BY <1>5, <1>6, <2>1
  <2>3. ~(KeyOf(p) < k) BY <1>2, <1>5, <2>2 DEF Reached
  <2> QED BY <1>6, <2>2, <2>3
<1>7. Hit(k) <=> p # Zero /\ KeyOf(p) = k BY DEF Hit, p
<1>8. p # Zero => p \in ns[0] /\ p \in Node BY <1>4, <1>5
<1> QED BY <1>6, <1>7, <1>8 DEF p

\* read() shows what is wanted.
LEMMA FindIs ==
  ASSUME NEW ns, Listed(ns), NEW want, Wanted(mem, ns, want), NEW k \in Key
  PROVE  Find(k) \in want[k]
<1>1. HeadNode # Zero BY ListedIs, Objects
<1>2. \A o : KeyIn(mem, o) = KeyOf(o) BY DEF KeyIn, KeyOf
<1>3. CASE Hit(k)
  <2>1. PossibleFound(k) \in ns[0] /\ KeyOf(PossibleFound(k)) = k
    BY <1>3, HitIs
  <2>2. mem[<<PossibleFound(k), "value">>] \in want[k]
    BY <1>2, <2>1, Zenon DEF Wanted
  <2> QED BY <1>1, <1>3, <2>2 DEF Find
<1>4. CASE ~Hit(k)
  <2>1. \A q \in ns[0] : KeyOf(q) # k BY <1>4, HitIs
  <2>2. Absent \in want[k] BY <1>2, <2>1, Zenon DEF Wanted
  <2> QED BY <1>4, <2>2 DEF Find
<1> QED BY <1>3, <1>4

\* The walk from the head meets the nodes of a level in the order of their keys
\* and all of them.
LEMMA WalkMeets ==
  ASSUME NEW ns, Listed(ns), NEW l \in Level
  PROVE  LET w == Walk(HeadNode, l) IN
         /\ \A n \in 1..MaxNode : w[n] # Zero => w[n] \in ns[l]
         /\ \A m, n \in 1..MaxNode : m < n /\ w[n] # Zero
              => KeyOf(w[m]) < KeyOf(w[n])
         /\ \A q \in ns[l] : \E n \in 1..MaxNode : w[n] = q
<1> DEFINE w == Walk(HeadNode, l)
<1>1. /\ HeadNode \in Node /\ HeadNode \notin ns[0]
      /\ ns[l] \subseteq ns[0] /\ ns[l] \subseteq Node
      /\ \A x, y : Precedes(mem, x, y) <=> x = HeadNode \/ KeyOf(x) < KeyOf(y)
      /\ \A x \in ns[l] \cup {HeadNode} :
           LET p == NextOf(x, l) IN
           /\ p = Zero => \A q \in ns[l] : ~Precedes(mem, x, q)
           /\ p # Zero =>
                /\ p \in ns[l] /\ p # HeadNode /\ Precedes(mem, x, p)
                /\ \A q \in ns[l] : Precedes(mem, x, q) =>
                     q = p \/ KeyOf(p) < KeyOf(q)
  BY ListedIs
<1>2. /\ \A x, y, z : <<x, y>> \in Order(ns) /\ <<y, z>> \in Order(ns)
                        => <<x, z>> \in Order(ns)
      /\ \A x : <<x, x>> \notin Order(ns)
      /\ \A x, y \in ns[0] \cup {HeadNode} :
           <<x, y>> \in Order(ns) <=> Precedes(mem, x, y) /\ y # HeadNode
  BY OrderIs
<1>3. HeadNode \in Node \cup {Zero} /\ HeadNode # Zero /\ Leads
  BY <1>1, Objects DEF Listed
<1>4. /\ w[0] = HeadNode /\ \A n \in 0..MaxNode : w[n] \in Node \cup {Zero}
      /\ \A n \in 1..MaxNode :
           w[n] = IF w[n - 1] = Zero THEN Zero ELSE NextOf(w[n - 1], l)
      /\ \A m, n \in 0..MaxNode : m <= n /\ w[m] = Zero => w[n] = Zero
  BY <1>3, WalkIs, Zenon
<1> HIDE DEF w
<1> DEFINE T == {n \in Nat : n \in 1..MaxNode /\ w[n] # Zero => w[n] \in ns[l]}
<1>5. 0 \in T OBVIOUS
<1>6. ASSUME NEW n \in T PROVE n + 1 \in T
  <2> SUFFICES ASSUME n + 1 \in 1..MaxNode, w[n + 1] # Zero
               PROVE  w[n + 1] \in ns[l]
    OBVIOUS
  <2>1. n \in Nat /\ n + 1 \in 1..MaxNode /\ (n + 1) - 1 = n
        /\ (n = 0 \/ n \in 1..MaxNode)
    BY Objects
  <2>2. w[n] # Zero /\ w[n + 1] = NextOf(w[n], l) BY <1>4, <2>1
  <2>3. w[n] \in ns[l] \cup {HeadNode} BY <1>4, <2>1, <2>2
  <2> QED BY <1>1, <2>2, <2>3
<1>7. T = Nat
  <2>1. T \subseteq Nat OBVIOUS
  <2> HIDE DEF T
  <2> QED BY <1>5, <1>6, <2>1, NumbersByInduction
<1>8. \A n \in 1..MaxNode : w[n] # Zero => w[n] \in ns[l]
  <2>1. \A n \in 1..MaxNode : n \in T
    <3> HIDE DEF T
    <3> QED BY <1>7, Objects
  <2> QED BY <2>1
<1> HIDE DEF T
<1>9. \A n \in 0..MaxNode : w[n] # Zero => w[n] \in ns[l] \cup {HeadNode}
  <2>1. \A n \in 0..MaxNode : n = 0 \/ n \in 1..MaxNode BY Objects
  <2> QED BY <1>4, <1>8, <2>1
<1>10. ASSUME NEW n \in 1..MaxNode, w[n] # Zero
       PROVE  <<w[n - 1], w[n]>> \in Order(ns)
  <2>1. n - 1 \in 0..MaxNode BY Objects
  <2>2. w[n - 1] # Zero /\ w[n] = NextOf(w[n - 1], l) BY <1>4, <1>10
  <2>3. w[n - 1] \in ns[l] \cup {HeadNode} BY <1>9, <2>1, <2>2
  <2>4. /\ w[n] \in ns[l] /\ w[n] # HeadNode /\ Precedes(mem, w[n - 1], w[n])
    BY <1>1, <1>10, <2>2, <2>3
  <2> QED BY <1>1, <1>2, <2>3, <2>4
<1> DEFINE U == {n \in Nat : n \in 1..MaxNode /\ w[n] # Zero =>
                   \A m \in 1..MaxNode : m < n => <<w[m], w[n]>> \in Order(ns)}
<1>11. 0 \in U OBVIOUS
<1>12. ASSUME NEW n \in U PROVE n + 1 \in U
  <2> SUFFICES ASSUME n + 1 \in 1..MaxNode, w[n + 1] # Zero,
                      NEW m \in 1..MaxNode, m < n + 1
               PROVE  <<w[m], w[n + 1]>> \in Order(ns)
    OBVIOUS
  <2>1. n \in 1..MaxNode /\ n + 1 \in 1..MaxNode /\ (n + 1) - 1 = n
    BY Objects
  <2>2. w[n] # Zero /\ <<w[n], w[n + 1]>> \in Order(ns) BY <1>4, <1>10, <2>1
  <2>3. CASE m = n BY <2>2, <2>3
  <2>4. CASE m # n
    <3>1. m < n BY <2>1, <2>4, Objects
    <3>2. <<w[m], w[n]>> \in Order(ns) BY <2>1, <2>2, <3>1
    <3> QED BY <1>2, <2>2, <3>2
  <2> QED BY <2>3, <2>4
<1>13. U = Nat
  <2>1. U \subseteq Nat OBVIOUS
  <2> HIDE DEF U
  <2> QED BY <1>11, <1>12, <2>1, NumbersByInduction
<1>14. ASSUME NEW m \in 1..MaxNode, NEW n \in 1..MaxNode, m < n, w[n] # Zero
       PROVE  KeyOf(w[m]) < KeyOf(w[n])
  <2>1. n \in U
    <3> HIDE DEF U
    <3> QED BY <1>13, Objects
  <2>2. <<w[m], w[n]>> \in Order(ns) BY <1>14, <2>1
  <2>3. m \in 0..MaxNode /\ n \in 0..MaxNode /\ m <= n BY <1>14, Objects
  <2>4. w[m] # Zero BY <1>4, <1>14, <2>3
  <2>5. w[m] \in ns[l] /\ w[m] # HeadNode BY <1>1, <1>8, <2>4
  <2>6. Precedes(mem, w[m], w[n])
    <3>1. w[m] \in ns[0] /\ w[n] \in ns[0] BY <1>1, <1>8, <1>14, <2>4
    <3> QED BY <1>2, <2>2, <3>1
  <2> QED BY <1>1, <2>5, <2>6
<1>15. w[MaxNode] = Zero
  <2> SUFFICES ASSUME w[MaxNode] # Zero PROVE FALSE OBVIOUS
  <2>1. \A n \in 0..MaxNode : w[n] # Zero
    <3> TAKE n \in 0..MaxNode
    <3>1. n <= MaxNode /\ MaxNode \in 0..MaxNode BY Objects
    <3> QED BY <1>4, <3>1
  <2>2. \A n \in 0..MaxNode : w[n] \in Node BY <1>4, <2>1
  <2>3. \A n \in 1..MaxNode : n \in 0..MaxNode BY Objects
  <2>4. \A n \in 1..MaxNode : <<w[n - 1], w[n]>> \in Order(ns)
    BY <1>10, <2>1, <2>3
  <2> QED BY <1>2, <2>2, <2>4, NodesEnd, Zenon
<1>16. ASSUME NEW q \in ns[l] PROVE \E n \in 1..MaxNode : w[n] = q
  <2> DEFINE V == {n \in Nat : n \in 0..MaxNode =>
                     \/ \E m \in 1..MaxNode : w[m] = q
                     \/ w[n] # Zero /\ Precedes(mem, w[n], q)}
  <2>1. 0 \in V BY <1>1, <1>3, <1>4
  <2>2. ASSUME NEW n \in V PROVE n + 1 \in V
    <3> SUFFICES ASSUME n + 1 \in 0..MaxNode, ~ \E m \in 1..MaxNode : w[m] = q
                 PROVE  w[n + 1] # Zero /\ Precedes(mem, w[n + 1], q)
      OBVIOUS
    <3>1. /\ n \in 0..MaxNode /\ n + 1 \in 1..MaxNode /\ (n + 1) - 1 = n
      BY Objects
    <3>2. w[n] # Zero /\ Precedes(mem, w[n], q) BY <3>1
    <3>3. w[n + 1] = NextOf(w[n], l) /\ w[n + 1] # q BY <1>4, <3>1, <3>2
    <3>4. w[n] \in ns[l] \cup {HeadNode} BY <1>9, <3>1, <3>2
    <3>5. w[n + 1] # Zero /\ KeyOf(w[n + 1]) < KeyOf(q)
      BY <1>1, <1>16, <3>2, <3>3, <3>4
    <3> QED BY <1>1, <3>5
  <2>3. V = Nat
    <3>1. V \subseteq Nat OBVIOUS
    <3> HIDE DEF V
    <3> QED BY <2>1, <2>2, <3>1, NumbersByInduction
  <2>4. MaxNode \in V /\ MaxNode \in 0..MaxNode
    <3> HIDE DEF V
    <3> QED BY <2>3, Objects
  <2> QED BY <1>15, <2>4
<1> QED BY <1>8, <1>14, <1>16, Zenon DEF w

LEMMA ChainIs ==
  ASSUME NEW ns, Listed(ns), NEW l \in Level
  PROVE  /\ ToSet(Chain(l)) = ns[l]
         /\ \A i, j \in DOMAIN Chain(l) :
              i < j => KeyOf(Chain(l)[i]) < KeyOf(Chain(l)[j])
<1> DEFINE w == Walk(HeadNode, l)  c == Chain(l)
<1>1. /\ \A n \in 1..MaxNode : w[n] # Zero => w[n] \in ns[l]
      /\ \A m, n \in 1..MaxNode : m < n /\ w[n] # Zero
           => KeyOf(w[m]) < KeyOf(w[n])
      /\ \A q \in ns[l] : \E n \in 1..MaxNode : w[n] = q
  BY WalkMeets
<1>2. PICK len \in 0..MaxNode :
        /\ c \in Seq(Node) /\ DOMAIN c = 1..len
        /\ \A n \in 1..len : c[n] = w[n] /\ w[n] # Zero
        /\ \A n \in 1..MaxNode : n \notin 1..len => w[n] = Zero
  <2>1. Leads BY DEF Listed
  <2> QED BY <2>1, ChainTyped, Zenon
<1>3. 1..len \subseteq 1..MaxNode BY <1>2, Objects
<1>4. ns[l] \subseteq Node /\ Zero \notin Node BY ListedIs, Objects
<1> HIDE DEF w, c
<1>5. ToSet(c) = {c[n] : n \in 1..len} BY <1>2 DEF ToSet
<1>6. \A n \in 1..len : c[n] \in ns[l] BY <1>1, <1>2, <1>3
<1>7. ASSUME NEW q \in ns[l] PROVE \E n \in 1..len : c[n] = q
  <2>1. PICK n \in 1..MaxNode : w[n] = q BY <1>1
  <2>2. n \in 1..len BY <1>2, <1>4, <2>1
  <2> QED BY <1>2, <2>1, <2>2
<1>8. ToSet(c) = ns[l] BY <1>5, <1>6, <1>7
<1>9. \A i, j \in DOMAIN c : i < j => KeyOf(c[i]) < KeyOf(c[j])
  BY <1>1, <1>2, <1>3
<1> QED BY <1>8, <1>9 DEF c

\* Which memory is looked at matters only in the root and in the nodes.
LEMMA SameLists ==
  ASSUME NEW F, NEW G, NEW A, \A c \in A : F[c] = G[c], RootCell \in A,
         NEW ns \in [Level -> SUBSET Node], Linked(F, ns), Keyed(F, ns),
         Nested(ns), NEW want, Wanted(F, ns, want), KeptIn(F, ns, A)
  PROVE  /\ Linked(G, ns) /\ Keyed(G, ns) /\ Wanted(G, ns, want)
         /\ KeptIn(G, ns, A)
<1>1. HeadOf(G) = HeadOf(F) BY DEF HeadOf, RootCell
<1>2. HeadOf(F) \in Node /\ \A l \in Level : ns[l] \subseteq ns[0]
  BY Objects DEF Keyed, Nested
<1>3. ns[0] \subseteq Node BY Objects
<1>4. \A o \in ns[0] \cup {HeadOf(F)} :
        /\ G[<<o, "key">>] = F[<<o, "key">>]
        /\ G[<<o, "value">>] = F[<<o, "value">>]
        /\ \A l \in Level : G[NextCell(o, l)] = F[NextCell(o, l)]
  <2> TAKE o \in ns[0] \cup {HeadOf(F)}
  <2>1. o \in Node /\ NodeCells(o) \subseteq A BY <1>2, <1>3 DEF KeptIn
  <2> QED BY <2>1, Cells
<1>5. \A o, q \in ns[0] \cup {HeadOf(F)} : Precedes(G, o, q) <=> Precedes(F, o, q)
  BY <1>1, <1>4 DEF Precedes, KeyIn
<1>6. Linked(G, ns)
  <2> SUFFICES ASSUME NEW l \in Level, NEW o \in ns[l] \cup {HeadOf(F)}
               PROVE  LET p == G[NextCell(o, l)] IN
                      /\ p = Zero => \A q \in ns[l] : ~Precedes(G, o, q)
                      /\ p # Zero =>
                           /\ p \in ns[l] /\ Precedes(G, o, p)
                           /\ \A q \in ns[l] : Precedes(G, o, q) =>
                                q = p \/ Precedes(G, p, q)
    BY <1>1 DEF Linked
  <2> DEFINE p == F[NextCell(o, l)]
  <2>1. ns[l] \subseteq ns[0] /\ o \in ns[0] \cup {HeadOf(F)} BY <1>2
  <2>2. G[NextCell(o, l)] = p BY <1>4, <2>1
  <2>3. /\ p = Zero => \A q \in ns[l] : ~Precedes(F, o, q)
        /\ p # Zero =>
             /\ p \in ns[l] /\ Precedes(F, o, p)
             /\ \A q \in ns[l] : Precedes(F, o, q) => q = p \/ Precedes(F, p, q)
    BY DEF Linked
  <2> HIDE DEF p
  <2> QED BY <1>5, <2>1, <2>2, <2>3
<1>7. Keyed(G, ns) BY <1>1, <1>4 DEF Keyed, KeyIn
<1>8. Wanted(G, ns, want) BY <1>4 DEF Wanted, KeyIn
<1>9. KeptIn(G, ns, A) BY <1>1 DEF KeptIn
<1> QED BY <1>6, <1>7, <1>8, <1>9

\* With no program to perform, what is wanted is there.
LEMMA HeldNow ==
  ASSUME MemoryTypeOK, Leads, NEW want, HoldsIn(mem, live, <<>>, want)
  PROVE  \E ns : Listed(ns) /\ Wanted(mem, ns, want) /\ KeptIn(mem, ns, live)
<1>1. PICK F, ns :
        /\ ns \in [Level -> SUBSET Node] /\ Yields(<<>>, mem, F)
        /\ Linked(F, ns) /\ Keyed(F, ns) /\ Nested(ns) /\ Wanted(F, ns, want)
        /\ KeptIn(F, ns, live \cup ToAllocate(<<>>))
  BY DEF HoldsIn
<1>2. \A c \in Cell : F[c] = mem[c] BY <1>1 DEF Yields
<1>3. live \cup ToAllocate(<<>>) = live BY DEF ToAllocate
<1>4. KeptIn(F, ns, live) /\ live \subseteq Cell BY <1>1, <1>3 DEF MemoryTypeOK
<1>5. RootCell \in Cell /\ KeptIn(F, ns, Cell) BY <1>4, Cells DEF KeptIn
<1>6. /\ Linked(mem, ns) /\ Keyed(mem, ns) /\ Wanted(mem, ns, want)
  BY <1>1, <1>2, <1>5, SameLists
<1>7. KeptIn(mem, ns, live)
  <2>1. HeadOf(F) = HeadOf(mem) BY <1>2, Cells DEF HeadOf, RootCell
  <2> QED BY <1>4, <2>1 DEF KeptIn
<1> QED BY <1>1, <1>6, <1>7 DEF Listed

\* Pointers lead to nodes.
LEMMA BaseLeads ==
  ASSUME BaseInv, phase = "serve" PROVE Leads /\ MemoryTypeOK
BY LeadsIs DEF BaseInv, PointersTyped, HeadMade

\* Nobody is updating between operations: the list shows what is expected.
LEMMA IInvServing ==
  ASSUME IInv, phase = "serve", starts = 0, \A t \in Thread : ~Updating(t)
  PROVE  \E ns : Listed(ns) /\ Wanted(mem, ns, expect) /\ KeptIn(mem, ns, live)
<1>1. HoldsIn(mem, live, <<>>, expect) BY DEF IInv, LevelsInv
<1>2. Leads /\ MemoryTypeOK BY BaseLeads DEF IInv
<1> QED BY <1>1, <1>2, HeldNow

LEMMA IInvMapCorrect == IInv => MapCorrect
<1> SUFFICES ASSUME IInv, phase = "serve", Unlocked, starts = 0, NEW k \in Key
             PROVE  Find(k) \in expect[k]
  BY DEF MapCorrect, Shows
<1>1. \A t \in Thread : ~Updating(t) BY DEF Unlocked, Updating
<1> QED BY <1>1, IInvServing, FindIs

LEMMA IInvLevelsNested == IInv => LevelsNested
<1> SUFFICES ASSUME IInv, phase = "serve", Unlocked, starts = 0, NEW l \in Level
             PROVE  /\ \A i, j \in DOMAIN Chain(l) :
                         i < j => KeyOf(Chain(l)[i]) < KeyOf(Chain(l)[j])
                    /\ l > 0 => ToSet(Chain(l)) \subseteq ToSet(Chain(l - 1))
  BY DEF LevelsNested
<1>1. \A t \in Thread : ~Updating(t) BY DEF Unlocked, Updating
<1>2. PICK ns : Listed(ns) BY <1>1, IInvServing
<1>3. l > 0 => l - 1 \in Level /\ l - 1 <= l BY Objects
<1>4. l > 0 => ns[l] \subseteq ns[l - 1]
  BY <1>2, <1>3 DEF Listed, Nested
<1> QED BY <1>2, <1>3, <1>4, ChainIs

-----------------------------------------------------------------------------
(***************************************************************************)
(* What the programs consist of, in every process.                         *)
(***************************************************************************)
\* The steps that leave pointers where pointers were; those of init and insert
\* free nothing, and what they make the head is a node.
Wiper ==
  {u \in Step : \A c \in Pointer \cap Assigns(u) :
                  Assigned(u, c) \in Node \cup {Zero}}

Keeper ==
  {u \in Wiper : /\ Releases(u) = {}
                 /\ \A c \in RootCells \cap Assigns(u) : Assigned(u, c) \in Node}

LEMMA WiperIs ==
  ASSUME NEW p \in Seq(Wiper)
  PROVE  p \in Seq(Step) /\ StoresOnly(p, Pointer, Node \cup {Zero})
<1>1. \A j \in DOMAIN p : p[j] \in Wiper BY LenProperties
<1>2. p \in Seq(Step)
  <2>1. Wiper \subseteq Step BY DEF Wiper
  <2> QED BY <2>1
<1> QED BY <1>1, <1>2 DEF Wiper, StoresOnly

LEMMA KeeperIs ==
  ASSUME NEW p \in Seq(Keeper)
  PROVE  /\ p \in Seq(Step) /\ FreesNothing(p)
         /\ StoresOnly(p, Pointer, Node \cup {Zero})
         /\ StoresOnly(p, RootCells, Node)
<1>1. \A j \in DOMAIN p : p[j] \in Keeper BY LenProperties
<1>2. p \in Seq(Wiper)
  <2>1. Keeper \subseteq Wiper BY DEF Keeper
  <2> QED BY <2>1
<1>3. FreesNothing(p) BY <1>1 DEF Keeper, FreesNothing
<1>4. StoresOnly(p, RootCells, Node) BY <1>1 DEF Keeper, StoresOnly
<1> QED BY <1>2, <1>3, <1>4, WiperIs

LEMMA Steps ==
  /\ \A C \in SUBSET Cell : /\ Fl(C) \in Keeper /\ Al(C) \in Keeper
                            /\ Sn(C) \in Keeper /\ TAl(C) \in Keeper
                            /\ Fr(C) \in Wiper /\ TFr(C) \in Wiper
  /\ Bg \in Keeper /\ Cm \in Keeper /\ Keeper \subseteq Wiper
  /\ \A o \in Node, v \in Value : /\ St(<<o, "key">>, v) \in Keeper
                                  /\ St(<<o, "value">>, v) \in Keeper
  /\ \A o \in Node, l \in Level, p \in Node \cup {Zero} :
       St(NextCell(o, l), p) \in Keeper
  /\ \A o \in Node : /\ St(RootCell, o) \in Keeper
                     /\ AlTo(NodeCells(o), RootCell, o) \in Keeper
  /\ St(RootCell, Zero) \in Wiper
<1>1. ASSUME NEW C \in SUBSET Cell
      PROVE  /\ Fl(C) \in Keeper /\ Al(C) \in Keeper
             /\ Sn(C) \in Keeper /\ TAl(C) \in Keeper
             /\ Fr(C) \in Wiper /\ TFr(C) \in Wiper
  <2>1. /\ Fl(C) \in Step /\ Al(C) \in Step /\ Sn(C) \in Step
        /\ TAl(C) \in Step /\ Fr(C) \in Step /\ TFr(C) \in Step
    BY StepKinds
  <2>2. /\ Assigns(Fl(C)) = {} /\ Assigns(Al(C)) = {} /\ Assigns(Sn(C)) = {}
        /\ Assigns(TAl(C)) = {} /\ Assigns(Fr(C)) = {} /\ Assigns(TFr(C)) = {}
    BY StepAssigns
  <2>3. /\ Releases(Fl(C)) = {} /\ Releases(Al(C)) = {} /\ Releases(Sn(C)) = {}
        /\ Releases(TAl(C)) = {}
    BY DEF Releases, Fl, Al, Sn, TAl
  <2> HIDE DEF Step, Fl, Al, Sn, TAl, Fr, TFr
  <2> QED BY <2>1, <2>2, <2>3 DEF Keeper, Wiper
<1>2. Bg \in Keeper /\ Cm \in Keeper
  <2>1. Releases(Bg) = {} /\ Releases(Cm) = {} BY DEF Releases, Bg, Cm
  <2>2. Bg \in Step /\ Cm \in Step BY StepKinds
  <2>3. Assigns(Bg) = {} /\ Assigns(Cm) = {} BY StepAssigns
  <2> QED BY <2>1, <2>2, <2>3 DEF Keeper, Wiper
<1>3. Keeper \subseteq Wiper BY DEF Keeper
<1>4. ASSUME NEW c \in Cell, NEW v \in Value
      PROVE  /\ St(c, v) \in Step /\ Releases(St(c, v)) = {}
             /\ Assigns(St(c, v)) = {c} /\ Assigned(St(c, v), c) = v
  BY StepKinds, StepAssigns DEF Releases, St
<1>5. ASSUME NEW c \in Cell, NEW v \in Value,
             c \in Pointer => v \in Node \cup {Zero}, c = RootCell => v \in Node
      PROVE  St(c, v) \in Keeper
  BY <1>4, <1>5, Cells DEF Keeper, Wiper
<1>6. ASSUME NEW o \in Node, NEW v \in Value
      PROVE  St(<<o, "key">>, v) \in Keeper /\ St(<<o, "value">>, v) \in Keeper
  <2>1. <<o, "key">> \in Cell /\ <<o, "value">> \in Cell BY Cells
  <2>2. /\ <<o, "key">> \notin Pointer /\ <<o, "value">> \notin Pointer
        /\ <<o, "key">> # RootCell /\ <<o, "value">> # RootCell
    BY Fields
  <2> QED BY <1>5, <2>1, <2>2
<1>7. ASSUME NEW o \in Node, NEW l \in Level, NEW p \in Node \cup {Zero}
      PROVE  St(NextCell(o, l), p) \in Keeper
  <2>1. NextCell(o, l) \in Cell /\ NextCell(o, l) # RootCell BY Cells, Fields
  <2>2. p \in Value BY Contents
  <2> QED BY <1>5, <2>1, <2>2
<1>8. ASSUME NEW o \in Node
      PROVE  St(RootCell, o) \in Keeper /\ AlTo(NodeCells(o), RootCell, o) \in Keeper
  <2>1. RootCell \in Cell /\ o \in Value /\ NodeCells(o) \in SUBSET Cell
    BY Cells, Contents
  <2>2. St(RootCell, o) \in Keeper BY <1>5, <2>1
  <2> DEFINE u == AlTo(NodeCells(o), RootCell, o)
  <2>3. /\ u \in Step /\ Releases(u) = {} /\ Assigns(u) = {RootCell}
        /\ Assigned(u, RootCell) = o
    BY <2>1, StepKinds, StepAssigns DEF Releases, AlTo
  <2> HIDE DEF u
  <2>4. u \in Keeper BY <2>3, Cells DEF Keeper, Wiper
  <2> QED BY <2>2, <2>4 DEF u
<1>9. St(RootCell, Zero) \in Wiper
  BY <1>4, Cells, Contents DEF Wiper
<1> QED BY <1>1, <1>2, <1>3, <1>6, <1>7, <1>8, <1>9

LEMMA SeqsOf ==
  ASSUME NEW S
  PROVE  /\ <<>> \in Seq(S)
         /\ \A a \in S : <<a>> \in Seq(S)
         /\ \A a, b \in S : <<a, b>> \in Seq(S)
         /\ \A a, b, c \in S : <<a, b, c>> \in Seq(S)
         /\ \A p, q \in Seq(S) : p \o q \in Seq(S)
OBVIOUS

\* The free node with the lowest number.
LEMMA RoomIs ==
  ASSUME HasRoom
  PROVE  NewNode \in Node /\ NodeCells(NewNode) \cap live = {}
<1>1. FreeNodes \in SUBSET Nat /\ FreeNodes # {}
  BY Objects DEF FreeNodes, HasRoom
<1>2. NewNode \in FreeNodes BY <1>1, MinIs DEF NewNode
<1> QED BY <1>2 DEF FreeNodes

LEMMA InitKeeps ==
  ASSUME CallInv, HasRoom
  PROVE  /\ init \in Seq(Keeper)
         /\ \E j \in DOMAIN init : RootCells \subseteq Assigns(init[j])
<1> DEFINE N == NewNode  NC == NodeCells(N)
           s == {St(NextCell(N, l), Zero) : l \in Level}
           a == <<Al(NC), St(RootCell, N)>>
<1>1. N \in Node /\ NC \in SUBSET Cell /\ RootCells \in SUBSET Cell
  BY RoomIs, Cells
<1>2. Assigns(St(RootCell, N)) = RootCells /\ Assigns(AlTo(NC, RootCell, N)) = RootCells
  BY StepAssigns, Cells
<1> HIDE DEF N
<1>3. CASE Volatile(cls)
  <2>1. init = a \o SetToSeq(s)
    BY <1>3, Media DEF init, skiplist_dram_init, RootCell, N
  <2>2. IsFiniteSet(s)
    <3>1. IsFiniteSet(Level) BY SkipAssumption, FS_Interval DEF Level
    <3> DEFINE f == [l \in Level |-> St(NextCell(N, l), Zero)]
    <3>2. f \in Surjection(Level, s) BY DEF Surjection
    <3> QED BY <3>1, <3>2, FS_Surjection, Zenon
  <2>3. s \subseteq Keeper BY <1>1, Steps
  <2> HIDE DEF s
  <2>4. SetToSeq(s) \in Seq(s) BY <2>2, SetToSeqIs
  <2>5. SetToSeq(s) \in Seq(Keeper) BY <2>3, <2>4
  <2>6. Al(NC) \in Keeper /\ St(RootCell, N) \in Keeper BY <1>1, Steps
  <2>7. a \in Seq(Keeper) BY <2>6, SeqsOf
  <2>8. a[2] = St(RootCell, N) /\ 2 \in DOMAIN a OBVIOUS
  <2> HIDE DEF a
  <2> DEFINE r == SetToSeq(s)
  <2> HIDE DEF r
  <2>9. /\ a \o r \in Seq(Keeper)
        /\ \A j \in DOMAIN a : j \in DOMAIN (a \o r) /\ (a \o r)[j] = a[j]
    BY <2>5, <2>7, ConcatIs DEF r
  <2> QED BY <1>2, <2>1, <2>8, <2>9 DEF r
<1>4. CASE cls.medium = "pmem"
  <2> DEFINE u == AlTo(NC, RootCell, N)
  <2>1. init = <<u>>
    BY <1>4, Media DEF init, skiplist_pmem_init, RootCell, N
  <2>2. u \in Keeper BY <1>1, Steps
  <2>3. Assigns(u) = RootCells BY <1>2
  <2> HIDE DEF u
  <2>4. <<u>> \in Seq(Keeper) /\ 1 \in DOMAIN <<u>> /\ <<u>>[1] = u BY <2>2
  <2> QED BY <2>1, <2>3, <2>4
<1>5. CASE cls.medium = "tx"
  <2> DEFINE u == St(RootCell, N)  b == Sn(RootCells)  c == TAl(NC)
             p == <<Bg, b, c, u, Cm>>
  <2>1. init = p
    BY <1>5, Media DEF init, skiplist_pmem_tx_init, RootCell, N
  <2>2. u \in Keeper /\ b \in Keeper /\ c \in Keeper /\ Bg \in Keeper /\ Cm \in Keeper
    BY <1>1, Steps
  <2>3. Assigns(u) = RootCells BY <1>2
  <2> HIDE DEF u, b, c, Bg, Cm
  <2>4. p \in Seq(Keeper) /\ 4 \in DOMAIN p /\ p[4] = u BY <2>2
  <2> QED BY <2>1, <2>3, <2>4
<1> QED BY <1>3, <1>4, <1>5, Media

LEMMA CopyKeeps ==
  ASSUME NEW o \in Node, NEW v \in Val
  PROVE  Cp(<<o, "value">>, v) \in Seq(Keeper)
<1> DEFINE a == St(<<o, "value">>, Torn)  b == St(<<o, "value">>, v)
<1>1. a \in Keeper /\ b \in Keeper BY Steps, Contents
<1>2. Cp(<<o, "value">>, v) = <<a, b>> BY DEF Cp
<1> HIDE DEF a, b
<1> QED BY <1>1, <1>2, SeqsOf

LEMMA LinkKeeps ==
  ASSUME Leads, NEW o \in Node, NEW path, \A l \in Level : path[l] \in Node,
         NEW h \in 1..SKIPLIST_LEVELS_NUM
  PROVE  /\ Link(o, path, h) \in Seq(Keeper)
         /\ \A C \in SUBSET Cell : /\ Snapshot(C) \in Seq(Keeper)
                                   /\ Persisted(C) \in Seq(Keeper)
<1>1. ASSUME NEW C \in SUBSET Cell
      PROVE  Snapshot(C) \in Seq(Keeper) /\ Persisted(C) \in Seq(Keeper)
  <2>1. Sn(C) \in Keeper /\ Fl(C) \in Keeper BY Steps
  <2> QED BY <2>1, SeqsOf DEF Snapshot, Persisted
<1>2. ASSUME NEW l \in Level, NEW p \in Node
      PROVE  LinkAt(o, p, l) \in Seq(Keeper)
  <2> DEFINE a == St(NextCell(o, l), NextOf(p, l))  b == St(NextCell(p, l), o)
             s == Snapshot(Behind(p, l))  f == Persisted(Behind(p, l))
  <2>1. NextOf(p, l) \in Node \cup {Zero} BY DEF Leads
  <2>2. a \in Keeper /\ b \in Keeper BY <2>1, Steps
  <2>3. Behind(p, l) \in SUBSET Cell BY Cells
  <2>4. s \in Seq(Keeper) /\ f \in Seq(Keeper) BY <1>1, <2>3
  <2>5. LinkAt(o, p, l) = s \o <<a, b>> \o f BY DEF LinkAt
  <2> HIDE DEF a, b, s, f
  <2> QED BY <2>2, <2>4, <2>5, SeqsOf
<1> DEFINE ss == [i \in 1..h |-> LinkAt(o, path[i - 1], i - 1)]
<1>3. h \in Nat /\ \A i \in 1..h : i - 1 \in Level BY SkipAssumption DEF Level
<1>4. \A i \in 1..h : ss[i] \in Seq(Keeper) BY <1>2, <1>3
<1>5. ss = [i \in 1..h |-> ss[i]] OBVIOUS
<1>6. Link(o, path, h) = FlattenSeq(ss) BY DEF Link
<1> HIDE DEF ss
<1>7. FlattenSeq(ss) \in Seq(Keeper) BY <1>3, <1>4, <1>5, FlattenSteps
<1> QED BY <1>1, <1>6, <1>7

LEMMA InsertKeeps ==
  ASSUME CallInv, Leads, NEW k \in Key, NEW v \in Val,
         NEW h \in 1..SKIPLIST_LEVELS_NUM, ~Hit(k) => HasRoom
  PROVE  insert(k, v, h) \in Seq(Keeper)
<1>1. CASE Hit(k)
  <2> DEFINE p == PossibleFound(k)  c == Cp(<<p, "value">>, v)
             f == Fl(NodeCells(p))  s == Sn(EntryOf(p))
  <2>1. p \in Node BY <1>1, PathTyped DEF Hit
  <2>2. c \in Seq(Keeper) BY <2>1, CopyKeeps
  <2>3. f \in Keeper /\ s \in Keeper /\ Bg \in Keeper /\ Cm \in Keeper
    <3>1. NodeCells(p) \in SUBSET Cell /\ EntryOf(p) \in SUBSET Cell
      BY <2>1, Cells
    <3> QED BY <3>1, Steps
  <2>4. /\ Volatile(cls) => insert(k, v, h) = c
        /\ cls.medium = "pmem" => insert(k, v, h) = c \o <<f>>
        /\ cls.medium = "tx" => insert(k, v, h) = <<Bg, s>> \o c \o <<Cm>>
    BY <1>1, Media DEF insert, skiplist_dram_insert, skiplist_pmem_insert,
                       skiplist_pmem_tx_insert
  <2> HIDE DEF p, c, f, s, Bg, Cm
  <2>5. c \o <<f>> \in Seq(Keeper) /\ <<Bg, s>> \o c \o <<Cm>> \in Seq(Keeper)
    <3>1. /\ <<f>> \in Seq(Keeper) /\ <<Bg, s>> \in Seq(Keeper)
          /\ <<Cm>> \in Seq(Keeper)
      BY <2>3, SeqsOf
    <3> QED BY <2>2, <3>1, SeqsOf
  <2> QED BY <2>2, <2>4, <2>5, Media
<1>2. CASE ~Hit(k)
  <2> DEFINE N == NewNode  NC == NodeCells(N)
             e == NewEntry(N, k, v)  l == Link(N, find(k), h)
  <2>1. N \in Node /\ NC \in SUBSET Cell BY <1>2, RoomIs, Cells
  <2>2. e \in Seq(Keeper)
    <3> DEFINE a == St(<<N, "key">>, k)  c == Cp(<<N, "value">>, v)
    <3>1. a \in Keeper /\ c \in Seq(Keeper) BY <2>1, Steps, Contents, CopyKeeps
    <3>2. e = <<a>> \o c BY DEF NewEntry
    <3> HIDE DEF a, c, N, e
    <3> QED BY <3>1, <3>2, SeqsOf
  <2>3. l \in Seq(Keeper) BY <2>1, PathTyped, LinkKeeps
  <2>4. Al(NC) \in Keeper /\ TAl(NC) \in Keeper /\ Bg \in Keeper /\ Cm \in Keeper
    BY <2>1, Steps
  <2>5. /\ cls.medium # "tx" => insert(k, v, h) = <<Al(NC)>> \o e \o l
        /\ cls.medium = "tx" =>
             insert(k, v, h) = <<Bg, TAl(NC)>> \o e \o l \o <<Cm>>
    BY <1>2, Media DEF insert, skiplist_dram_insert, skiplist_pmem_insert,
                       skiplist_pmem_tx_insert
  <2> DEFINE x == Al(NC)  y == TAl(NC)
  <2> HIDE DEF e, l, x, y, Bg, Cm
  <2>6. <<x>> \o e \o l \in Seq(Keeper) /\ <<Bg, y>> \o e \o l \o <<Cm>> \in Seq(Keeper)
    BY <2>2, <2>3, <2>4, SeqsOf DEF x, y
  <2> QED BY <2>5, <2>6 DEF x, y
<1> QED BY <1>1, <1>2

LEMMA RemoveKeeps ==
  ASSUME Leads
  PROVE  RemoveAll \in Seq(Wiper)
<1> DEFINE c == Chain(0)
<1>1. c \in Seq(Node) /\ Len(c) \in Nat /\ \A i \in 1..Len(c) : c[i] \in Node
  BY Objects, ChainTyped, LenProperties
<1>2. ASSUME NEW o \in Node, NEW l \in Level
      PROVE  UnlinkAt(o, l) \in Seq(Wiper)
  <2> DEFINE a == St(NextCell(HeadNode, l), NextOf(o, l))
             s == Snapshot(Behind(HeadNode, l))
             f == Persisted(Behind(HeadNode, l))
  <2>1. NextOf(o, l) \in Node \cup {Zero} /\ HeadNode \in Node BY DEF Leads
  <2>2. a \in Wiper BY <2>1, Steps
  <2>3. s \in Seq(Wiper) /\ f \in Seq(Wiper)
    <3>1. Behind(HeadNode, l) \in SUBSET Cell BY <2>1, Cells
    <3>2. Sn(Behind(HeadNode, l)) \in Wiper /\ Fl(Behind(HeadNode, l)) \in Wiper
      BY <3>1, Steps
    <3> QED BY <3>2, SeqsOf DEF Snapshot, Persisted
  <2>4. UnlinkAt(o, l) = s \o <<a>> \o f \/ UnlinkAt(o, l) = <<>>
    BY DEF UnlinkAt
  <2> HIDE DEF a, s, f
  <2> QED BY <2>2, <2>3, <2>4, SeqsOf
<1>3. ASSUME NEW o \in Node PROVE remove_node(o) \in Seq(Wiper)
  <2> DEFINE L == SKIPLIST_LEVELS_NUM  ss == [i \in 1..L |-> UnlinkAt(o, i - 1)]
  <2>1. L \in Nat /\ \A i \in 1..L : i - 1 \in Level BY SkipAssumption DEF Level
  <2>2. \A i \in 1..L : ss[i] \in Seq(Wiper) BY <1>2, <2>1
  <2>3. ss = [i \in 1..L |-> ss[i]] OBVIOUS
  <2>4. Unlink(o) = FlattenSeq(ss) BY DEF Unlink
  <2> HIDE DEF ss
  <2>5. Unlink(o) \in Seq(Wiper) BY <2>1, <2>2, <2>3, <2>4, FlattenSteps
  <2>6. Fr(NodeCells(o)) \in Wiper BY Cells, Steps
  <2> QED BY <2>5, <2>6, SeqsOf DEF remove_node
<1> HIDE DEF c
<1> DEFINE ss == [i \in 1..Len(c) |-> remove_node(c[i])]
<1>4. \A i \in 1..Len(c) : ss[i] \in Seq(Wiper) BY <1>1, <1>3
<1>5. ss = [i \in 1..Len(c) |-> ss[i]] OBVIOUS
<1>6. RemoveAll = FlattenSeq(ss) BY DEF RemoveAll, c
<1> HIDE DEF ss
<1> QED BY <1>1, <1>4, <1>5, <1>6, FlattenSteps

LEMMA DestroyWipes ==
  ASSUME CallInv, Leads
  PROVE  destroy \in Seq(Wiper)
<1> DEFINE R == RemoveAll  NC == NodeCells(HeadNode)
           a == Fr(NC)  b == St(RootCell, Zero)  c == Fr(RootCells)
           d == Sn(RootCells)  e == TFr(RootCells)
<1>1. R \in Seq(Wiper) BY RemoveKeeps
<1>2. NC \in SUBSET Cell /\ RootCells \in SUBSET Cell BY Cells DEF Leads
<1>3. /\ a \in Wiper /\ b \in Wiper /\ c \in Wiper /\ d \in Wiper /\ e \in Wiper
      /\ Bg \in Wiper /\ Cm \in Wiper
  BY <1>2, Steps
<1>4. /\ Volatile(cls) => destroy = R \o <<a, b>>
      /\ cls.medium = "pmem" => destroy = R \o <<c>>
      /\ cls.medium = "tx" => destroy = <<Bg>> \o R \o <<d, e, Cm>>
  BY Media DEF destroy, skiplist_dram_destroy, skiplist_pmem_destroy,
               skiplist_pmem_tx_destroy, RootCell
<1> HIDE DEF R, a, b, c, d, e, Bg, Cm
<1>5. /\ R \o <<a, b>> \in Seq(Wiper) /\ R \o <<c>> \in Seq(Wiper)
      /\ <<Bg>> \o R \o <<d, e, Cm>> \in Seq(Wiper)
  <2>1. /\ <<a, b>> \in Seq(Wiper) /\ <<c>> \in Seq(Wiper)
        /\ <<Bg>> \in Seq(Wiper) /\ <<d, e, Cm>> \in Seq(Wiper)
    BY <1>3, SeqsOf
  <2> QED BY <1>1, <2>1, SeqsOf
<1> QED BY <1>4, <1>5, Media

-----------------------------------------------------------------------------
(***************************************************************************)
(* The transactions of the tx classes.                                     *)
(***************************************************************************)
LEMMA Opening ==
  ASSUME NEW C \in SUBSET Cell
  PROVE  /\ Part(<<Bg>>, {})
         /\ Part(<<Sn(C)>>, {}) /\ C \subseteq ToLog(<<Sn(C)>>)
         /\ Part(<<Bg, Sn(C)>>, {}) /\ C \subseteq ToLog(<<Bg, Sn(C)>>)
         /\ Part(<<Bg, TAl(C)>>, {}) /\ C \subseteq ToLog(<<Bg, TAl(C)>>)
<1>1. Bg \in Step /\ Sn(C) \in Step /\ TAl(C) \in Step BY StepKinds
<1>2. Logs(Sn(C)) = C /\ Logs(TAl(C)) = C BY StepLogs
<1>3. /\ Bg.op = "tx_begin" /\ Sn(C).op = "tx_add_range"
      /\ TAl(C).op = "tx_alloc"
  BY DEF Bg, Sn, TAl
<1> DEFINE s == Sn(C)  t == TAl(C)  b == Bg
<1> HIDE DEF s, t, b, Step
<1>4. ASSUME NEW u \in Step, u.op \in {"tx_begin", "tx_add_range", "tx_alloc"}
      PROVE  /\ Part(<<u>>, {}) /\ Logs(u) \subseteq ToLog(<<u>>)
  <2>1. <<u>> \in Seq(Step) BY SeqsOf
  <2>2. DOMAIN <<u>> = {1} /\ <<u>>[1] = u OBVIOUS
  <2> DEFINE p == <<u>>
  <2> HIDE DEF p
  <2>3. Part(p, {}) BY <1>4, <2>1, <2>2, PartIs DEF p
  <2> QED BY <2>2, <2>3 DEF p, ToLog
<1>5. ASSUME NEW u \in Step, u.op \in {"tx_begin", "tx_add_range", "tx_alloc"}
      PROVE  /\ Part(<<b, u>>, {}) /\ Logs(u) \subseteq ToLog(<<b, u>>)
  <2>1. Part(<<u>>, {}) /\ Part(<<b>>, {}) /\ Logs(u) \subseteq ToLog(<<u>>)
    BY <1>1, <1>3, <1>4, <1>5 DEF b
  <2>2. <<b>> \o <<u>> = <<b, u>> BY Join11
  <2>3. /\ Part(<<b>> \o <<u>>, {})
        /\ ToLog(<<u>>) \subseteq ToLog(<<b>> \o <<u>>)
    BY <2>1, PartConcat
  <2> QED BY <2>1, <2>2, <2>3
<1> QED BY <1>1, <1>2, <1>3, <1>4, <1>5 DEF s, t, b

LEMMA Storing ==
  ASSUME NEW o \in Node, NEW v \in Val
  PROVE  /\ Part(Cp(<<o, "value">>, v), EntryOf(o))
         /\ \A k \in Key : Part(NewEntry(o, k, v), EntryOf(o))
<1> DEFINE c == <<o, "value">>  p == Cp(c, v)
<1>1. /\ c \in Cell /\ c \in EntryOf(o) /\ <<o, "key">> \in Cell
      /\ <<o, "key">> \in EntryOf(o)
  BY Cells DEF EntryOf
<1>2. St(c, Torn) \in Step /\ St(c, v) \in Step BY <1>1, Contents, StepKinds
<1>3. p = <<St(c, Torn), St(c, v)>> BY DEF Cp
<1>4. \A d, w : St(d, w).op = "store" /\ St(d, w).c = d BY DEF St
<1>5. /\ p \in Seq(Step) /\ DOMAIN p = {1, 2}
      /\ p[1].op = "store" /\ p[1].c = c /\ p[2].op = "store" /\ p[2].c = c
  <2> DEFINE a == St(c, Torn)  b == St(c, v)
  <2>1. a.op = "store" /\ a.c = c /\ b.op = "store" /\ b.c = c BY <1>4
  <2> HIDE DEF a, b, c, p
  <2>2. p = <<a, b>> BY <1>3 DEF a, b
  <2> QED BY <1>2, <2>1, <2>2, SeqsOf DEF a, b
<1>6. Part(p, EntryOf(o))
  <2> HIDE DEF p, c
  <2> QED BY <1>1, <1>5, PartIs
<1>7. ASSUME NEW k \in Key PROVE Part(NewEntry(o, k, v), EntryOf(o))
  <2> DEFINE a == St(<<o, "key">>, k)
  <2>1. a \in Step BY <1>1, Contents, StepKinds
  <2>2. a.op = "store" /\ a.c = <<o, "key">> BY <1>4
  <2>3. NewEntry(o, k, v) = <<a>> \o p BY DEF NewEntry
  <2> HIDE DEF a, p
  <2>4. <<a>> \in Seq(Step) /\ DOMAIN <<a>> = {1} /\ <<a>>[1] = a
    BY <2>1, SeqsOf
  <2> DEFINE q == <<a>>
  <2> HIDE DEF q
  <2>5. Part(q, EntryOf(o)) BY <1>1, <2>2, <2>4, PartIs DEF q
  <2>6. EntryOf(o) \subseteq EntryOf(o) \cup ToLog(q) OBVIOUS
  <2>7. Part(q \o p, EntryOf(o)) BY <1>6, <2>5, <2>6, PartConcat, Zenon
  <2> QED BY <2>3, <2>7 DEF q
<1> QED BY <1>6, <1>7

\* A pointer of the list is snapshotted before it is changed; the new node is
\* the transaction's own.
LEMMA Pointing ==
  ASSUME CallInv, cls.medium = "tx", NEW p \in Node, NEW l \in Level,
         NEW A \in SUBSET Cell, NEW q \in Seq(Step),
         \A j \in DOMAIN q : /\ q[j].op = "store"
                             /\ q[j].c \in A \cup Behind(p, l)
  PROVE  Part(Snapshot(Behind(p, l)) \o q \o Persisted(Behind(p, l)), A)
<1> DEFINE B == Behind(p, l)  s == Sn(B)
<1>1. B \in SUBSET Cell
  <2>1. B \subseteq NodeCells(p) /\ NodeCells(p) \subseteq Cell BY Cells
  <2> QED BY <2>1
<1>2. Snapshot(B) = <<s>> /\ Persisted(B) = <<>>
  BY DEF Snapshot, Persisted
<1>3. Part(<<s>>, {}) /\ B \subseteq ToLog(<<s>>) BY <1>1, Opening
<1>4. Part(q, A \cup B)
  <2> HIDE DEF B
  <2> QED BY PartIs DEF B
<1>5. Part(<<s>>, A)
  <2>1. ASSUME NEW L PROVE LogsFirst(<<s>>, A \cup L)
    <3>1. {} \cup (A \cup L) = A \cup L OBVIOUS
    <3>2. LogsFirst(<<s>>, {} \cup (A \cup L)) BY <1>3, Zenon DEF Part
    <3> QED BY <3>1, <3>2, Zenon
  <2> QED BY <1>3, <2>1, Zenon DEF Part
<1>6. A \cup B \subseteq A \cup ToLog(<<s>>) BY <1>3
<1>7. Part(<<s>> \o q, A) BY <1>4, <1>5, <1>6, PartConcat, Zenon
<1>8. (<<s>> \o q) \o <<>> = <<s>> \o q
  <2>1. <<s>> \o q \in Seq(Step) BY <1>7, Zenon DEF Part
  <2> DEFINE r == <<s>> \o q
  <2> HIDE DEF r
  <2>2. r \o <<>> = r BY <2>1 DEF r
  <2> QED BY <2>2 DEF r
<1> QED BY <1>2, <1>7, <1>8, Zenon

LEMMA LinkLogs ==
  ASSUME CallInv, cls.medium = "tx", Leads, NEW o \in Node, NEW path,
         \A l \in Level : path[l] \in Node, NEW h \in 1..SKIPLIST_LEVELS_NUM
  PROVE  Part(Link(o, path, h), NodeCells(o))
<1>1. ASSUME NEW l \in Level, NEW p \in Node
      PROVE  Part(LinkAt(o, p, l), NodeCells(o))
  <2> DEFINE a == St(NextCell(o, l), NextOf(p, l))  b == St(NextCell(p, l), o)
             q == <<a, b>>
  <2>1. NextOf(p, l) \in Value /\ o \in Value BY Contents DEF Leads
  <2>2. /\ NextCell(o, l) \in NodeCells(o) /\ NodeCells(o) \in SUBSET Cell
        /\ NextCell(p, l) \in Behind(p, l) /\ NextCell(p, l) \in Cell
    BY Cells
  <2>3. a \in Step /\ b \in Step BY <2>1, <2>2, StepKinds
  <2>4. a.op = "store" /\ a.c = NextCell(o, l) /\ b.op = "store" /\ b.c = NextCell(p, l)
    BY DEF St
  <2>5. LinkAt(o, p, l)
          = Snapshot(Behind(p, l)) \o q \o Persisted(Behind(p, l))
    BY DEF LinkAt
  <2> HIDE DEF a, b
  <2>6. q \in Seq(Step) /\ DOMAIN q = {1, 2} /\ q[1] = a /\ q[2] = b
    BY <2>3, SeqsOf
  <2> HIDE DEF q
  <2>7. \A j \in DOMAIN q : /\ q[j].op = "store"
                            /\ q[j].c \in NodeCells(o) \cup Behind(p, l)
    BY <2>2, <2>4, <2>6
  <2> QED BY <2>2, <2>5, <2>6, <2>7, Pointing
<1> DEFINE ss == [i \in 1..h |-> LinkAt(o, path[i - 1], i - 1)]
<1>2. h \in Nat /\ \A i \in 1..h : i - 1 \in Level BY SkipAssumption DEF Level
<1>3. \A i \in 1..h : Part(ss[i], NodeCells(o)) BY <1>1, <1>2
<1>4. ss = [i \in 1..h |-> ss[i]] OBVIOUS
<1>5. Link(o, path, h) = FlattenSeq(ss) BY DEF Link
<1> HIDE DEF ss
<1> QED BY <1>2, <1>3, <1>4, <1>5, PartFlatten

LEMMA InsertLogs ==
  ASSUME CallInv, cls.medium = "tx", Leads, NEW k \in Key, NEW v \in Val,
         NEW h \in 1..SKIPLIST_LEVELS_NUM, ~Hit(k) => HasRoom, NEW L
  PROVE  LogsFirst(insert(k, v, h), L)
<1>1. CASE Hit(k)
  <2> DEFINE p == PossibleFound(k)  c == Cp(<<p, "value">>, v)
             a == <<Bg, Sn(EntryOf(p))>>
  <2>1. p \in Node BY <1>1, PathTyped DEF Hit
  <2>2. Part(a, {}) /\ EntryOf(p) \subseteq ToLog(a)
    <3>1. EntryOf(p) \in SUBSET Cell
      <4>1. EntryOf(p) \subseteq NodeCells(p) /\ NodeCells(p) \subseteq Cell
        BY <2>1, Cells
      <4> QED BY <4>1
    <3> QED BY <3>1, Opening
  <2>3. Part(c, EntryOf(p)) BY <2>1, Storing
  <2>4. insert(k, v, h) = (a \o c) \o <<Cm>>
    BY <1>1, Media DEF insert, skiplist_pmem_tx_insert
  <2> HIDE DEF p, c, a
  <2>5. EntryOf(p) \subseteq {} \cup ToLog(a) BY <2>2
  <2>6. Part(a \o c, {}) BY <2>2, <2>3, <2>5, PartConcat, Zenon
  <2>7. LogsFirst((a \o c) \o <<Cm>>, L) BY <2>6, PartsEnd, Zenon
  <2> QED BY <2>4, <2>7
<1>2. CASE ~Hit(k)
  <2> DEFINE N == NewNode  NC == NodeCells(N)  a == <<Bg, TAl(NC)>>
             e == NewEntry(N, k, v)  l == Link(N, find(k), h)
  <2>1. N \in Node /\ NC \in SUBSET Cell /\ EntryOf(N) \subseteq NC
    BY <1>2, RoomIs, Cells
  <2>2. Part(a, {}) /\ NC \subseteq ToLog(a) BY <2>1, Opening
  <2>3. Part(e, EntryOf(N)) BY <2>1, Storing
  <2>4. Part(l, NC) BY <2>1, PathTyped, LinkLogs
  <2>5. insert(k, v, h) = ((a \o e) \o l) \o <<Cm>>
    BY <1>2, Media DEF insert, skiplist_pmem_tx_insert
  <2> HIDE DEF N, e, l, a
  <2>6. EntryOf(N) \subseteq {} \cup ToLog(a) BY <2>1, <2>2
  <2> DEFINE ae == a \o e
  <2>7. Part(ae, {}) /\ ToLog(a) \subseteq ToLog(ae)
    BY <2>2, <2>3, <2>6, PartConcat, Zenon
  <2> HIDE DEF ae
  <2>8. NC \subseteq {} \cup ToLog(ae) BY <2>2, <2>7
  <2>9. Part(ae \o l, {}) BY <2>4, <2>7, <2>8, PartConcat, Zenon
  <2>10. LogsFirst((ae \o l) \o <<Cm>>, L) BY <2>9, PartsEnd, Zenon
  <2> QED BY <2>5, <2>10 DEF ae
<1> QED BY <1>1, <1>2

LEMMA InitLogs ==
  ASSUME CallInv, cls.medium = "tx", HasRoom, NEW L
  PROVE  LogsFirst(init, L)
<1> DEFINE N == NewNode  NC == NodeCells(N)  u == St(RootCell, N)
           a == <<Bg, Sn(RootCells)>>  t == TAl(NC)
<1>1. N \in Node /\ NC \in SUBSET Cell /\ RootCells \in SUBSET Cell
      /\ RootCell \in RootCells /\ N \in Value
  BY RoomIs, Cells, Contents
<1>2. init = <<Bg, Sn(RootCells), t, u, Cm>>
  BY Media DEF init, skiplist_pmem_tx_init, RootCell
<1> DEFINE p == init
<1>3. /\ Bg.op = "tx_begin" /\ Cm.op = "tx_end"
      /\ Sn(RootCells).op = "tx_add_range" /\ Logs(Sn(RootCells)) = RootCells
      /\ t.op = "tx_alloc" /\ u.op = "store" /\ u.c = RootCell
  BY StepLogs DEF Bg, Cm, Sn, TAl, St
<1> DEFINE b == Bg  c == Cm  s == Sn(RootCells)
<1> HIDE DEF b, c, s, t, u
<1>4. p = <<b, s, t, u, c>> BY <1>2 DEF b, c, s
<1>5. /\ b.op = "tx_begin" /\ c.op = "tx_end" /\ s.op = "tx_add_range"
      /\ t.op = "tx_alloc" /\ u.op = "store" /\ u.c \in Logs(s)
  BY <1>1, <1>3 DEF b, c, s
<1>6. /\ DOMAIN p = {1, 2, 3, 4, 5} /\ Len(p) = 5
      /\ p[1] = b /\ p[2] = s /\ p[3] = t /\ p[4] = u /\ p[5] = c
  BY <1>4
<1> HIDE DEF p
<1>7. LogsFirst(p, L) BY <1>5, <1>6 DEF LogsFirst
<1> QED BY <1>7 DEF p

LEMMA DestroyLogs ==
  ASSUME CallInv, cls.medium = "tx", Leads, NEW L
  PROVE  LogsFirst(destroy, L)
<1> DEFINE c == Chain(0)
<1>1. c \in Seq(Node) /\ Len(c) \in Nat /\ \A i \in 1..Len(c) : c[i] \in Node
  BY Objects, ChainTyped, LenProperties
<1>2. ASSUME NEW o \in Node, NEW l \in Level
      PROVE  Part(UnlinkAt(o, l), {})
  <2> DEFINE B == Behind(HeadNode, l)  a == St(NextCell(HeadNode, l), NextOf(o, l))
             q == <<a>>
  <2>1. NextOf(o, l) \in Value /\ HeadNode \in Node BY Contents DEF Leads
  <2>2. NextCell(HeadNode, l) \in B /\ NextCell(HeadNode, l) \in Cell
    BY <2>1, Cells
  <2>3. a \in Step /\ a.op = "store" /\ a.c = NextCell(HeadNode, l)
    BY <2>1, <2>2, StepKinds DEF St
  <2>4. \/ UnlinkAt(o, l) = Snapshot(B) \o q \o Persisted(B)
        \/ UnlinkAt(o, l) = <<>>
    BY DEF UnlinkAt
  <2> HIDE DEF a
  <2>5. q \in Seq(Step) /\ DOMAIN q = {1} /\ q[1] = a BY <2>3, SeqsOf
  <2> HIDE DEF q
  <2>6. \A j \in DOMAIN q : q[j].op = "store" /\ q[j].c \in {} \cup B
    BY <2>2, <2>3, <2>5
  <2> HIDE DEF B
  <2>7. Part(Snapshot(B) \o q \o Persisted(B), {})
    BY <2>1, <2>5, <2>6, Pointing DEF B
  <2>8. Part(<<>>, {})
    <3> DEFINE e == <<>>
    <3>1. e \in Seq(Step) /\ DOMAIN e = {} OBVIOUS
    <3> HIDE DEF e
    <3>2. Part(e, {}) BY <3>1, PartIs
    <3> QED BY <3>2 DEF e
  <2> QED BY <2>4, <2>7, <2>8
<1>3. ASSUME NEW o \in Node PROVE Part(remove_node(o), {})
  <2> DEFINE N == SKIPLIST_LEVELS_NUM  ss == [i \in 1..N |-> UnlinkAt(o, i - 1)]
  <2>1. N \in Nat /\ \A i \in 1..N : i - 1 \in Level BY SkipAssumption DEF Level
  <2>2. \A i \in 1..N : Part(ss[i], {}) BY <1>2, <2>1
  <2>3. ss = [i \in 1..N |-> ss[i]] OBVIOUS
  <2>4. Unlink(o) = FlattenSeq(ss) BY DEF Unlink
  <2> HIDE DEF ss
  <2>5. Part(Unlink(o), {}) BY <2>1, <2>2, <2>3, <2>4, PartFlatten
  <2>6. Unlink(o) \in Seq(Step) BY <2>5, Zenon DEF Part
  <2>7. remove_node(o) = Unlink(o) \o <<>> BY DEF remove_node
  <2>8. remove_node(o) = Unlink(o) BY <2>6, <2>7
  <2> QED BY <2>5, <2>8
<1> HIDE DEF c
<1> DEFINE ss == [i \in 1..Len(c) |-> remove_node(c[i])]
<1>4. \A i \in 1..Len(c) : Part(ss[i], {}) BY <1>1, <1>3
<1>5. ss = [i \in 1..Len(c) |-> ss[i]] OBVIOUS
<1>6. RemoveAll = FlattenSeq(ss) BY DEF RemoveAll, c
<1> HIDE DEF ss
<1> DEFINE R == RemoveAll  s == Sn(RootCells)  f == TFr(RootCells)
<1>7. Part(R, {}) BY <1>1, <1>4, <1>5, <1>6, PartFlatten
<1>8. RootCells \in SUBSET Cell BY Cells
<1>9. Part(<<Bg>>, {}) BY <1>8, Opening
<1>10. Part(<<s, f>>, {})
  <2>1. s \in Step /\ f \in Step BY <1>8, StepKinds
  <2>2. s.op = "tx_add_range" /\ f.op = "tx_free" BY DEF Sn, TFr
  <2> HIDE DEF s, f
  <2> DEFINE q == <<s, f>>
  <2>3. q \in Seq(Step) /\ DOMAIN q = {1, 2} /\ q[1] = s /\ q[2] = f
    BY <2>1, SeqsOf
  <2> HIDE DEF q
  <2>4. Part(q, {}) BY <2>2, <2>3, PartIs
  <2> QED BY <2>4 DEF q
<1>11. destroy = ((<<Bg>> \o R) \o <<s, f>>) \o <<Cm>>
  <2>1. destroy = <<Bg>> \o R \o <<s, f, Cm>>
    BY Media DEF destroy, skiplist_pmem_tx_destroy
  <2>2. s \in Step /\ f \in Step /\ Bg \in Step /\ Cm \in Step
    BY <1>8, StepKinds
  <2> DEFINE b == Bg  m == Cm  r == <<Bg>> \o R
  <2>3. R \in Seq(Step) BY <1>7, Zenon DEF Part
  <2> HIDE DEF s, f, b, m, R, Step
  <2>4. <<b>> \in Seq(Step) BY <2>2, SeqsOf DEF b
  <2>5. <<b>> \o R \in Seq(Step) BY <2>3, <2>4, SeqsOf
  <2> HIDE DEF r
  <2>6. r \in Seq(Step) BY <2>5 DEF r, b
  <2>7. <<s, f>> \in Seq(Step) /\ <<m>> \in Seq(Step)
    BY <2>2, SeqsOf DEF m
  <2>8. <<s, f>> \o <<m>> = <<s, f, m>> BY Join21
  <2>9. (r \o <<s, f>>) \o <<m>> = r \o (<<s, f>> \o <<m>>)
    BY <2>6, <2>7
  <2> QED BY <2>1, <2>8, <2>9 DEF r, m, b, R
<1> HIDE DEF R, s, f
<1> DEFINE r == <<Bg>> \o R
<1>12. Part(r, {})
  <2>1. {} \subseteq {} \cup ToLog(<<Bg>>) OBVIOUS
  <2> QED BY <1>7, <1>9, <2>1, PartConcat, Zenon
<1> HIDE DEF r
<1>13. Part(r \o <<s, f>>, {})
  <2>1. {} \subseteq {} \cup ToLog(r) OBVIOUS
  <2> QED BY <1>10, <1>12, <2>1, PartConcat, Zenon
<1>14. LogsFirst((r \o <<s, f>>) \o <<Cm>>, L) BY <1>13, PartsEnd, Zenon
<1> QED BY <1>11, <1>14 DEF r

-----------------------------------------------------------------------------
(***************************************************************************)
(* Every step keeps BaseInv.                                               *)
(***************************************************************************)
LEMMA NoProgram ==
  /\ <<>> \in Seq(Step) /\ DOMAIN <<>> = {} /\ FreesNothing(<<>>)
  /\ \A A : LogsFirst(<<>>, A) /\ \A C, R : StoresOnly(<<>>, C, R)
  /\ ToAllocate(<<>>) = {}
BY DEF ToAllocate, FreesNothing, LogsFirst, StoresOnly

\* A step that changes neither the pool nor a program.
LEMMA BaseSame ==
  ASSUME BaseInv, CallInv', UNCHANGED <<pvars, cls, prog>>,
         phase' = phase \/ (phase = "init" /\ phase' = "serve" /\ prog[main] = <<>>)
  PROVE  BaseInv'
<1>1. UNCHANGED <<mem, may, vol, live, intx, undo, fresh, dying, power>>
  BY DEF pvars
<1>2. MemoryTypeOK' BY <1>1 DEF BaseInv, MemoryTypeOK
<1>3. ProgramsTyped' BY DEF BaseInv, ProgramsTyped
<1>4. TxPrograms' BY <1>1 DEF BaseInv, TxPrograms, Logged
<1>5. PointersTyped' BY <1>1 DEF BaseInv, PointersTyped, HoldOnly
<1>6. HeadMade'
  <2>1. phase' = "serve" => HeadNode \in Node
    BY NoProgram DEF BaseInv, HeadMade
  <2>2. HeadNode' = HeadNode BY <1>1 DEF HeadNode
  <2>3. \A a \in Actor :
          phase' \in {"init", "serve"} => StoresOnly(prog[a], RootCells, Node)
    BY DEF BaseInv, HeadMade
  <2>4. phase' = "init" =>
          \/ HeadNode \in Node
          \/ \E j \in DOMAIN prog[main] : RootCells \subseteq Assigns(prog[main][j])
    BY DEF BaseInv, HeadMade
  <2> QED BY <2>1, <2>2, <2>3, <2>4 DEF HeadMade
<1>7. NothingFreed' BY <1>1 DEF BaseInv, NothingFreed
<1> QED BY <1>2, <1>3, <1>4, <1>5, <1>6, <1>7 DEF BaseInv

\* An actor begins an operation.
LEMMA BaseBegins ==
  ASSUME BaseInv, CallInv', UNCHANGED <<pvars, cls>>, phase = "serve",
         NEW a \in Actor, NEW p \in Seq(Wiper), prog' = [prog EXCEPT ![a] = p],
         cls.medium = "tx" => \A L : LogsFirst(p, L),
         phase' = "destroy" \/ (phase' = "serve" /\ p \in Seq(Keeper))
  PROVE  BaseInv'
<1>1. UNCHANGED <<mem, may, vol, live, intx, undo, fresh, dying, power>>
  BY DEF pvars
<1>2. MemoryTypeOK' BY <1>1 DEF BaseInv, MemoryTypeOK
<1>3. p \in Seq(Step) /\ StoresOnly(p, Pointer, Node \cup {Zero})
  BY WiperIs
<1>4. /\ ProgramsTyped' /\ prog'[a] = p
      /\ \A b \in Actor \ {a} : prog'[b] = prog[b]
  BY <1>3, StartsProgram DEF BaseInv
<1>5. TxPrograms'
  BY <1>1, <1>4, Zenon DEF BaseInv, TxPrograms, Logged
<1>6. PointersTyped'
  <2>1. HoldOnly(Pointer, Node \cup {Zero})'
    BY <1>1 DEF BaseInv, PointersTyped, HoldOnly
  <2>2. \A b \in Actor : StoresOnly(prog'[b], Pointer, Node \cup {Zero})
    BY <1>3, <1>4, Zenon DEF BaseInv, PointersTyped
  <2> QED BY <2>1, <2>2, Zenon DEF PointersTyped
<1>7. CASE phase' = "destroy"
  <2>1. HeadMade' /\ NothingFreed' BY <1>7 DEF HeadMade, NothingFreed
  <2> QED BY <1>2, <1>4, <1>5, <1>6, <2>1 DEF BaseInv
<1>8. CASE phase' = "serve" /\ p \in Seq(Keeper)
  <2>1. FreesNothing(p) /\ StoresOnly(p, RootCells, Node) BY <1>8, KeeperIs
  <2>2. HeadNode' = HeadNode /\ HeadNode \in Node
    BY <1>1 DEF BaseInv, HeadMade, HeadNode
  <2>3. \A b \in Actor : FreesNothing(prog'[b]) /\ StoresOnly(prog'[b], RootCells, Node)
    BY <1>4, <2>1, Zenon DEF BaseInv, HeadMade, NothingFreed
  <2>4. dying' = {} BY <1>1 DEF BaseInv, NothingFreed
  <2>5. HeadMade' BY <1>8, <2>2, <2>3 DEF HeadMade
  <2>6. NothingFreed' BY <2>3, <2>4 DEF NothingFreed
  <2> QED BY <1>2, <1>4, <1>5, <1>6, <2>5, <2>6 DEF BaseInv
<1> QED BY <1>7, <1>8

LEMMA BaseExec ==
  ASSUME BaseInv, NEW a \in Actor, Exec(a) PROVE BaseInv'
<1> DEFINE u == prog[a][1]
<1>1. CallInv /\ MemoryTypeOK /\ ProgramsTyped /\ TxPrograms BY DEF BaseInv
<1>2. /\ prog[a] \in Seq(Step) /\ prog[a] # <<>>
      /\ u \in Step /\ MemoryStep(u) /\ prog'[a] = Tail(prog[a])
      /\ \A b \in Actor \ {a} : prog[b] = <<>> /\ prog'[b] = <<>>
      /\ MemoryTypeOK' /\ ProgramsTyped'
  BY <1>1, ExecDoes
<1>3. UNCHANGED <<cls, phase, th, rd, wr, expect, dirty, calls, fails, starts>>
  BY <1>1, ExecIs
<1>4. CallInv' BY <1>1, ExecCalls
<1>5. TxPrograms'
  <2>1. CASE cls.medium = "tx" BY <1>1, <2>1, ExecTx
  <2>2. CASE cls.medium # "tx" BY <1>3, <2>2 DEF TxPrograms
  <2> QED BY <2>1, <2>2
<1>6. \A c \in Cell : mem'[c] = IF c \in Assigns(u) THEN Assigned(u, c) ELSE mem[c]
  BY <1>1, <1>2, StepDoes
<1> HIDE DEF u
<1>7. PointersTyped'
  <2>1. HoldOnly(Pointer, Node \cup {Zero}) /\ Pointer \in SUBSET Cell
        /\ StoresOnly(prog[a], Pointer, Node \cup {Zero})
    BY Cells DEF BaseInv, PointersTyped
  <2>2. /\ \A c \in Pointer \cap Assigns(u) : Assigned(u, c) \in Node \cup {Zero}
        /\ StoresOnly(prog'[a], Pointer, Node \cup {Zero})
    BY <1>2, <2>1, StoresOnlyTail DEF u
  <2>3. HoldOnly(Pointer, Node \cup {Zero})'
    <3> DEFINE R == Node \cup {Zero}
    <3>1. HoldOnly(Pointer, R) /\ \A c \in Pointer \cap Assigns(u) : Assigned(u, c) \in R
      BY <2>1, <2>2
    <3> HIDE DEF R
    <3>2. HoldOnly(Pointer, R)' BY <1>1, <1>2, <2>1, <3>1, StepHoldsOnly
    <3> QED BY <3>2 DEF R
  <2>4. \A b \in Actor : StoresOnly(prog'[b], Pointer, Node \cup {Zero})
    BY <1>2, <2>2, NoProgram, Zenon
  <2> QED BY <2>3, <2>4, Zenon DEF PointersTyped
<1>8. HeadMade'
  <2>1. CASE phase \in {"init", "serve"}
    <3>1. StoresOnly(prog[a], RootCells, Node)
      BY <2>1 DEF BaseInv, HeadMade
    <3>2. /\ \A c \in RootCells \cap Assigns(u) : Assigned(u, c) \in Node
          /\ StoresOnly(prog'[a], RootCells, Node)
      BY <1>2, <3>1, StoresOnlyTail DEF u
    <3>3. \A b \in Actor : StoresOnly(prog'[b], RootCells, Node)
      BY <1>2, <3>2, NoProgram, Zenon
    <3>4. RootCells = {RootCell} /\ RootCell \in Cell BY Cells
    <3>5. HeadNode = mem[RootCell] /\ HeadNode' = mem'[RootCell]
      BY DEF RootCell, HeadNode
    <3>6. HeadNode \in Node \/ RootCell \in Assigns(u) => HeadNode' \in Node
      BY <1>6, <3>2, <3>4, <3>5
    <3>7. phase' = "serve" => HeadNode' \in Node
      BY <1>3, <3>6 DEF BaseInv, HeadMade
    <3>8. phase' = "init" =>
            \/ HeadNode' \in Node
            \/ \E j \in DOMAIN prog'[main] : RootCells \subseteq Assigns(prog'[main][j])
      <4> SUFFICES ASSUME phase = "init", HeadNode \notin Node, RootCell \notin Assigns(u)
                   PROVE  \E j \in DOMAIN prog'[main] :
                            RootCells \subseteq Assigns(prog'[main][j])
        BY <1>3, <3>6
      <4>1. PICK j \in DOMAIN prog[main] : RootCells \subseteq Assigns(prog[main][j])
        BY DEF BaseInv, HeadMade
      <4>2. a = main BY <1>2, <4>1, NoProgram DEF Actor
      <4>3. /\ DOMAIN prog[a] = 1..Len(prog[a]) /\ Len(prog[a]) \in Nat \ {0}
            /\ DOMAIN Tail(prog[a]) = 1..(Len(prog[a]) - 1)
            /\ \A i \in 1..(Len(prog[a]) - 1) : Tail(prog[a])[i] = prog[a][i + 1]
        BY <1>2, TailIs
      <4>4. j # 1 BY <3>4, <4>1, <4>2 DEF u
      <4>5. j - 1 \in 1..(Len(prog[a]) - 1) /\ (j - 1) + 1 = j
        BY <4>1, <4>2, <4>3, <4>4
      <4>6. Tail(prog[a])[j - 1] = prog[a][j] BY <4>3, <4>5
      <4> QED BY <1>2, <4>1, <4>2, <4>3, <4>5, <4>6
    <3> QED BY <1>3, <3>3, <3>7, <3>8 DEF HeadMade
  <2>2. CASE phase \notin {"init", "serve"} BY <1>3, <2>2 DEF HeadMade
  <2> QED BY <2>1, <2>2
<1>9. NothingFreed'
  <2>1. CASE phase # "destroy"
    <3>1. dying = {} /\ FreesNothing(prog[a])
      BY <2>1 DEF BaseInv, NothingFreed
    <3>2. Releases(u) = {} /\ FreesNothing(prog'[a])
      BY <1>2, <3>1, FreesNothingTail, Zenon DEF u
    <3>3. dying' = {} BY <1>2, <3>1, <3>2, StepKeepsLive
    <3>4. \A b \in Actor : FreesNothing(prog'[b])
      BY <1>2, <3>2, NoProgram, Zenon
    <3> QED BY <3>3, <3>4 DEF NothingFreed
  <2>2. CASE phase = "destroy" BY <1>3, <2>2 DEF NothingFreed
  <2> QED BY <2>1, <2>2
<1> QED BY <1>2, <1>4, <1>5, <1>7, <1>8, <1>9 DEF BaseInv

\* The process is gone: nothing is to be performed any more.
LEMMA BaseFails ==
  ASSUME BaseInv, CallInv', NEW how \in {"failed", "exited"}, Fail(how),
         cls' = cls, phase' \in {"down", "closed"},
         \A a \in Actor : prog'[a] = <<>>, prog' = [a \in Actor |-> prog'[a]]
  PROVE  BaseInv'
<1>1. MemoryTypeOK' BY FailTypes DEF BaseInv
<1>2. dying' = {} BY DEF Fail
<1>3. ProgramsTyped' BY NoProgram, Zenon DEF ProgramsTyped
<1>4. TxPrograms' BY NoProgram DEF TxPrograms
<1>5. PointersTyped'
  <2> DEFINE R == Node \cup {Zero}
  <2>1. MemoryTypeOK /\ HoldOnly(Pointer, R) /\ Pointer \in SUBSET Cell /\ Zero \in R
    BY Cells DEF BaseInv, PointersTyped
  <2> HIDE DEF R
  <2>2. HoldOnly(Pointer, R)' BY <2>1, FailHoldsOnly
  <2>3. \A a \in Actor : StoresOnly(prog'[a], Pointer, R) BY NoProgram, Zenon
  <2> QED BY <2>2, <2>3, Zenon DEF PointersTyped, R
<1>6. HeadMade' BY DEF HeadMade
<1>7. NothingFreed' BY <1>2, NoProgram DEF NothingFreed
<1> QED BY <1>1, <1>3, <1>4, <1>5, <1>6, <1>7 DEF BaseInv

LEMMA BaseGone ==
  ASSUME BaseInv, Close \/ Crash \/ \E t \in Thread : MissDies(t)
  PROVE  BaseInv' /\ phase' \in {"down", "closed"}
<1>1. CASE Close
  <2>1. CallInv' BY <1>1, CloseCalls DEF BaseInv
  <2>2. /\ phase = "destroy" /\ prog[main] = <<>> /\ Fail("exited")
        /\ phase' = "closed" /\ UNCHANGED <<cls, prog>>
    BY <1>1 DEF Close, ProcessExit
  <2>3. Quiet BY <2>2 DEF BaseInv, CallInv, CallsServed
  <2>4. \A a \in Actor : prog[a] = <<>>
    BY <2>2, <2>3, QuietPrograms DEF BaseInv, Actor
  <2>5. \A a \in Actor : prog'[a] = <<>> BY <2>2, <2>4
  <2>6. prog' = [a \in Actor |-> prog'[a]]
    BY <2>2 DEF BaseInv, CallInv, CallTypeOK
  <2>7. BaseInv' BY <2>1, <2>2, <2>5, <2>6, BaseFails
  <2> QED BY <2>2, <2>7
<1>2. ASSUME CallInv', NEW how \in {"failed", "exited"}, Fail(how), Gone
      PROVE  BaseInv' /\ phase' \in {"down", "closed"}
  <2>1. /\ phase' = "down" /\ cls' = cls
        /\ prog' = [a \in Actor |-> <<>>]
    BY <1>2 DEF Gone, Actor
  <2>2. \A a \in Actor : prog'[a] = <<>> BY <2>1
  <2>3. prog' = [a \in Actor |-> prog'[a]] BY <2>1
  <2>4. BaseInv' BY <1>2, <2>1, <2>2, <2>3, BaseFails
  <2> QED BY <2>1, <2>4
<1>3. CASE Crash
  <2>1. CallInv' BY <1>3, CrashCalls DEF BaseInv
  <2> QED BY <1>2, <1>3, <2>1 DEF Crash, PowerFail
<1>4. CASE \E t \in Thread : MissDies(t)
  <2>1. Dies BY <1>4 DEF MissDies
  <2>2. CallInv' BY <2>1, DiesCalls DEF BaseInv
  <2> QED BY <1>2, <2>1, <2>2 DEF Dies, ProcessExit
<1> QED BY <1>1, <1>3, <1>4

LEMMA BaseSettling ==
  ASSUME BaseInv, Settling
  PROVE  BaseInv' /\ phase' \notin {"init", "serve"}
<1>1. CallInv' BY SettlingCalls DEF BaseInv
<1>2. MemoryTypeOK' BY SettleTypes DEF BaseInv, Settling
<1>3. /\ power = "failed" /\ UNCHANGED svars /\ SettleNext
      /\ live' = live /\ undo' = undo /\ fresh' = fresh /\ dying' = dying
  BY DEF Settling, SettleNext, Settle
<1>4. UNCHANGED <<cls, phase, prog>> BY <1>3 DEF svars
<1>5. phase' \notin {"init", "serve"}
  BY <1>3, <1>4 DEF BaseInv, CallInv, CallsServed
<1>6. PointersTyped'
  <2> DEFINE R == Node \cup {Zero}
  <2>1. MemoryTypeOK /\ HoldOnly(Pointer, R) /\ Pointer \in SUBSET Cell
    BY Cells DEF BaseInv, PointersTyped
  <2> HIDE DEF R
  <2>2. HoldOnly(Pointer, R)' BY <1>3, <2>1, SettleHoldsOnly
  <2>3. \A a \in Actor : StoresOnly(prog'[a], Pointer, R)
    BY <1>4 DEF BaseInv, PointersTyped, R
  <2> QED BY <2>2, <2>3, Zenon DEF PointersTyped, R
<1>7. HeadMade' BY <1>5 DEF HeadMade
<1>8. ProgramsTyped' /\ TxPrograms' /\ NothingFreed'
  BY <1>3, <1>4 DEF BaseInv, ProgramsTyped, TxPrograms, Logged, NothingFreed
<1> QED BY <1>1, <1>2, <1>5, <1>6, <1>7, <1>8 DEF BaseInv

\* A process starts: main is given init to perform and the threads nothing.
LEMMA Starting ==
  ASSUME CallInv, NEW p \in Seq(Keeper), prog[main] = p,
         \A t \in Thread : prog[t] = <<>>, prog = [a \in Actor |-> prog[a]],
         \E j \in DOMAIN p : RootCells \subseteq Assigns(p[j]),
         cls.medium = "tx" => \A L : LogsFirst(p, L),
         MemoryTypeOK, HoldOnly(Pointer, Node \cup {Zero}), dying = {},
         phase = "init"
  PROVE  BaseInv
<1>1. /\ p \in Seq(Step) /\ FreesNothing(p)
      /\ StoresOnly(p, Pointer, Node \cup {Zero}) /\ StoresOnly(p, RootCells, Node)
  BY KeeperIs
<1>2. ASSUME NEW a \in Actor
      PROVE  /\ prog[a] \in Seq(Step) /\ FreesNothing(prog[a])
             /\ StoresOnly(prog[a], Pointer, Node \cup {Zero})
             /\ StoresOnly(prog[a], RootCells, Node)
             /\ cls.medium = "tx" => LogsFirst(prog[a], Logged)
  <2>1. prog[a] = p \/ prog[a] = <<>> BY DEF Actor
  <2> QED BY <1>1, <2>1, NoProgram, Zenon
<1>3. ProgramsTyped /\ TxPrograms /\ PointersTyped /\ NothingFreed
  BY <1>2, Zenon DEF ProgramsTyped, TxPrograms, PointersTyped, NothingFreed
<1>4. HeadMade BY <1>2 DEF HeadMade
<1> QED BY <1>3, <1>4 DEF BaseInv

LEMMA InitBase == SkipInit => BaseInv
<1> SUFFICES ASSUME StoredsInit(RootCells, {}, init) PROVE BaseInv
  BY DEF SkipInit
<1>1. CallInv BY InitCalls
<1>2. /\ phase = "init" /\ live \subseteq RootCells /\ dying = {}
      /\ prog = [t \in Thread \cup {main} |-> IF t = main THEN init ELSE <<>>]
  BY DEF StoredsInit, PoolInit
<1>3. /\ mem = [d \in Cell |-> Zero] /\ may = [d \in Cell |-> {Zero}]
      /\ vol \subseteq Cell /\ live \subseteq Cell /\ intx = FALSE
      /\ undo = NoUndo /\ fresh = {} /\ dying = {} /\ power = "up"
  <2>1. PoolInit(Cell, {}) \/ PoolInit({}, RootCells)
    BY DEF StoredsInit
  <2>2. RootCells \subseteq Cell BY Cells
  <2> QED BY <2>1, <2>2 DEF PoolInit
<1>4. MemoryTypeOK BY <1>3, ZeroAssumption, NoUndoFacts DEF MemoryTypeOK
<1>5. HoldOnly(Pointer, Node \cup {Zero})
  BY <1>3, Cells, NoUndoFacts DEF HoldOnly
<1>6. HasRoom
  <2>1. 1 \in Node /\ RootCells = {RootCell} /\ RootCell \notin NodeCells(1)
    BY Objects, Cells, Fields
  <2>2. 1 \in FreeNodes BY <1>2, <2>1 DEF FreeNodes
  <2> QED BY <2>2 DEF HasRoom
<1>7. /\ init \in Seq(Keeper)
      /\ \E j \in DOMAIN init : RootCells \subseteq Assigns(init[j])
      /\ cls.medium = "tx" => \A L : LogsFirst(init, L)
  BY <1>1, <1>6, InitKeeps, InitLogs
<1> DEFINE p == init
<1> HIDE DEF p
<1>8. /\ prog[main] = p /\ \A t \in Thread : prog[t] = <<>>
      /\ prog = [a \in Actor |-> prog[a]]
  BY <1>1, <1>2, StoredsAssumption DEF p, main, CallInv, CallTypeOK
<1> QED BY <1>1, <1>2, <1>3, <1>4, <1>5, <1>7, <1>8, Starting DEF p

LEMMA BaseReopen ==
  ASSUME BaseInv, HasRoom, Reopen(init) PROVE BaseInv' /\ starts' # 0
<1> DEFINE p == init
<1>1. CallInv' BY ReopenCalls DEF BaseInv
<1>2. /\ phase \in {"down", "closed"} /\ phase' = "init"
      /\ starts' = starts + 1 /\ prog' = [prog EXCEPT ![main] = p]
      /\ UNCHANGED <<cls, th, mem, may, vol, live, intx, undo, fresh, dying>>
      /\ power' = "up"
  BY DEF Reopen, Open
<1>3. starts' # 0 BY <1>2 DEF BaseInv, CallInv, CallTypeOK
<1>4. /\ p \in Seq(Keeper)
      /\ \E j \in DOMAIN p : RootCells \subseteq Assigns(p[j])
      /\ cls.medium = "tx" => \A L : LogsFirst(p, L)
  BY InitKeeps, InitLogs DEF BaseInv
<1> HIDE DEF p
<1>5. /\ p \in Seq(Step) /\ FreesNothing(p)
      /\ StoresOnly(p, Pointer, Node \cup {Zero}) /\ StoresOnly(p, RootCells, Node)
  BY <1>4, KeeperIs
<1>6. /\ ProgramsTyped' /\ prog'[main] = p
      /\ \A b \in Actor \ {main} : prog'[b] = prog[b]
  BY <1>2, <1>5, StartsProgram DEF BaseInv, Actor
<1>7. MemoryTypeOK' BY <1>2 DEF BaseInv, MemoryTypeOK
<1>8. TxPrograms'
  BY <1>2, <1>4, <1>6, Zenon DEF BaseInv, TxPrograms, Logged
<1>9. PointersTyped'
  <2>1. HoldOnly(Pointer, Node \cup {Zero})'
    BY <1>2 DEF BaseInv, PointersTyped, HoldOnly
  <2>2. \A b \in Actor : StoresOnly(prog'[b], Pointer, Node \cup {Zero})
    BY <1>5, <1>6, Zenon DEF BaseInv, PointersTyped
  <2> QED BY <2>1, <2>2, Zenon DEF PointersTyped
<1>10. \A b \in Actor \ {main} : prog'[b] = <<>>
  <2>1. CallInv /\ Quiet BY <1>2 DEF BaseInv, CallInv, CallsServed
  <2>2. \A t \in Thread : prog[t] = <<>> BY <2>1, QuietPrograms
  <2> QED BY <1>6, <2>2 DEF Actor
<1>11. HeadMade'
  <2>1. \A b \in Actor : StoresOnly(prog'[b], RootCells, Node)
    BY <1>5, <1>6, <1>10, NoProgram, Zenon
  <2> QED BY <1>2, <1>4, <1>6, <2>1 DEF HeadMade
<1>12. NothingFreed'
  <2>1. dying' = {} BY <1>2 DEF BaseInv, NothingFreed
  <2>2. \A b \in Actor : FreesNothing(prog'[b])
    BY <1>5, <1>6, <1>10, NoProgram, Zenon
  <2> QED BY <2>1, <2>2 DEF NothingFreed
<1> QED BY <1>1, <1>3, <1>6, <1>7, <1>8, <1>9, <1>11, <1>12 DEF BaseInv

\* The calls of a client, and what it does outside its operations.
LEMMA BaseCalls ==
  ASSUME BaseInv, NEW t \in Thread,
         \/ \E k \in Key : \/ CallRead(t, k) \/ CallScan(t, k)
                           \/ \E n \in Version : CallWrite(t, k, n)
         \/ CopyOut(t) \/ Return(t)
  PROVE  /\ BaseInv' /\ UNCHANGED <<pvars, cls, phase, prog, expect, starts>>
         /\ th[t].pc # "in" /\ th'[t].pc # "in"
         /\ \A u \in Thread \ {t} : th'[u] = th[u]
<1>1. CASE \E k \in Key : \/ CallRead(t, k) \/ CallScan(t, k)
                          \/ \E n \in Version : CallWrite(t, k, n)
  <2>1. PICK k \in Key, op \in {"insert", "update", "read", "scan"}, v \in Val \cup {0} :
          StartCall(t, op, k, v) /\ (op \in {"insert", "update"} => v \in Val)
    BY <1>1 DEF CallRead, CallScan, CallWrite, Call, Val
  <2>2. CallInv' BY <2>1, StartCallCalls DEF BaseInv
  <2>3. /\ th[t].pc = "idle" /\ th'[t].pc = "want"
        /\ \A u \in Thread \ {t} : th'[u] = th[u]
        /\ UNCHANGED <<pvars, cls, phase, prog, expect, starts>>
    BY <2>1 DEF StartCall, Idle, BaseInv, CallInv, CallTypeOK
  <2> QED BY <2>2, <2>3, BaseSame
<1>2. CASE CopyOut(t)
  <2>1. CallInv' BY <1>2, CopyOutCalls DEF BaseInv, MemoryTypeOK
  <2>2. /\ th[t].pc = "copy" /\ th'[t].pc = "got"
        /\ \A u \in Thread \ {t} : th'[u] = th[u]
        /\ UNCHANGED <<pvars, cls, phase, prog, expect, starts>>
    BY <1>2 DEF CopyOut, BaseInv, CallInv, CallTypeOK, CallState
  <2> QED BY <2>1, <2>2, BaseSame
<1>3. CASE Return(t)
  <2>1. CallInv' BY <1>3, ReturnCalls DEF BaseInv
  <2>2. /\ th[t].pc = "got" /\ th'[t].pc = "idle"
        /\ \A u \in Thread \ {t} : th'[u] = th[u]
        /\ UNCHANGED <<pvars, cls, phase, prog, expect, starts>>
    BY <1>3 DEF Return, Idle, BaseInv, CallInv, CallTypeOK
  <2> QED BY <2>1, <2>2, BaseSame
<1> QED BY <1>1, <1>2, <1>3

LEMMA BaseUnchanged ==
  ASSUME BaseInv, UNCHANGED vars PROVE BaseInv'
<1>1. CallInv' BY SettlingCalls DEF BaseInv
<1>2. UNCHANGED <<pvars, cls, phase, prog>> BY DEF vars, svars
<1> QED BY <1>1, <1>2, BaseSame

\* Whoever takes the lock finds nobody updating.
LEMMA EnterFinds ==
  ASSUME BaseInv, NEW t \in Thread, th[t].pc = "want",
         Available(Mode(th[t].op), t)
  PROVE  /\ phase = "serve" /\ th[t].key \in Key /\ prog[t] = <<>>
         /\ \A u \in Thread : ~Updating(u)
         /\ CallInv /\ MemoryTypeOK /\ Leads
<1>1. phase = "serve" /\ th[t].key \in Key /\ prog[t] = <<>>
  BY DEF BaseInv, CallInv, CallsServed, Quiet, Asked, ProgramsOwned, Updating
<1>2. \A u \in Thread : ~Updating(u) BY LockExcludes DEF BaseInv, Updating
<1> QED BY <1>1, <1>2, BaseLeads DEF BaseInv

\* A lookup changes nothing but the state of its call.
LEMMA BaseLooks ==
  ASSUME BaseInv, NEW t \in Thread, Read(t) \/ Scan(t)
  PROVE  /\ BaseInv' /\ UNCHANGED <<pvars, cls, phase, prog, expect, starts>>
         /\ \A u \in Thread : ~Updating(u) /\ ~Updating(u)'
<1>1. CASE Read(t)
  <2> DEFINE k == th[t].key
             ptr == IF Hit(k) THEN <<PossibleFound(k), "value">> ELSE None
  <2>1. /\ th[t].op = "read" /\ Enter(t, <<>>, ptr)
        /\ th[t].pc = "want" /\ Available(Mode(th[t].op), t)
    BY <1>1 DEF Read, Enter
  <2>2. /\ phase = "serve" /\ k \in Key /\ prog[t] = <<>>
        /\ \A u \in Thread : ~Updating(u)
        /\ CallInv /\ Leads
    BY <2>1, EnterFinds
  <2>3. ptr \in Cell \cup {None}
    <3>1. Hit(k) => PossibleFound(k) \in Node
      BY <2>2, PathTyped DEF Hit
    <3> HIDE DEF k
    <3> QED BY <3>1, Cells
  <2> HIDE DEF ptr, k
  <2>4. CallInv' BY <2>1, <2>2, <2>3, EnterCalls
  <2>5. ~Writes(th[t].op, th[t].key) BY <2>1 DEF Writes
  <2>6. /\ UNCHANGED <<pvars, cls, phase, expect, starts>>
        /\ prog' = [prog EXCEPT ![t] = <<>>]
        /\ th' = [s \in Thread |->
                    IF s = t THEN [th[t] EXCEPT !.pc = "in", !.ptr = ptr]
                    ELSE th[s]]
    BY <2>1, <2>5 DEF Enter
  <2>7. prog' = prog BY <2>2, <2>6 DEF CallInv, CallTypeOK
  <2>8. \A u \in Thread : ~Updating(u)'
    BY <2>1, <2>2, <2>6 DEF Updating, CallInv, CallTypeOK, CallState
  <2> QED BY <2>2, <2>4, <2>6, <2>7, <2>8, BaseSame
<1>2. CASE Scan(t)
  <2>1. PICK len \in ScanLen :
          th[t].op = "scan" /\ EnterScan(t, Scanned(th[t].key, len))
    BY <1>2 DEF Scan
  <2> DEFINE values == Scanned(th[t].key, len)
  <2>2. /\ th[t].op = "scan" /\ EnterScan(t, values)
        /\ th[t].pc = "want" /\ Available(Mode(th[t].op), t)
    BY <2>1 DEF EnterScan
  <2>3. /\ phase = "serve" /\ prog[t] = <<>>
        /\ \A u \in Thread : ~Updating(u)
        /\ CallInv /\ MemoryTypeOK /\ Leads
    BY <2>2, EnterFinds
  <2>4. values \in SUBSET Value BY <2>3, ScannedTyped
  <2> HIDE DEF values
  <2>5. CallInv' BY <2>2, <2>3, <2>4, EnterScanCalls
  <2>6. /\ UNCHANGED <<pvars, cls, phase, prog, expect, starts>>
        /\ th' = [th EXCEPT ![t] = [th[t] EXCEPT !.pc = "in", !.seen = values]]
    BY <2>2 DEF EnterScan
  <2>7. \A u \in Thread : ~Updating(u)'
    BY <2>2, <2>3, <2>6 DEF Updating, CallInv, CallTypeOK, CallState
  <2> QED BY <2>3, <2>5, <2>6, <2>7, BaseSame
<1> QED BY <1>1, <1>2

\* An insert or update is given its program.
LEMMA BaseWrites ==
  ASSUME BaseInv, NEW t \in Thread, Write(t)
  PROVE  \E h \in 1..SKIPLIST_LEVELS_NUM :
           LET k == th[t].key  v == th[t].val  p == insert(k, v, h) IN
           /\ BaseInv' /\ phase = "serve" /\ k \in Key /\ v \in Val
           /\ ~Hit(k) => HasRoom
           /\ th[t].pc = "want" /\ Writes(th[t].op, k) /\ Enter(t, p, None)
           /\ \A u \in Thread : ~Updating(u)
           /\ UNCHANGED <<pvars, cls, phase, starts>>
           /\ prog' = [prog EXCEPT ![t] = p]
           /\ expect' = [expect EXCEPT ![k] = @ \cup {v}]
           /\ \A u \in Thread : Updating(u)' <=> u = t
           /\ th'[t].key = k /\ th'[t].val = v
           /\ prog'[t] = p /\ p \in Seq(Keeper)
<1> DEFINE k == th[t].key  v == th[t].val
<1>1. PICK h \in 1..SKIPLIST_LEVELS_NUM : Enter(t, insert(k, v, h), None)
  BY DEF Write
<1> DEFINE p == insert(k, v, h)
<1>2. /\ th[t].op \in {"insert", "update"} /\ Enter(t, p, None)
      /\ th[t].pc = "want" /\ Available(Mode(th[t].op), t)
      /\ ~Hit(k) => HasRoom
  BY <1>1 DEF Write, Enter
<1>3. /\ phase = "serve" /\ k \in Key /\ prog[t] = <<>>
      /\ \A u \in Thread : ~Updating(u)
      /\ CallInv /\ Leads
  BY <1>2, EnterFinds
<1>4. v \in Val BY <1>2 DEF BaseInv, CallInv, Asked
<1>5. Writes(th[t].op, k) BY <1>2, Media DEF Writes, BaseInv
<1>6. p \in Seq(Keeper) /\ (cls.medium = "tx" => \A L : LogsFirst(p, L))
  <2> HIDE DEF k, v
  <2> QED BY <1>2, <1>3, <1>4, InsertKeeps, InsertLogs DEF p
<1> HIDE DEF p
<1>7. /\ UNCHANGED <<pvars, cls, phase, starts>>
      /\ prog' = [prog EXCEPT ![t] = p]
      /\ expect' = [expect EXCEPT ![k] = @ \cup {v}]
      /\ th' = [s \in Thread |->
                 IF s = t THEN [th[t] EXCEPT !.pc = "in", !.ptr = None]
                 ELSE IF th[s].op = "read" /\ th[s].key = k
                      THEN [th[s] EXCEPT !.legal = @ \cup {v}]
                      ELSE th[s]]
  BY <1>2, <1>5 DEF Enter
<1>8. CallInv' BY <1>2, EnterCalls DEF BaseInv
<1>9. /\ th'[t].pc = "in" /\ th'[t].op = th[t].op /\ th'[t].key = k
      /\ th'[t].val = v
      /\ \A s \in Thread \ {t} : th'[s].pc = th[s].pc /\ th'[s].op = th[s].op
  BY <1>7 DEF BaseInv, CallInv, CallTypeOK, CallState
<1>10. \A u \in Thread : Updating(u)' <=> u = t
  BY <1>2, <1>3, <1>9 DEF Updating
<1>11. p \in Seq(Wiper)
  <2>1. Keeper \subseteq Wiper BY Steps
  <2> QED BY <1>6, <2>1
<1>12. t \in Actor BY DEF Actor
<1>13. BaseInv' BY <1>3, <1>6, <1>7, <1>8, <1>11, <1>12, BaseBegins
<1>14. prog'[t] = p BY <1>7, <1>12 DEF BaseInv, ProgramsTyped
<1> HIDE DEF k, v
<1>15. WITNESS h \in 1..SKIPLIST_LEVELS_NUM
<1> QED BY <1>2, <1>3, <1>4, <1>5, <1>6, <1>7, <1>9, <1>10, <1>13, <1>14
        DEF k, v, p

\* The unlock at the end of an operation.
LEMMA BaseLeaves ==
  ASSUME BaseInv, NEW t \in Thread, Leave(t)
  PROVE  /\ BaseInv' /\ th[t].pc = "in" /\ prog[t] = <<>> /\ phase = "serve"
         /\ expect' = IF Writes(th[t].op, th[t].key)
                      THEN [expect EXCEPT ![th[t].key] = {th[t].val}] ELSE expect
         /\ UNCHANGED <<pvars, cls, phase, prog, starts>>
         /\ th'[t].pc # "in" /\ \A u \in Thread \ {t} : th'[u] = th[u]
<1>1. CallInv' BY LeaveCalls DEF BaseInv
<1>2. /\ th[t].pc = "in" /\ prog[t] = <<>>
      /\ expect' = IF Writes(th[t].op, th[t].key)
                   THEN [expect EXCEPT ![th[t].key] = {th[t].val}] ELSE expect
      /\ UNCHANGED <<pvars, cls, phase, prog, starts>>
      /\ th'[t].pc # "in" /\ \A u \in Thread \ {t} : th'[u] = th[u]
  BY DEF Leave, Idle, BaseInv, CallInv, CallTypeOK, CallState
<1>3. phase = "serve" BY <1>2 DEF BaseInv, CallInv, CallsServed, Quiet
<1> QED BY <1>1, <1>2, <1>3, BaseSame

\* init has returned.
LEMMA BaseInitDone ==
  ASSUME BaseInv, InitDone([k \in Key |-> Find(k)])
  PROVE  /\ BaseInv' /\ phase = "init" /\ prog[main] = <<>> /\ phase' = "serve"
         /\ expect' = [k \in Key |-> {Find(k)}]
         /\ UNCHANGED <<pvars, cls, th, prog, starts>>
         /\ MemoryTypeOK /\ Leads
<1> DEFINE found == [k \in Key |-> Find(k)]
<1>1. /\ phase = "init" /\ prog[main] = <<>> /\ phase' = "serve"
      /\ expect' = [k \in Key |-> {found[k]}]
      /\ UNCHANGED <<pvars, cls, th, prog, starts>>
  BY DEF InitDone
<1>2. HeadNode \in Node BY <1>1, NoProgram DEF BaseInv, HeadMade
<1>3. MemoryTypeOK /\ Leads BY <1>2, LeadsIs DEF BaseInv, PointersTyped
<1>4. found \in [Key -> Value \cup {Absent}]
  <2>1. ASSUME NEW k \in Key PROVE Find(k) \in Value \cup {Absent}
    <3>1. CASE Hit(k)
      <4>1. PossibleFound(k) \in Node BY <1>3, <3>1, PathTyped DEF Hit
      <4>2. <<PossibleFound(k), "value">> \in Cell BY <4>1, Cells
      <4>3. mem[<<PossibleFound(k), "value">>] \in Value
        BY <1>3, <4>2 DEF MemoryTypeOK
      <4> QED BY <4>3 DEF Find
    <3>2. CASE ~Hit(k) BY <3>2 DEF Find
    <3> QED BY <3>1, <3>2
  <2> QED BY <2>1
<1>5. CallInv'
  <2>1. InitDone(found) OBVIOUS
  <2> HIDE DEF found
  <2> QED BY <1>4, <2>1, InitDoneCalls DEF BaseInv
<1>6. BaseInv' BY <1>1, <1>5, BaseSame
<1> QED BY <1>1, <1>3, <1>6

\* The threads are joined, and main frees what it finds.
LEMMA BaseDestroys ==
  ASSUME BaseInv, Destroy(destroy) PROVE BaseInv' /\ phase' = "destroy"
<1>1. CallInv' BY DestroyCalls DEF BaseInv
<1>2. /\ phase = "serve" /\ phase' = "destroy"
      /\ prog' = [prog EXCEPT ![main] = destroy]
      /\ UNCHANGED <<pvars, cls>>
  BY DEF Destroy
<1>3. Leads BY <1>2, BaseLeads
<1>4. /\ destroy \in Seq(Wiper)
      /\ cls.medium = "tx" => \A L : LogsFirst(destroy, L)
  BY <1>3, DestroyWipes, DestroyLogs DEF BaseInv
<1>5. main \in Actor BY DEF Actor
<1> QED BY <1>1, <1>2, <1>4, <1>5, BaseBegins

LEMMA StepBase == BaseInv /\ [Next]_vars => BaseInv'
<1> SUFFICES ASSUME BaseInv, [Next]_vars PROVE BaseInv' OBVIOUS
<1>1. ASSUME NEW t \in Thread, NEW k \in Key,
             \/ CallRead(t, k) \/ CallScan(t, k)
             \/ \E n \in Version : CallWrite(t, k, n)
      PROVE  BaseInv'
  BY <1>1, BaseCalls
<1>2. ASSUME NEW t \in Thread, ThreadStep(t) PROVE BaseInv'
  <2>1. t \in Actor BY DEF Actor
  <2>2. CASE Write(t) BY <2>2, BaseWrites
  <2>3. CASE Read(t) \/ Scan(t) BY <2>3, BaseLooks
  <2>4. CASE Exec(t) BY <2>1, <2>4, BaseExec
  <2>5. CASE Leave(t) BY <2>5, BaseLeaves
  <2>6. CASE CopyOut(t) \/ Return(t) BY <2>6, BaseCalls
  <2>7. CASE MissDies(t) BY <2>7, BaseGone
  <2> QED BY <1>2, <2>2, <2>3, <2>4, <2>5, <2>6, <2>7, Zenon
          DEF ThreadStep, ClientStep
<1>3. CASE MainStep
  <2>1. main \in Actor BY DEF Actor
  <2>2. CASE Exec(main) BY <2>1, <2>2, BaseExec
  <2>3. CASE InitDone([k \in Key |-> Find(k)]) BY <2>3, BaseInitDone
  <2>4. CASE Close BY <2>4, BaseGone
  <2> QED BY <1>3, <2>2, <2>3, <2>4, Zenon DEF MainStep
<1>4. CASE Destroy(destroy) BY <1>4, BaseDestroys
<1>5. CASE Crash BY <1>5, BaseGone
<1>6. CASE Settling BY <1>6, BaseSettling
<1>7. CASE HasRoom /\ Reopen(init) BY <1>7, BaseReopen
<1>8. CASE Finished BY <1>8, BaseUnchanged DEF Finished
<1>9. CASE UNCHANGED vars BY <1>9, BaseUnchanged
<1> QED BY <1>1, <1>2, <1>3, <1>4, <1>5, <1>6, <1>7, <1>8, <1>9, Zenon DEF Next

-----------------------------------------------------------------------------
(***************************************************************************)
(* What the program of insert leaves in the memory.                        *)
(***************************************************************************)
\* The key has a node: its value is overwritten.
LEMMA HitDoes ==
  ASSUME CallInv, NEW k \in Key, NEW v \in Val, NEW h, Hit(k),
         PossibleFound(k) \in Node
  PROVE  Does(insert(k, v, h), mem, Put(mem, <<PossibleFound(k), "value">>, v), {})
<1> DEFINE p == PossibleFound(k)  c == <<p, "value">>  F == Put(mem, c, v)
           w == Cp(c, v)  f == <<Fl(NodeCells(p))>>  a == <<Bg, Sn(EntryOf(p))>>
           z == <<Cm>>
<1>1. /\ c \in Cell /\ v \in Value /\ Torn \in Value
      /\ NodeCells(p) \in SUBSET Cell /\ EntryOf(p) \in SUBSET Cell
  BY Cells, Contents
<1>2. Does(w, mem, F, {}) BY <1>1, CopyDoes
<1>3. Does(a, mem, mem, {}) /\ Does(z, F, F, {}) /\ Does(f, F, F, {})
  BY <1>1, Beginning
<1>4. /\ Volatile(cls) => insert(k, v, h) = w
      /\ cls.medium = "pmem" => insert(k, v, h) = w \o f
      /\ cls.medium = "tx" => insert(k, v, h) = a \o w \o z
  BY Media DEF insert, skiplist_dram_insert, skiplist_pmem_insert,
               skiplist_pmem_tx_insert
<1> HIDE DEF p, c, F, w, f, a, z
<1>5. Does(w \o f, mem, F, {})
  <2>1. Does(w \o f, mem, F, {} \cup {}) BY <1>2, <1>3, DoesConcat
  <2> QED BY <2>1
<1>6. Does(a \o w \o z, mem, F, {})
  <2>1. Does(a \o w \o z, mem, F, {} \cup {} \cup {})
    BY <1>2, <1>3, DoesConcat
  <2> QED BY <2>1
<1> QED BY <1>2, <1>4, <1>5, <1>6, Media DEF F, c, p

\* The memory with the node e for k and v, on the levels below n behind path.
Grown(e, k, v, path, n) ==
  [d \in Cell |->
     IF d = <<e, "key">> THEN k
     ELSE IF d = <<e, "value">> THEN v
     ELSE IF \E l \in Level : l < n /\ d = NextCell(e, l)
          THEN mem[NextCell(path[d[3]], d[3])]
     ELSE IF \E l \in Level : l < n /\ d = NextCell(path[l], l) THEN e
     ELSE mem[d]]

\* What is in its cells.
Grows(F, e, k, v, path, n) ==
  /\ F[<<e, "key">>] = k /\ F[<<e, "value">>] = v
  /\ \A l \in Level : l < n =>
       /\ F[NextCell(e, l)] = mem[NextCell(path[l], l)]
       /\ F[NextCell(path[l], l)] = e
  /\ \A d \in Cell :
       \/ d = <<e, "key">> \/ d = <<e, "value">>
       \/ \E l \in Level : l < n /\ (d = NextCell(e, l) \/ d = NextCell(path[l], l))
       \/ F[d] = mem[d]

LEMMA GrownIs ==
  ASSUME NEW e \in Node, NEW k, NEW v, NEW path,
         \A l \in Level : path[l] \in Node /\ path[l] # e, NEW n \in Nat
  PROVE  Grows(Grown(e, k, v, path, n), e, k, v, path, n)
<1> DEFINE F == Grown(e, k, v, path, n)
<1>1. <<e, "key">> \in Cell /\ <<e, "value">> \in Cell
      /\ <<e, "key">> # <<e, "value">>
      /\ \A l \in Level : /\ NextCell(e, l) \in Cell
                          /\ NextCell(path[l], l) \in Cell
  BY Cells
<1>2. F[<<e, "key">>] = k /\ F[<<e, "value">>] = v BY <1>1 DEF Grown
<1>3. ASSUME NEW l \in Level, l < n
      PROVE  /\ F[NextCell(e, l)] = mem[NextCell(path[l], l)]
             /\ F[NextCell(path[l], l)] = e
  <2>1. /\ \A q : NextCell(q, l) # <<e, "key">> /\ NextCell(q, l) # <<e, "value">>
        /\ \A m \in Level : NextCell(path[l], l) # NextCell(e, m)
    BY Fields
  <2>2. NextCell(e, l)[3] = l BY DEF NextCell
  <2>3. F[NextCell(e, l)] = mem[NextCell(path[l], l)]
    BY <1>1, <1>3, <2>1, <2>2 DEF Grown
  <2>4. F[NextCell(path[l], l)] = e BY <1>1, <1>3, <2>1 DEF Grown
  <2> QED BY <2>3, <2>4
<1>4. ASSUME NEW d \in Cell, d # <<e, "key">>, d # <<e, "value">>,
             ~\E l \in Level : l < n /\ (d = NextCell(e, l) \/ d = NextCell(path[l], l))
      PROVE  F[d] = mem[d]
  BY <1>4 DEF Grown
<1> HIDE DEF F
<1>5. Grows(F, e, k, v, path, n) BY <1>2, <1>3, <1>4 DEF Grows
<1> QED BY <1>5 DEF F

\* The steps that link the node on one more level.
LEMMA LinkAtDoes ==
  ASSUME CallInv, MemoryTypeOK, NEW e \in Node, NEW k, NEW v, NEW path,
         \A l \in Level : path[l] \in Node /\ path[l] # e, NEW n \in Level
  PROVE  Does(LinkAt(e, path[n], n), Grown(e, k, v, path, n),
              Grown(e, k, v, path, n + 1), {})
<1> DEFINE F == Grown(e, k, v, path, n)  G == Grown(e, k, v, path, n + 1)
           p == path[n]  c == NextCell(e, n)  d == NextCell(p, n)
           x == mem[d]  a == St(c, x)  b == St(d, e)  B == Behind(p, n)
<1>1. /\ p \in Node /\ p # e /\ c \in Cell /\ d \in Cell /\ c # d
      /\ B \in SUBSET Cell
  <2>1. p \in Node /\ p # e OBVIOUS
  <2>2. B \subseteq NodeCells(p) /\ NodeCells(p) \subseteq Cell
    BY <2>1, Cells
  <2> QED BY <2>1, <2>2, Cells, Fields
<1>2. x \in Value /\ e \in Value BY <1>1, Contents DEF MemoryTypeOK
<1>3. a \in Step /\ b \in Step BY <1>1, <1>2, StepKinds
<1>4. Releases(a) = {} /\ Releases(b) = {} BY DEF Releases, St
<1>5. Allocates(a) = {} /\ Allocates(b) = {} BY StepLogs
<1>6. n \in Nat /\ n + 1 \in Nat BY Objects
<1>7. \A g \in Cell : G[g] = After(b, g, After(a, g, F[g]))
  <2> TAKE g \in Cell
  <2>1. \A y : After(a, g, y) = IF g = c THEN x ELSE y
    BY StepAssigns DEF After
  <2>2. \A y : After(b, g, y) = IF g = d THEN e ELSE y
    BY StepAssigns DEF After
  <2>3. \A l \in Level : l < n + 1 <=> l < n \/ l = n BY <1>6, Objects
  <2>4. G[g] = IF g = <<e, "key">> THEN k
          ELSE IF g = <<e, "value">> THEN v
          ELSE IF \E l \in Level : l < n + 1 /\ g = NextCell(e, l)
               THEN mem[NextCell(path[g[3]], g[3])]
          ELSE IF \E l \in Level : l < n + 1 /\ g = NextCell(path[l], l) THEN e
          ELSE mem[g]
    BY DEF Grown
  <2>5. F[g] = IF g = <<e, "key">> THEN k
          ELSE IF g = <<e, "value">> THEN v
          ELSE IF \E l \in Level : l < n /\ g = NextCell(e, l)
               THEN mem[NextCell(path[g[3]], g[3])]
          ELSE IF \E l \in Level : l < n /\ g = NextCell(path[l], l) THEN e
          ELSE mem[g]
    BY DEF Grown
  <2>6. /\ c # <<e, "key">> /\ c # <<e, "value">> /\ d # <<e, "key">>
        /\ d # <<e, "value">> /\ \A l \in Level : d # NextCell(e, l)
    BY <1>1, Fields
  <2>7. c[3] = n BY DEF NextCell
  <2>8. CASE g = d
    <3>1. G[g] = e BY <2>3, <2>4, <2>6, <2>8
    <3> QED BY <2>2, <2>8, <3>1
  <2>9. CASE g = c
    <3>1. \E l \in Level : l < n + 1 /\ g = NextCell(e, l) BY <2>3, <2>9
    <3>2. G[g] = mem[NextCell(path[n], n)] BY <2>4, <2>6, <2>7, <2>9, <3>1
    <3> HIDE DEF c, d, G, F
    <3> QED BY <1>1, <2>1, <2>2, <2>9, <3>2 DEF x, d
  <2>10. CASE g # c /\ g # d
    <3>1. /\ (\E l \in Level : l < n + 1 /\ g = NextCell(e, l))
               <=> \E l \in Level : l < n /\ g = NextCell(e, l)
          /\ (\E l \in Level : l < n + 1 /\ g = NextCell(path[l], l))
               <=> \E l \in Level : l < n /\ g = NextCell(path[l], l)
      BY <2>3, <2>10
    <3>2. G[g] = F[g] BY <2>4, <2>5, <3>1
    <3> HIDE DEF c, d, G, F
    <3> QED BY <2>1, <2>2, <2>10, <3>2
  <2> QED BY <2>8, <2>9, <2>10
<1>8. LinkAt(e, p, n) = Snapshot(B) \o <<a, b>> \o Persisted(B)
  BY DEF LinkAt, NextOf
<1> HIDE DEF F, G, a, b, B, c, d, x, p
<1>9. Does(<<a, b>>, F, G, {})
  <2>1. Does(<<a, b>>, F, G, Allocates(a) \cup Allocates(b))
    BY <1>3, <1>4, <1>7, DoesTwo
  <2> QED BY <1>5, <2>1
<1>10. \A m : Does(Snapshot(B), m, m, {}) /\ Does(Persisted(B), m, m, {})
  <2> TAKE m
  <2>1. Does(<<Sn(B)>>, m, m, {}) /\ Does(<<Fl(B)>>, m, m, {})
    BY <1>1, Beginning
  <2>2. Does(<<>>, m, m, {})
    <3>1. Yields(<<>>, m, m) BY YieldsNothing
    <3> QED BY <3>1, NoProgram DEF Does
  <2> QED BY <2>1, <2>2 DEF Snapshot, Persisted
<1>11. Does(Snapshot(B) \o <<a, b>> \o Persisted(B), F, G, {} \cup {} \cup {})
  BY <1>9, <1>10, DoesConcat
<1> QED BY <1>8, <1>11 DEF F, G, p

\* The key has no node: a new one is linked on h levels.
LEMMA MissDoes ==
  ASSUME CallInv, MemoryTypeOK, NEW k \in Key, NEW v \in Val,
         NEW h \in 1..SKIPLIST_LEVELS_NUM, ~Hit(k), HasRoom,
         \A l \in Level : find(k)[l] \in Node /\ find(k)[l] # NewNode
  PROVE  Does(insert(k, v, h), mem, Grown(NewNode, k, v, find(k), h),
              NodeCells(NewNode))
<1> DEFINE e == NewNode  path == find(k)  N == NodeCells(e)
           F(n) == Grown(e, k, v, path, n)
           s == St(<<e, "key">>, k)  w == NewEntry(e, k, v)
           b == Link(e, path, h)
           A == <<Al(N)>>  T == <<Bg, TAl(N)>>  z == <<Cm>>
<1>1. e \in Node BY RoomIs
<1>2. /\ N \in SUBSET Cell /\ <<e, "key">> \in Cell /\ <<e, "value">> \in Cell
      /\ k \in Value /\ v \in Value /\ <<e, "key">> # <<e, "value">>
      /\ Torn \in Value
  BY <1>1, Cells, Contents
<1>3. Does(w, mem, F(0), {})
  <2> DEFINE G == Put(mem, <<e, "key">>, k)
  <2>1. s \in Step BY <1>2, StepKinds
  <2>2. Releases(s) = {} BY DEF Releases, St
  <2>3. \A c \in Cell : G[c] = After(s, c, mem[c])
    BY StepAssigns DEF Put, After
  <2>4. Does(<<s>>, mem, G, Allocates(s)) BY <2>1, <2>2, <2>3, DoesOne
  <2>5. Allocates(s) = {} BY StepLogs
  <2>6. Does(Cp(<<e, "value">>, v), G, Put(G, <<e, "value">>, v), {})
    BY <1>2, CopyDoes
  <2>7. Put(G, <<e, "value">>, v) = F(0)
    <3>1. \A c \in Cell : Put(G, <<e, "value">>, v)[c] = F(0)[c]
      <4>1. \A l \in Level : ~(l < 0) BY Objects
      <4> QED BY <1>2, <4>1 DEF Put, Grown
    <3>2. /\ Put(G, <<e, "value">>, v)
               = [c \in Cell |-> Put(G, <<e, "value">>, v)[c]]
          /\ F(0) = [c \in Cell |-> F(0)[c]]
      BY DEF Put, Grown
    <3> HIDE DEF F, G
    <3> QED BY <3>1, <3>2
  <2>8. Does(<<s>> \o Cp(<<e, "value">>, v), mem, F(0), {} \cup {})
    <3> HIDE DEF s, F, G
    <3> QED BY <2>4, <2>5, <2>6, <2>7, DoesConcat
  <2> QED BY <2>8 DEF NewEntry
<1>4. Does(b, F(0), F(h), {})
  <2> DEFINE M == [n \in 0..h |-> F(n)]
             ss == [i \in 1..h |-> LinkAt(e, path[i - 1], i - 1)]
  <2>1. h \in Nat \ {0} /\ 0 \in 0..h /\ h \in 0..h
        /\ \A i \in 1..h : /\ i - 1 \in Level /\ i - 1 \in 0..h /\ i \in 0..h
                           /\ (i - 1) + 1 = i
    BY Objects, SkipAssumption
  <2>2. ASSUME NEW i \in 1..h
        PROVE  Does(ss[i], M[i - 1], M[i], {})
    <3>1. \A n \in Level : Does(LinkAt(e, path[n], n), F(n), F(n + 1), {})
      BY <1>1, LinkAtDoes
    <3>2. Does(LinkAt(e, path[i - 1], i - 1), F(i - 1), F((i - 1) + 1), {})
      BY <2>1, <3>1
    <3>3. M[i - 1] = F(i - 1) /\ M[i] = F(i) BY <2>1
    <3>4. ss[i] = LinkAt(e, path[i - 1], i - 1) OBVIOUS
    <3> HIDE DEF M, F, ss
    <3> QED BY <2>1, <3>2, <3>3, <3>4
  <2>3. ss = [i \in 1..h |-> ss[i]] OBVIOUS
  <2>4. b = FlattenSeq(ss) BY DEF Link
  <2>5. M[0] = F(0) /\ M[h] = F(h) BY <2>1
  <2> HIDE DEF M, ss, b, F
  <2>6. Does(FlattenSeq(ss), M[0], M[h], {})
    BY <2>1, <2>2, <2>3, FlattenDoes
  <2> QED BY <2>4, <2>5, <2>6
<1>5. Does(A, mem, mem, N) /\ Does(T, mem, mem, N) /\ Does(z, F(h), F(h), {})
  BY <1>2, Beginning
<1>6. /\ Volatile(cls) => insert(k, v, h) = A \o w \o b
      /\ cls.medium = "pmem" => insert(k, v, h) = A \o w \o b
      /\ cls.medium = "tx" => insert(k, v, h) = T \o w \o b \o z
  BY Media DEF insert, skiplist_dram_insert, skiplist_pmem_insert,
               skiplist_pmem_tx_insert
<1> HIDE DEF F, w, b, A, T, z, N
<1>7. Does(A \o w \o b, mem, F(h), N \cup {} \cup {})
  BY <1>3, <1>4, <1>5, DoesConcat
<1>8. Does(T \o w \o b \o z, mem, F(h), N \cup {} \cup {} \cup {})
  BY <1>3, <1>4, <1>5, DoesConcat
<1>9. N \cup {} \cup {} = N /\ N \cup {} \cup {} \cup {} = N OBVIOUS
<1>10. Does(insert(k, v, h), mem, F(h), N)
  BY <1>6, <1>7, <1>8, <1>9, Media
<1> QED BY <1>10 DEF F, N
-----------------------------------------------------------------------------
(***************************************************************************)
(* An insert or update leaves a list that shows what it wrote.             *)
(***************************************************************************)
\* The list with another value in one node.
LEMMA Overwritten ==
  ASSUME NEW ns, Listed(ns), NEW want, DOMAIN want = Key, Wanted(mem, ns, want),
         NEW k \in Key, NEW v, NEW p \in ns[0], KeyOf(p) = k,
         NEW A, KeptIn(mem, ns, A)
  PROVE  LET F == Put(mem, <<p, "value">>, v) IN
         /\ Linked(F, ns) /\ Keyed(F, ns) /\ KeptIn(F, ns, A)
         /\ Wanted(F, ns, [want EXCEPT ![k] = {v}])
<1> DEFINE F == Put(mem, <<p, "value">>, v)
<1>1. /\ p \in Node /\ HeadNode \in Node
      /\ \A l \in Level : ns[l] \subseteq Node /\ ns[l] \subseteq ns[0]
      /\ \A o \in ns[0] : o \in Node
  BY ListedIs, Objects
<1>2. /\ F[RootCell] = mem[RootCell]
      /\ \A o \in Node : F[<<o, "key">>] = mem[<<o, "key">>]
      /\ \A o \in Node, l \in Level : F[NextCell(o, l)] = mem[NextCell(o, l)]
      /\ \A o \in Node \ {p} : F[<<o, "value">>] = mem[<<o, "value">>]
      /\ F[<<p, "value">>] = v
  <2>1. /\ RootCell \in Cell /\ <<p, "value">> \in Cell
        /\ \A o \in Node : <<o, "key">> \in Cell /\ <<o, "value">> \in Cell
        /\ \A o \in Node, l \in Level : NextCell(o, l) \in Cell
    BY <1>1, Cells
  <2>2. /\ RootCell # <<p, "value">>
        /\ \A o : <<o, "key">> # <<p, "value">>
        /\ \A o, l : NextCell(o, l) # <<p, "value">>
        /\ \A o \in Node \ {p} : <<o, "value">> # <<p, "value">>
    BY Fields
  <2> QED BY <2>1, <2>2 DEF Put
<1> HIDE DEF F
<1>3. HeadOf(F) = HeadNode /\ HeadOf(mem) = HeadNode
  BY <1>2 DEF HeadOf, HeadNode, RootCell
<1>4. \A o \in Node : KeyIn(F, o) = KeyOf(o) /\ KeyIn(mem, o) = KeyOf(o)
  BY <1>2 DEF KeyIn, KeyOf
<1>5. \A o, q \in Node : Precedes(F, o, q) <=> Precedes(mem, o, q)
  BY <1>3, <1>4 DEF Precedes
<1>6. Linked(F, ns)
  <2> SUFFICES ASSUME NEW l \in Level, NEW o \in ns[l] \cup {HeadNode}
               PROVE  LET n == F[NextCell(o, l)] IN
                      /\ n = Zero => \A q \in ns[l] : ~Precedes(F, o, q)
                      /\ n # Zero =>
                           /\ n \in ns[l] /\ Precedes(F, o, n)
                           /\ \A q \in ns[l] : Precedes(F, o, q) =>
                                q = n \/ Precedes(F, n, q)
    BY <1>3 DEF Linked
  <2>1. LET n == mem[NextCell(o, l)] IN
        /\ n = Zero => \A q \in ns[l] : ~Precedes(mem, o, q)
        /\ n # Zero =>
             /\ n \in ns[l] /\ Precedes(mem, o, n)
             /\ \A q \in ns[l] : Precedes(mem, o, q) =>
                  q = n \/ Precedes(mem, n, q)
    BY <1>3 DEF Listed, Linked
  <2>2. o \in Node /\ \A q \in ns[l] : q \in Node BY <1>1
  <2>3. F[NextCell(o, l)] = mem[NextCell(o, l)] BY <1>2, <2>2
  <2> QED BY <1>5, <2>1, <2>2, <2>3
<1>7. Keyed(F, ns)
  <2>1. Keyed(mem, ns) BY DEF Listed
  <2> QED BY <1>1, <1>3, <1>4, <2>1 DEF Keyed
<1>8. KeptIn(F, ns, A) BY <1>3 DEF KeptIn
<1>9. Wanted(F, ns, [want EXCEPT ![k] = {v}])
  <2> SUFFICES ASSUME NEW j \in Key
               PROVE  LET W == IF j = k THEN {v} ELSE want[j] IN
                      /\ (\A o \in ns[0] : KeyIn(F, o) # j) => Absent \in W
                      /\ \A o \in ns[0] : KeyIn(F, o) = j => F[<<o, "value">>] \in W
    BY DEF Wanted
  <2>1. /\ (\A o \in ns[0] : KeyIn(mem, o) # j) => Absent \in want[j]
        /\ \A o \in ns[0] : KeyIn(mem, o) = j => mem[<<o, "value">>] \in want[j]
    BY DEF Wanted
  <2>2. CASE j = k
    <3>1. \A o \in ns[0] : KeyOf(o) = k => o = p BY ListedIs
    <3> QED BY <1>1, <1>2, <1>4, <2>2, <3>1
  <2>3. CASE j # k
    <3>1. \A o \in ns[0] : KeyOf(o) = j => o # p BY <2>3
    <3> QED BY <1>1, <1>2, <1>4, <2>1, <2>3, <3>1
  <2> QED BY <2>2, <2>3
<1> QED BY <1>6, <1>7, <1>8, <1>9 DEF F

\* The node for a key, and where it is linked.
Joining(ns, e, h) == [l \in Level |-> IF l < h THEN ns[l] \cup {e} ELSE ns[l]]

\* What is where in the memory F with the new node.
Joins(F, e, k, v, h) ==
  /\ \A l \in Level : find(k)[l] \in Node /\ find(k)[l] # e
  /\ HeadOf(F) = HeadNode /\ KeyIn(F, e) = k /\ F[<<e, "value">>] = v
  /\ \A o \in Node \ {e} : /\ KeyIn(F, o) = KeyOf(o)
                           /\ F[<<o, "value">>] = mem[<<o, "value">>]
  /\ \A l \in Level : l < h =>
       /\ F[NextCell(e, l)] = NextOf(find(k)[l], l)
       /\ F[NextCell(find(k)[l], l)] = e
  /\ \A l \in Level : \A o \in Node \ {e} :
       o # find(k)[l] \/ ~(l < h) => F[NextCell(o, l)] = NextOf(o, l)

LEMMA GrownAt ==
  ASSUME NEW ns, Listed(ns), NEW k \in Key, NEW v, NEW e \in Node,
         e \notin ns[0] \cup {HeadNode}, NEW h \in 1..SKIPLIST_LEVELS_NUM
  PROVE  Joins(Grown(e, k, v, find(k), h), e, k, v, h)
<1> DEFINE path == find(k)  F == Grown(e, k, v, path, h)
<1>1. \A l \in Level : path[l] \in Node /\ path[l] # e
  <2> TAKE l \in Level
  <2>1. path[l] \in ns[l] \cup {HeadNode} BY PathReaches DEF Reached
  <2>2. ns[l] \subseteq ns[0] /\ ns[l] \subseteq Node /\ HeadNode \in Node
    BY ListedIs
  <2> QED BY <2>1, <2>2
<1>2. h \in Nat BY SkipAssumption
<1>3. /\ F[<<e, "key">>] = k /\ F[<<e, "value">>] = v
      /\ \A l \in Level : l < h =>
           /\ F[NextCell(e, l)] = mem[NextCell(path[l], l)]
           /\ F[NextCell(path[l], l)] = e
      /\ \A d \in Cell :
           \/ d = <<e, "key">> \/ d = <<e, "value">>
           \/ \E l \in Level : l < h /\ (d = NextCell(e, l) \/ d = NextCell(path[l], l))
           \/ F[d] = mem[d]
  <2> HIDE DEF path
  <2>1. Grows(Grown(e, k, v, path, h), e, k, v, path, h)
    BY <1>1, <1>2, GrownIs
  <2> HIDE DEF F
  <2> QED BY <2>1 DEF Grows, F
<1> HIDE DEF F, path
<1>4. F[RootCell] = mem[RootCell]
  BY <1>3, Cells, Fields
<1>5. ASSUME NEW o \in Node \ {e}
      PROVE  F[<<o, "key">>] = mem[<<o, "key">>] /\ F[<<o, "value">>] = mem[<<o, "value">>]
  <2>1. <<o, "key">> \in Cell /\ <<o, "value">> \in Cell BY Cells
  <2>2. /\ <<o, "key">> # <<e, "key">> /\ <<o, "key">> # <<e, "value">>
        /\ <<o, "value">> # <<e, "key">> /\ <<o, "value">> # <<e, "value">>
        /\ \A q, l : NextCell(q, l) # <<o, "key">> /\ NextCell(q, l) # <<o, "value">>
    BY Fields
  <2> QED BY <1>3, <2>1, <2>2
<1>6. ASSUME NEW l \in Level, NEW o \in Node \ {e}, o # path[l] \/ ~(l < h)
      PROVE  F[NextCell(o, l)] = mem[NextCell(o, l)]
  <2>1. NextCell(o, l) \in Cell BY Cells
  <2>2. /\ NextCell(o, l) # <<e, "key">> /\ NextCell(o, l) # <<e, "value">>
        /\ \A q, m : NextCell(o, l) = NextCell(q, m) => o = q /\ l = m
    BY Fields
  <2> QED BY <1>3, <1>6, <2>1, <2>2
<1>7. HeadOf(F) = HeadNode BY <1>4 DEF HeadOf, HeadNode, RootCell
<1>8. /\ KeyIn(F, e) = k
      /\ \A o \in Node \ {e} : KeyIn(F, o) = KeyOf(o)
  BY <1>3, <1>5 DEF KeyIn, KeyOf
<1>9. Joins(F, e, k, v, h)
  BY <1>1, <1>3, <1>5, <1>6, <1>7, <1>8 DEF path, NextOf, Joins
<1> QED BY <1>9 DEF F, path

\* On a level on which the new node is linked each pointer leads to the next.
LEMMA JoinedLevel ==
  ASSUME NEW ns, Listed(ns), NEW k \in Key, ~Hit(k), NEW e \in Node,
         e \notin ns[0] \cup {HeadNode}, NEW l \in Level, NEW F,
         HeadOf(F) = HeadNode, KeyIn(F, e) = k,
         \A o \in Node \ {e} : KeyIn(F, o) = KeyOf(o),
         F[NextCell(e, l)] = NextOf(find(k)[l], l),
         F[NextCell(find(k)[l], l)] = e,
         \A o \in Node \ {e} :
           o # find(k)[l] => F[NextCell(o, l)] = NextOf(o, l),
         NEW o \in ns[l] \cup {e, HeadNode}
  PROVE  LET p == F[NextCell(o, l)] IN
         /\ p = Zero => \A q \in ns[l] \cup {e} : ~Precedes(F, o, q)
         /\ p # Zero =>
              /\ p \in ns[l] \cup {e} /\ Precedes(F, o, p)
              /\ \A q \in ns[l] \cup {e} : Precedes(F, o, q) =>
                   q = p \/ Precedes(F, p, q)
<1> DEFINE r == find(k)[l]  p == F[NextCell(o, l)]
<1>1. /\ HeadNode \in Node /\ HeadNode \notin ns[0] /\ HeadNode \notin ns[l]
      /\ ns[l] \subseteq Node \ {e} /\ ns[l] \subseteq ns[0] /\ HeadNode # e
      /\ \A q \in ns[l] : KeyOf(q) \in Nat
      /\ \A q, s \in ns[l] : KeyOf(q) = KeyOf(s) => q = s
      /\ k \in Nat
  BY ListedIs, Contents, Objects
<1>2. \A q \in ns[l] : KeyOf(q) # k BY <1>1, HitIs
<1>3. \A q, s : Precedes(mem, q, s) <=> q = HeadNode \/ KeyOf(q) < KeyOf(s)
  BY ListedIs
<1>4. /\ r \in ns[l] \cup {HeadNode} /\ (r = HeadNode \/ KeyOf(r) < k)
      /\ \A q \in ns[l] : Precedes(mem, r, q) => ~(KeyOf(q) < k)
  BY PathReaches DEF Reached
<1>5. \A q \in ns[l] \cup {HeadNode} :
        LET s == NextOf(q, l) IN
        /\ s = Zero => \A x \in ns[l] : ~Precedes(mem, q, x)
        /\ s # Zero =>
             /\ s \in ns[l] /\ Precedes(mem, q, s)
             /\ \A x \in ns[l] : Precedes(mem, q, x) =>
                  x = s \/ KeyOf(s) < KeyOf(x)
  BY ListedIs
<1>6. /\ \A q, s \in ns[l] \cup {HeadNode} :
           Precedes(F, q, s) <=> q = HeadNode \/ KeyOf(q) < KeyOf(s)
      /\ \A q \in ns[l] \cup {HeadNode} :
           Precedes(F, q, e) <=> q = HeadNode \/ KeyOf(q) < k
      /\ \A q \in ns[l] : Precedes(F, e, q) <=> k < KeyOf(q)
      /\ ~Precedes(F, e, e)
  BY <1>1 DEF Precedes
<1>7. e # Zero BY Objects
<1>8. F[NextCell(e, l)] = NextOf(r, l) /\ F[NextCell(r, l)] = e
      /\ \A q \in ns[l] \cup {HeadNode} :
           q # r => F[NextCell(q, l)] = NextOf(q, l)
  BY <1>1
<1> HIDE DEF r
<1>9. CASE o = e
  <2> DEFINE s == NextOf(r, l)
  <2>1. p = s BY <1>8, <1>9
  <2>2. ASSUME NEW q \in ns[l], k < KeyOf(q) PROVE Precedes(mem, r, q)
    BY <1>1, <1>3, <1>4, <2>2
  <2>3. ASSUME s = Zero PROVE \A q \in ns[l] \cup {e} : ~Precedes(F, e, q)
    BY <1>4, <1>5, <1>6, <2>2, <2>3
  <2>4. ASSUME s # Zero
        PROVE  /\ s \in ns[l] /\ k < KeyOf(s)
               /\ \A q \in ns[l] : k < KeyOf(q) => q = s \/ KeyOf(s) < KeyOf(q)
    <3>1. /\ s \in ns[l] /\ Precedes(mem, r, s)
          /\ \A x \in ns[l] : Precedes(mem, r, x) => x = s \/ KeyOf(s) < KeyOf(x)
      BY <1>4, <1>5, <2>4
    <3>2. ~(KeyOf(s) < k) /\ KeyOf(s) # k /\ KeyOf(s) \in Nat
      BY <1>1, <1>2, <1>4, <3>1
    <3>3. k < KeyOf(s) BY <1>1, <3>2
    <3> QED BY <2>2, <3>1, <3>3
  <2>5. ASSUME s # Zero
        PROVE  /\ s \in ns[l] \cup {e} /\ Precedes(F, e, s)
               /\ \A q \in ns[l] \cup {e} : Precedes(F, e, q) =>
                    q = s \/ Precedes(F, s, q)
    BY <1>6, <2>4, <2>5
  <2> HIDE DEF s, p
  <2>6. /\ s = Zero => \A q \in ns[l] \cup {e} : ~Precedes(F, e, q)
        /\ s # Zero =>
             /\ s \in ns[l] \cup {e} /\ Precedes(F, e, s)
             /\ \A q \in ns[l] \cup {e} : Precedes(F, e, q) =>
                  q = s \/ Precedes(F, s, q)
    BY <2>3, <2>5
  <2> QED BY <1>9, <2>1, <2>6 DEF p
<1>10. CASE o = r /\ o # e
  <2>1. p = e BY <1>8, <1>10
  <2>2. Precedes(F, r, e) BY <1>4, <1>6
  <2>3. ASSUME NEW q \in ns[l], Precedes(F, r, q) PROVE Precedes(F, e, q)
    <3>1. ~(KeyOf(q) < k) BY <1>3, <1>4, <1>6, <2>3
    <3>2. k < KeyOf(q) BY <1>1, <1>2, <3>1
    <3> QED BY <1>6, <3>2
  <2> HIDE DEF p
  <2> QED BY <1>7, <1>10, <2>1, <2>2, <2>3 DEF p
<1>11. CASE o # e /\ o # r
  <2> DEFINE s == NextOf(o, l)
  <2>1. o \in ns[l] \cup {HeadNode} BY <1>11
  <2>2. p = s BY <1>8, <1>11, <2>1
  <2>3. ASSUME Precedes(F, o, e) PROVE r \in ns[l] /\ Precedes(mem, o, r)
    <3>1. o = HeadNode \/ KeyOf(o) < k BY <1>6, <2>1, <2>3
    <3>2. CASE o = HeadNode BY <1>3, <1>4, <1>11, <3>2
    <3>3. CASE o # HeadNode
      <4>1. o \in ns[l] /\ KeyOf(o) < k BY <2>1, <3>1, <3>3
      <4>2. ~Precedes(mem, r, o) BY <1>4, <4>1
      <4>3. r # HeadNode /\ ~(KeyOf(r) < KeyOf(o)) BY <1>3, <4>2
      <4>4. r \in ns[l] /\ KeyOf(r) # KeyOf(o) BY <1>1, <1>4, <1>11, <4>1, <4>3
      <4>5. KeyOf(o) < KeyOf(r) BY <1>1, <4>1, <4>3, <4>4
      <4> QED BY <1>3, <4>4, <4>5
    <3> QED BY <3>2, <3>3
  <2>4. /\ s = Zero => \A x \in ns[l] : ~Precedes(mem, o, x)
        /\ s # Zero =>
             /\ s \in ns[l] /\ Precedes(mem, o, s)
             /\ \A x \in ns[l] : Precedes(mem, o, x) =>
                  x = s \/ KeyOf(s) < KeyOf(x)
    BY <1>5, <2>1
  <2>5. ASSUME s = Zero
        PROVE  \A q \in ns[l] \cup {e} : ~Precedes(F, o, q)
    BY <1>3, <1>6, <2>1, <2>3, <2>4, <2>5
  <2>6. ASSUME s # Zero
        PROVE  /\ s \in ns[l] \cup {e} /\ Precedes(F, o, s)
               /\ \A q \in ns[l] \cup {e} : Precedes(F, o, q) =>
                    q = s \/ Precedes(F, s, q)
    <3>1. s \in ns[l] /\ Precedes(F, o, s) BY <1>3, <1>6, <2>1, <2>4, <2>6
    <3>2. ASSUME NEW q \in ns[l], Precedes(F, o, q)
          PROVE  q = s \/ Precedes(F, s, q)
      BY <1>3, <1>6, <2>1, <2>4, <2>6, <3>1, <3>2
    <3>3. ASSUME Precedes(F, o, e) PROVE Precedes(F, s, e)
      <4>1. r \in ns[l] /\ Precedes(mem, o, r) BY <2>3, <3>3
      <4>2. r = s \/ KeyOf(s) < KeyOf(r) BY <2>4, <2>6, <4>1
      <4>3. KeyOf(r) < k BY <1>1, <1>4, <4>1
      <4>4. KeyOf(s) \in Nat /\ KeyOf(r) \in Nat BY <1>1, <3>1, <4>1
      <4>5. KeyOf(s) < k BY <1>1, <4>2, <4>3, <4>4
      <4> QED BY <1>6, <3>1, <4>5
    <3> HIDE DEF s
    <3> QED BY <3>1, <3>2, <3>3
  <2> HIDE DEF s, p
  <2>7. /\ s = Zero => \A q \in ns[l] \cup {e} : ~Precedes(F, o, q)
        /\ s # Zero =>
             /\ s \in ns[l] \cup {e} /\ Precedes(F, o, s)
             /\ \A q \in ns[l] \cup {e} : Precedes(F, o, q) =>
                  q = s \/ Precedes(F, s, q)
    BY <2>5, <2>6
  <2> QED BY <2>2, <2>7 DEF p
<1> QED BY <1>9, <1>10, <1>11

\* The list with a new node, on h levels.
LEMMA Inserted ==
  ASSUME NEW ns, Listed(ns), NEW want, DOMAIN want = Key, Wanted(mem, ns, want),
         NEW k \in Key, ~Hit(k), NEW v, NEW e \in Node,
         e \notin ns[0] \cup {HeadNode}, NEW h \in 1..SKIPLIST_LEVELS_NUM,
         NEW A, KeptIn(mem, ns, A)
  PROVE  LET F == Grown(e, k, v, find(k), h)  js == Joining(ns, e, h) IN
         /\ js \in [Level -> SUBSET Node]
         /\ Linked(F, js) /\ Keyed(F, js) /\ Nested(js)
         /\ Wanted(F, js, [want EXCEPT ![k] = {v}])
         /\ KeptIn(F, js, A \cup NodeCells(e))
<1> DEFINE path == find(k)  F == Grown(e, k, v, path, h)  js == Joining(ns, e, h)
<1>0. Joins(F, e, k, v, h)
  <2>1. Joins(Grown(e, k, v, find(k), h), e, k, v, h) BY GrownAt
  <2> QED BY <2>1
<1> HIDE DEF F
<1>1. /\ HeadOf(F) = HeadNode /\ KeyIn(F, e) = k /\ F[<<e, "value">>] = v
      /\ \A o \in Node \ {e} : /\ KeyIn(F, o) = KeyOf(o)
                               /\ F[<<o, "value">>] = mem[<<o, "value">>]
  BY <1>0 DEF Joins
<1>2. /\ HeadNode \in Node /\ HeadNode \notin ns[0] /\ HeadNode # e
      /\ \A l \in Level : ns[l] \subseteq Node \ {e} /\ ns[l] \subseteq ns[0]
      /\ ns[0] \subseteq Node \ {e}
      /\ \A o \in ns[0] : KeyOf(o) \in Key
      /\ \A o, q \in ns[0] : KeyOf(o) = KeyOf(q) => o = q
      /\ \A o \in ns[0] : KeyOf(o) # k
  BY ListedIs, HitIs, Objects
<1>3. /\ ns \in [Level -> SUBSET Node] /\ Linked(mem, ns) /\ Nested(ns)
  BY DEF Listed
<1>4. /\ js \in [Level -> SUBSET Node]
      /\ \A l \in Level : js[l] = IF l < h THEN ns[l] \cup {e} ELSE ns[l]
      /\ js[0] = ns[0] \cup {e}
  <2>1. 0 \in Level /\ 0 < h BY Objects, SkipAssumption
  <2>2. \A l \in Level : ns[l] \cup {e} \in SUBSET Node /\ ns[l] \in SUBSET Node
    BY <1>2
  <2> QED BY <2>1, <2>2 DEF Joining
<1> HIDE DEF js
<1>5. Linked(F, js)
  <2> SUFFICES ASSUME NEW l \in Level, NEW o \in js[l] \cup {HeadNode}
               PROVE  LET p == F[NextCell(o, l)] IN
                      /\ p = Zero => \A q \in js[l] : ~Precedes(F, o, q)
                      /\ p # Zero =>
                           /\ p \in js[l] /\ Precedes(F, o, p)
                           /\ \A q \in js[l] : Precedes(F, o, q) =>
                                q = p \/ Precedes(F, p, q)
    BY <1>1 DEF Linked
  <2>1. CASE l < h
    <3>1. js[l] = ns[l] \cup {e} BY <1>4, <2>1
    <3>2. o \in ns[l] \cup {e, HeadNode} BY <3>1
    <3>3. /\ F[NextCell(e, l)] = NextOf(find(k)[l], l)
          /\ F[NextCell(find(k)[l], l)] = e
          /\ \A q \in Node \ {e} :
               q # find(k)[l] => F[NextCell(q, l)] = NextOf(q, l)
          /\ \A q \in Node \ {e} : KeyIn(F, q) = KeyOf(q)
          /\ HeadOf(F) = HeadNode /\ KeyIn(F, e) = k
      BY <1>0, <2>1 DEF Joins
    <3>4. LET p == F[NextCell(o, l)] IN
          /\ p = Zero => \A q \in ns[l] \cup {e} : ~Precedes(F, o, q)
          /\ p # Zero =>
               /\ p \in ns[l] \cup {e} /\ Precedes(F, o, p)
               /\ \A q \in ns[l] \cup {e} : Precedes(F, o, q) =>
                    q = p \/ Precedes(F, p, q)
      BY <3>2, <3>3, JoinedLevel
    <3> QED BY <3>1, <3>4
  <2>2. CASE ~(l < h)
    <3>1. js[l] = ns[l] BY <1>4, <2>2
    <3>2. o \in ns[l] \cup {HeadNode} /\ o \in Node \ {e} BY <1>2, <3>1
    <3>3. F[NextCell(o, l)] = mem[NextCell(o, l)]
      BY <1>0, <2>2, <3>2 DEF Joins, NextOf
    <3>4. HeadOf(mem) = HeadNode BY DEF HeadOf, HeadNode
    <3>5. \A q, s \in ns[l] \cup {HeadNode} :
            Precedes(F, q, s) <=> Precedes(mem, q, s)
      <4>1. \A q \in ns[l] \cup {HeadNode} : KeyIn(F, q) = KeyIn(mem, q)
        BY <1>1, <1>2 DEF KeyIn, KeyOf
      <4> QED BY <1>1, <3>4, <4>1 DEF Precedes
    <3>6. LET p == mem[NextCell(o, l)] IN
          /\ p = Zero => \A q \in ns[l] : ~Precedes(mem, o, q)
          /\ p # Zero =>
               /\ p \in ns[l] /\ Precedes(mem, o, p)
               /\ \A q \in ns[l] : Precedes(mem, o, q) =>
                    q = p \/ Precedes(mem, p, q)
      BY <1>3, <3>2, <3>4 DEF Linked
    <3> QED BY <3>1, <3>2, <3>3, <3>5, <3>6
  <2> QED BY <2>1, <2>2
<1>6. Keyed(F, js)
  <2>1. \A o \in ns[0] : KeyIn(F, o) = KeyOf(o) /\ KeyOf(o) # k
    BY <1>1, <1>2
  <2>2. HeadOf(F) \in Node \ js[0] BY <1>1, <1>2, <1>4
  <2>3. \A o \in js[0] : KeyIn(F, o) \in Key BY <1>1, <1>2, <1>4, <2>1
  <2>4. \A o, q \in js[0] : KeyIn(F, o) = KeyIn(F, q) => o = q
    BY <1>1, <1>2, <1>4, <2>1
  <2> QED BY <2>2, <2>3, <2>4 DEF Keyed
<1>7. Nested(js)
  <2> SUFFICES ASSUME NEW l \in Level, NEW m \in Level, m <= l
               PROVE  js[l] \subseteq js[m]
    BY DEF Nested
  <2>1. ns[l] \subseteq ns[m] BY <1>3 DEF Nested
  <2>2. l < h => m < h BY Objects, SkipAssumption
  <2> QED BY <1>4, <2>1, <2>2
<1>8. Wanted(F, js, [want EXCEPT ![k] = {v}])
  <2> SUFFICES ASSUME NEW j \in Key
               PROVE  LET W == IF j = k THEN {v} ELSE want[j] IN
                      /\ (\A o \in js[0] : KeyIn(F, o) # j) => Absent \in W
                      /\ \A o \in js[0] : KeyIn(F, o) = j => F[<<o, "value">>] \in W
    BY DEF Wanted
  <2>1. /\ (\A o \in ns[0] : KeyOf(o) # j) => Absent \in want[j]
        /\ \A o \in ns[0] : KeyOf(o) = j => mem[<<o, "value">>] \in want[j]
    BY DEF Wanted, KeyIn, KeyOf
  <2>2. \A o \in ns[0] : /\ KeyIn(F, o) = KeyOf(o)
                         /\ F[<<o, "value">>] = mem[<<o, "value">>]
    BY <1>1, <1>2
  <2>3. CASE j = k
    <3>1. \A o \in js[0] : KeyIn(F, o) = j => o = e BY <1>2, <1>4, <2>2, <2>3
    <3> QED BY <1>1, <1>4, <2>3, <3>1
  <2>4. CASE j # k BY <1>1, <1>4, <2>1, <2>2, <2>4
  <2> QED BY <2>3, <2>4
<1>9. KeptIn(F, js, A \cup NodeCells(e))
  <2>1. \A o \in ns[0] \cup {HeadNode} : NodeCells(o) \subseteq A
    BY DEF KeptIn, HeadOf, HeadNode
  <2> QED BY <1>1, <1>4, <2>1 DEF KeptIn
<1> QED BY <1>4, <1>5, <1>6, <1>7, <1>8, <1>9 DEF F, js

LEMMA InsertIs ==
  ASSUME CallInv, MemoryTypeOK, NEW ns, Listed(ns), NEW want, DOMAIN want = Key,
         Wanted(mem, ns, want), KeptIn(mem, ns, live), NEW k \in Key, NEW v \in Val,
         NEW h \in 1..SKIPLIST_LEVELS_NUM, ~Hit(k) => HasRoom
  PROVE  HoldsIn(mem, live, insert(k, v, h), [want EXCEPT ![k] = {v}])
<1> DEFINE p == insert(k, v, h)  W == [want EXCEPT ![k] = {v}]
           q == PossibleFound(k)  e == NewNode
<1>1. ns \in [Level -> SUBSET Node] /\ Nested(ns) BY DEF Listed
<1>2. CASE Hit(k)
  <2> DEFINE F == Put(mem, <<q, "value">>, v)
  <2>1. q \in ns[0] /\ q \in Node /\ KeyOf(q) = k BY <1>2, HitIs
  <2>2. Does(p, mem, F, {}) BY <1>2, <2>1, HitDoes
  <2>3. Linked(F, ns) /\ Keyed(F, ns) /\ KeptIn(F, ns, live) /\ Wanted(F, ns, W)
    BY <2>1, Overwritten
  <2> HIDE DEF F, p, W
  <2>4. Yields(p, mem, F) /\ live \cup ToAllocate(p) = live
    BY <2>2 DEF Does
  <2>5. HoldsIn(mem, live, p, W) BY <1>1, <2>3, <2>4 DEF HoldsIn
  <2> QED BY <2>5 DEF p, W
<1>3. CASE ~Hit(k)
  <2> DEFINE F == Grown(e, k, v, find(k), h)  js == Joining(ns, e, h)
  <2>1. e \in Node /\ NodeCells(e) \cap live = {} BY <1>3, RoomIs
  <2>2. e \notin ns[0] \cup {HeadNode}
    <3>1. \A o \in ns[0] \cup {HeadNode} : NodeCells(o) \subseteq live
      BY DEF KeptIn, HeadOf, HeadNode
    <3>2. <<e, "key">> \in NodeCells(e) BY <2>1, Cells
    <3> QED BY <2>1, <3>1, <3>2
  <2>3. Joins(F, e, k, v, h) BY <2>1, <2>2, GrownAt
  <2>4. \A l \in Level : find(k)[l] \in Node /\ find(k)[l] # e
    BY <2>3 DEF Joins
  <2>5. Does(p, mem, F, NodeCells(e)) BY <1>3, <2>4, MissDoes
  <2>6. /\ js \in [Level -> SUBSET Node]
        /\ Linked(F, js) /\ Keyed(F, js) /\ Nested(js) /\ Wanted(F, js, W)
        /\ KeptIn(F, js, live \cup NodeCells(e))
    BY <1>3, <2>1, <2>2, Inserted
  <2> HIDE DEF F, js, p, W
  <2>7. Yields(p, mem, F) /\ ToAllocate(p) = NodeCells(e) BY <2>5 DEF Does
  <2>8. HoldsIn(mem, live, p, W) BY <2>6, <2>7 DEF HoldsIn
  <2> QED BY <2>8 DEF p, W
<1> QED BY <1>2, <1>3

\* init makes a list of no nodes, in memory that was never used.
LEMMA InitDoes ==
  ASSUME CallInv, HasRoom, \A c \in Cell : mem[c] = Zero
  PROVE  Does(init, mem, Put(mem, RootCell, NewNode), NodeCells(NewNode))
<1> DEFINE e == NewNode  N == NodeCells(e)  F == Put(mem, RootCell, e)
           A == Al(N)  u == St(RootCell, e)  a == AlTo(N, RootCell, e)
           f == [l \in Level |-> NextCell(e, l)]
           z == {St(f[l], Zero) : l \in Level}
           b == <<Bg, Sn(RootCells), TAl(N)>>  c == Cm
<1>1. /\ e \in Node /\ N \in SUBSET Cell /\ RootCell \in Cell /\ e \in Value
      /\ RootCells \in SUBSET Cell /\ Zero \in Value
  BY RoomIs, Cells, Contents
<1>2. /\ A \in Step /\ u \in Step /\ a \in Step /\ c \in Step
  BY <1>1, StepKinds
<1>3. Releases(A) = {} /\ Releases(u) = {} /\ Releases(a) = {} /\ Releases(c) = {}
  BY DEF Releases, Al, St, AlTo, Cm
<1>4. /\ Allocates(A) = N /\ Allocates(u) = {} /\ Allocates(a) = N
      /\ Allocates(c) = {}
  BY StepLogs
<1>5. /\ \A g : \A y : /\ After(A, g, y) = y
                       /\ After(u, g, y) = IF g = RootCell THEN e ELSE y
                       /\ After(a, g, y) = IF g = RootCell THEN e ELSE y
                       /\ After(c, g, y) = y
  BY StepAssigns DEF After
<1>6. \A g \in Cell : F[g] = IF g = RootCell THEN e ELSE mem[g] BY DEF Put
<1> HIDE DEF F, A, u, a, b, c
<1>7. Does(<<A, u>>, mem, F, N \cup {})
  <2>1. \A g \in Cell : F[g] = After(u, g, After(A, g, mem[g])) BY <1>5, <1>6
  <2>2. Does(<<A, u>>, mem, F, Allocates(A) \cup Allocates(u))
    BY <1>2, <1>3, <2>1, DoesTwo
  <2> QED BY <1>4, <2>2
<1>8. Does(<<a>>, mem, F, N)
  <2>1. \A g \in Cell : F[g] = After(a, g, mem[g]) BY <1>5, <1>6
  <2>2. Does(<<a>>, mem, F, Allocates(a)) BY <1>2, <1>3, <2>1, DoesOne
  <2> QED BY <1>4, <2>2
<1>9. Does(b, mem, mem, N) BY <1>1, Beginning DEF b
<1>10. Does(<<u, c>>, mem, F, {} \cup {})
  <2>1. \A g \in Cell : F[g] = After(c, g, After(u, g, mem[g])) BY <1>5, <1>6
  <2>2. Does(<<u, c>>, mem, F, Allocates(u) \cup Allocates(c))
    BY <1>2, <1>3, <2>1, DoesTwo
  <2> QED BY <1>4, <2>2
<1>11. Does(SetToSeq(z), F, F, {})
  <2>1. IsFiniteSet(Level) BY SkipAssumption, FS_Interval DEF Level
  <2>2. f \in [Level -> Cell] /\ \A x \in Level : f[x] = NextCell(e, x)
    BY <1>1, Cells
  <2>3. \A x, y \in Level : f[x] = f[y] => x = y BY <2>2, Fields
  <2>4. \A g \in Cell : F[g] = IF \E x \in Level : g = f[x] THEN Zero ELSE F[g]
    BY <1>6, <2>2, Fields
  <2> HIDE DEF f
  <2> QED BY <1>1, <2>1, <2>2, <2>3, <2>4, DoesStores
<1>12. Does(<<A, u>> \o SetToSeq(z), mem, F, N \cup {} \cup {})
  <2> HIDE DEF z
  <2> QED BY <1>7, <1>11, DoesConcat
<1>13. Does(b \o <<u, c>>, mem, F, N \cup ({} \cup {}))
  BY <1>9, <1>10, DoesConcat
<1>14. b \o <<u, c>> = <<Bg, Sn(RootCells), TAl(N), u, c>>
  <2> DEFINE s == Sn(RootCells)  t == TAl(N)  g == Bg
             r == <<g, s, t, u, c>>  b1 == <<g, s, t>>  b2 == <<u, c>>
  <2> HIDE DEF s, t, g
  <2>1. /\ b1 \in Seq({g, s, t, u, c}) /\ b2 \in Seq({g, s, t, u, c})
        /\ r \in Seq({g, s, t, u, c}) /\ Len(b1) = 3 /\ Len(b2) = 2 /\ Len(r) = 5
        /\ \A i \in 1..5 : r[i] = IF i <= 3 THEN b1[i] ELSE b2[i - 3]
    OBVIOUS
  <2>2. b1 \o b2 = r
    <3> DEFINE S == {g, s, t, u, c}
    <3> HIDE DEF b1, b2, r, S
    <3>1. b1 \in Seq(S) /\ b2 \in Seq(S) /\ r \in Seq(S) BY <2>1 DEF S
    <3>2. /\ Len(r) = Len(b1) + Len(b2)
          /\ \A i \in 1..Len(r) : r[i] = IF i <= Len(b1) THEN b1[i]
                                         ELSE b2[i - Len(b1)]
      BY <2>1
    <3> QED BY <3>1, <3>2, Joined
  <2> QED BY <2>2 DEF b, s, t, g
<1>15. N \cup {} \cup {} = N /\ N \cup ({} \cup {}) = N OBVIOUS
<1>16. z = {St(NextCell(e, l), Zero) : l \in Level} OBVIOUS
<1>17. /\ Volatile(cls) => init = <<A, u>> \o SetToSeq(z)
       /\ cls.medium = "pmem" => init = <<a>>
       /\ cls.medium = "tx" => init = <<Bg, Sn(RootCells), TAl(N), u, c>>
  <2> HIDE DEF z, N, e
  <2> QED BY <1>16, Media DEF init, skiplist_dram_init, skiplist_pmem_init,
               skiplist_pmem_tx_init, RootCell, A, u, a, c, e, N
<1> HIDE DEF N, z, e
<1>18. Does(init, mem, F, N)
  BY <1>8, <1>12, <1>13, <1>14, <1>15, <1>17, Media
<1> QED BY <1>18 DEF F, N, e

LEMMA InitHolds ==
  ASSUME CallInv, HasRoom, mem = [c \in Cell |-> Zero]
  PROVE  HoldsIn(mem, live, init, NoRecords)
<1> DEFINE e == NewNode  F == Put(mem, RootCell, e)  ns == [l \in Level |-> {}]
           p == init
<1>1. e \in Node BY RoomIs
<1>2. Does(p, mem, F, NodeCells(e)) BY InitDoes
<1>3. /\ F[RootCell] = e /\ \A l \in Level : F[NextCell(e, l)] = Zero
      /\ HeadOf(F) = e
  BY <1>1, Cells, Fields DEF Put, HeadOf, RootCell
<1>4. ns \in [Level -> SUBSET Node] /\ ns[0] = {} /\ \A l \in Level : ns[l] = {}
  BY Objects
<1> HIDE DEF F, ns, p, e
<1>5. Linked(F, ns) BY <1>3, <1>4 DEF Linked
<1>6. Keyed(F, ns) BY <1>1, <1>3, <1>4 DEF Keyed
<1>7. Nested(ns) BY <1>4 DEF Nested
<1>8. Wanted(F, ns, NoRecords) BY <1>4 DEF Wanted, NoRecords
<1>9. KeptIn(F, ns, live \cup NodeCells(e)) BY <1>3, <1>4 DEF KeptIn
<1>10. Yields(p, mem, F) /\ ToAllocate(p) = NodeCells(e) BY <1>2 DEF Does
<1>11. HoldsIn(mem, live, p, NoRecords)
  BY <1>4, <1>5, <1>6, <1>7, <1>8, <1>9, <1>10 DEF HoldsIn
<1> QED BY <1>11 DEF p
-----------------------------------------------------------------------------
(***************************************************************************)
(* Every step of the first process keeps the list in order.                *)
(***************************************************************************)
\* Nothing is to be held while nobody serves or starts to.
LEMMA Offline ==
  ASSUME CallInv', phase' \notin {"init", "serve"} PROVE LevelsInv'
<1>1. \A t \in Thread : th'[t].pc = "idle" BY DEF CallInv, CallsServed, Quiet
<1>2. \A t \in Thread : ~Updating(t)' BY <1>1 DEF Updating
<1> QED BY <1>2 DEF LevelsInv

\* What a program will leave does not change while it is performed.
LEMMA ExecHolds ==
  ASSUME BaseInv, phase # "destroy", NEW a \in Actor, Exec(a), NEW want,
         HoldsIn(mem, live, prog[a], want)
  PROVE  HoldsIn(mem', live', prog'[a], want)
<1> DEFINE u == prog[a][1]
<1>1. /\ prog[a] \in Seq(Step) /\ prog[a] # <<>>
      /\ u \in Step /\ MemoryStep(u) /\ prog'[a] = Tail(prog[a])
      /\ \A F : Yields(prog[a], mem, F) => Yields(prog'[a], mem', F)
      /\ ToAllocate(prog[a]) = Allocates(u) \cup ToAllocate(prog'[a])
  BY ExecDoes, Zenon DEF BaseInv
<1>2. dying = {} /\ Releases(u) = {}
  <2>1. 1 \in DOMAIN prog[a] BY <1>1, TailIs
  <2> QED BY <2>1 DEF BaseInv, NothingFreed, FreesNothing
<1> HIDE DEF u
<1>3. live \cup Allocates(u) \subseteq live' BY <1>1, <1>2, StepKeepsLive
<1>4. live \cup ToAllocate(prog[a]) \subseteq live' \cup ToAllocate(prog'[a])
  BY <1>1, <1>3
<1>5. PICK F, ns :
        /\ ns \in [Level -> SUBSET Node] /\ Yields(prog[a], mem, F)
        /\ Linked(F, ns) /\ Keyed(F, ns) /\ Nested(ns) /\ Wanted(F, ns, want)
        /\ KeptIn(F, ns, live \cup ToAllocate(prog[a]))
  BY Zenon DEF HoldsIn
<1>6. KeptIn(F, ns, live' \cup ToAllocate(prog'[a]))
  BY <1>4, <1>5 DEF KeptIn
<1> QED BY <1>1, <1>5, <1>6, Zenon DEF HoldsIn

LEMMA LevelsExec ==
  ASSUME IInv, NEW a \in Actor, Exec(a) PROVE LevelsInv'
<1>1. BaseInv /\ LevelsInv /\ CallInv BY DEF IInv, BaseInv
<1>2. UNCHANGED <<cls, phase, th, rd, wr, expect, dirty, calls, fails, starts>>
  BY <1>1, ExecIs
<1>3. CallInv' BY <1>1, ExecCalls
<1>4. prog[a] # <<>> BY DEF Exec
<1>5. \A t \in Thread : (Updating(t)' <=> Updating(t)) /\ Written(t)' = Written(t)
  BY <1>2 DEF Updating, Written
<1>6. CASE phase = "init" /\ starts = 0
  <2>1. \A t \in Thread : ~Updating(t)
    BY <1>1, <1>6 DEF CallInv, CallsServed, Quiet, Updating
  <2>2. a = main BY <1>1, <1>4, <2>1 DEF CallInv, ProgramsOwned, Actor
  <2>3. HoldsIn(mem, live, prog[main], NoRecords) BY <1>1, <1>6 DEF LevelsInv
  <2>4. HoldsIn(mem', live', prog'[main], NoRecords)
    BY <1>1, <1>6, <2>2, <2>3, ExecHolds
  <2> QED BY <1>2, <1>5, <1>6, <2>1, <2>4 DEF LevelsInv
<1>7. CASE phase = "serve" /\ starts = 0
  <2>1. a \in Thread /\ Updating(a)
    BY <1>1, <1>4, <1>7 DEF CallInv, ProgramsOwned, Actor
  <2>2. \A t \in Thread : Updating(t) => t = a
    BY <1>1, <2>1 DEF CallInv, Excluded, Updating
  <2>3. HoldsIn(mem, live, prog[a], Written(a)) BY <1>1, <1>7, <2>1 DEF LevelsInv
  <2>4. HoldsIn(mem', live', prog'[a], Written(a))
    BY <1>1, <1>7, <2>3, ExecHolds
  <2>5. \A t \in Thread : Updating(t)' =>
          HoldsIn(mem', live', prog'[t], Written(t)')
    BY <1>5, <2>2, <2>4
  <2> QED BY <1>2, <1>5, <1>7, <2>1, <2>5 DEF LevelsInv
<1>8. CASE phase \notin {"init", "serve"} BY <1>2, <1>3, <1>8, Offline
<1>9. CASE starts # 0 BY <1>2, <1>9 DEF LevelsInv
<1> QED BY <1>6, <1>7, <1>8, <1>9

\* A step that changes neither the pool nor what is expected or being updated.
LEMMA LevelsSame ==
  ASSUME LevelsInv, UNCHANGED <<pvars, phase, prog, expect, starts>>,
         \A t \in Thread :
           /\ Updating(t)' <=> Updating(t)
           /\ Updating(t) => th'[t].key = th[t].key /\ th'[t].val = th[t].val
  PROVE  LevelsInv'
<1>1. mem' = mem /\ live' = live BY DEF pvars
<1>2. \A t \in Thread : Updating(t)' => Written(t)' = Written(t) BY DEF Written
<1>3. \A t \in Thread : Updating(t)' <=> Updating(t) OBVIOUS
<1> QED BY <1>1, <1>2, <1>3 DEF LevelsInv

\* A client's calls, its lookups and what it does with what they found.
LEMMA LevelsClient ==
  ASSUME IInv, NEW t \in Thread,
         \/ \E k \in Key : \/ CallRead(t, k) \/ CallScan(t, k)
                           \/ \E n \in Version : CallWrite(t, k, n)
         \/ CopyOut(t) \/ Return(t) \/ Read(t) \/ Scan(t)
  PROVE  LevelsInv'
<1>1. BaseInv /\ LevelsInv BY DEF IInv
<1>2. CASE \/ \E k \in Key : \/ CallRead(t, k) \/ CallScan(t, k)
                             \/ \E n \in Version : CallWrite(t, k, n)
           \/ CopyOut(t) \/ Return(t)
  <2>1. /\ UNCHANGED <<pvars, cls, phase, prog, expect, starts>>
        /\ th[t].pc # "in" /\ th'[t].pc # "in"
        /\ \A u \in Thread \ {t} : th'[u] = th[u]
    BY <1>1, <1>2, BaseCalls
  <2>2. \A u \in Thread :
          /\ Updating(u)' <=> Updating(u)
          /\ Updating(u) => th'[u].key = th[u].key /\ th'[u].val = th[u].val
    BY <2>1 DEF Updating
  <2> QED BY <1>1, <2>1, <2>2, LevelsSame
<1>3. CASE Read(t) \/ Scan(t)
  <2>1. /\ UNCHANGED <<pvars, cls, phase, prog, expect, starts>>
        /\ \A u \in Thread : ~Updating(u) /\ ~Updating(u)'
    BY <1>1, <1>3, BaseLooks
  <2> QED BY <1>1, <2>1, LevelsSame
<1> QED BY <1>2, <1>3

\* An insert or update will leave what it is to write.
LEMMA LevelsWrite ==
  ASSUME IInv, NEW t \in Thread, Write(t) PROVE LevelsInv'
<1>1. BaseInv /\ LevelsInv /\ CallInv /\ MemoryTypeOK BY DEF IInv, BaseInv
<1>2. PICK h \in 1..SKIPLIST_LEVELS_NUM :
        LET k == th[t].key  v == th[t].val  p == insert(k, v, h) IN
        /\ phase = "serve" /\ k \in Key /\ v \in Val
        /\ ~Hit(k) => HasRoom
        /\ \A u \in Thread : ~Updating(u)
        /\ UNCHANGED <<pvars, cls, phase, starts>>
        /\ expect' = [expect EXCEPT ![k] = @ \cup {v}]
        /\ \A u \in Thread : Updating(u)' <=> u = t
        /\ th'[t].key = k /\ th'[t].val = v
        /\ prog'[t] = p
  <2> HIDE DEF insert
  <2> QED BY <1>1, BaseWrites
<1> DEFINE k == th[t].key  v == th[t].val  p == insert(k, v, h)
           now == [expect EXCEPT ![k] = {v}]
<1>3. CASE starts = 0
  <2>1. PICK ns : Listed(ns) /\ Wanted(mem, ns, expect) /\ KeptIn(mem, ns, live)
    BY <1>2, <1>3, IInvServing
  <2>2. DOMAIN expect = Key BY <1>1 DEF CallInv, CallTypeOK
  <2>3. HoldsIn(mem, live, p, now) BY <1>1, <1>2, <2>1, <2>2, InsertIs
  <2>4. [expect' EXCEPT ![k] = {v}] = now BY <1>2, <2>2
  <2>5. Written(t)' = now BY <1>2, <2>4 DEF Written
  <2>6. mem' = mem /\ live' = live /\ phase' = "serve" /\ prog'[t] = p
        /\ \A u \in Thread : Updating(u)' <=> u = t
    BY <1>2 DEF pvars
  <2> HIDE DEF p, now
  <2> QED BY <2>3, <2>5, <2>6 DEF LevelsInv
<1>4. CASE starts # 0
  <2>1. starts' # 0 BY <1>2, <1>4
  <2> QED BY <2>1 DEF LevelsInv
<1> QED BY <1>3, <1>4

\* The update is complete: what was wanted of its program is expected now.
LEMMA LevelsLeave ==
  ASSUME IInv, NEW t \in Thread, Leave(t) PROVE LevelsInv'
<1>1. BaseInv /\ LevelsInv /\ CallInv BY DEF IInv, BaseInv
<1>2. /\ th[t].pc = "in" /\ prog[t] = <<>> /\ phase = "serve"
      /\ expect' = IF Writes(th[t].op, th[t].key)
                   THEN [expect EXCEPT ![th[t].key] = {th[t].val}] ELSE expect
      /\ UNCHANGED <<pvars, cls, phase, prog, starts>>
      /\ th'[t].pc # "in" /\ \A u \in Thread \ {t} : th'[u] = th[u]
  BY <1>1, BaseLeaves
<1>3. CASE Updating(t)
  <2>1. Writes(th[t].op, th[t].key) BY <1>1, <1>3, Media DEF Updating, Writes
  <2>2. \A u \in Thread : ~Updating(u)'
    BY <1>1, <1>2, <1>3 DEF CallInv, Excluded, Updating
  <2>3. starts = 0 => HoldsIn(mem, live, prog[t], Written(t))
    BY <1>1, <1>3 DEF LevelsInv
  <2>4. expect' = Written(t) BY <1>2, <2>1 DEF Written
  <2>5. starts = 0 => HoldsIn(mem', live', <<>>, expect')
    BY <1>2, <2>3, <2>4 DEF pvars
  <2> QED BY <1>2, <2>2, <2>5 DEF LevelsInv
<1>4. CASE ~Updating(t)
  <2>1. expect' = expect BY <1>2, <1>4 DEF Updating, Writes
  <2>2. \A u \in Thread :
          /\ Updating(u)' <=> Updating(u)
          /\ Updating(u) => th'[u].key = th[u].key /\ th'[u].val = th[u].val
    BY <1>2, <1>4 DEF Updating
  <2> QED BY <1>1, <1>2, <2>1, <2>2, LevelsSame
<1> QED BY <1>3, <1>4

\* init leaves a list without records, and that is what the clients expect.
LEMMA LevelsInitDone ==
  ASSUME IInv, InitDone([k \in Key |-> Find(k)]) PROVE LevelsInv'
<1>1. BaseInv /\ LevelsInv /\ CallInv BY DEF IInv, BaseInv
<1>2. /\ phase = "init" /\ prog[main] = <<>> /\ phase' = "serve"
      /\ expect' = [k \in Key |-> {Find(k)}]
      /\ UNCHANGED <<pvars, cls, th, prog, starts>>
      /\ MemoryTypeOK /\ Leads
  BY <1>1, BaseInitDone
<1>3. \A t \in Thread : ~Updating(t)'
  BY <1>1, <1>2 DEF CallInv, CallsServed, Quiet, Updating
<1>4. CASE starts = 0
  <2>1. HoldsIn(mem, live, <<>>, NoRecords) BY <1>1, <1>2, <1>4 DEF LevelsInv
  <2>2. PICK ns : Listed(ns) /\ Wanted(mem, ns, NoRecords)
    BY <1>2, <2>1, HeldNow
  <2>3. \A k \in Key : Find(k) = Absent
    <3> TAKE k \in Key
    <3>1. Find(k) \in NoRecords[k] BY <2>2, FindIs
    <3> QED BY <3>1 DEF NoRecords
  <2>4. expect' = NoRecords BY <1>2, <2>3 DEF NoRecords
  <2>5. HoldsIn(mem', live', <<>>, expect') BY <1>2, <2>1, <2>4 DEF pvars
  <2> QED BY <1>2, <1>3, <2>5 DEF LevelsInv
<1>5. CASE starts # 0 BY <1>2, <1>5 DEF LevelsInv
<1> QED BY <1>4, <1>5

LEMMA InitIInv == SkipInit => IInv
<1> SUFFICES ASSUME SkipInit PROVE IInv OBVIOUS
<1>1. BaseInv /\ CallInv BY InitBase DEF BaseInv
<1>2. /\ phase = "init" /\ mem = [c \in Cell |-> Zero] /\ live \subseteq RootCells
      /\ prog = [t \in Thread \cup {main} |-> IF t = main THEN init ELSE <<>>]
      /\ \A t \in Thread : ~Updating(t)
  BY DEF SkipInit, StoredsInit, PoolInit, Updating, Idle
<1>3. HasRoom
  <2>1. 1 \in Node /\ RootCells = {RootCell} /\ RootCell \notin NodeCells(1)
    BY Objects, Cells, Fields
  <2>2. 1 \in FreeNodes BY <1>2, <2>1 DEF FreeNodes
  <2> QED BY <2>2 DEF HasRoom
<1>4. HoldsIn(mem, live, init, NoRecords) BY <1>1, <1>2, <1>3, InitHolds
<1>5. prog[main] = init BY <1>2
<1>6. LevelsInv BY <1>2, <1>4, <1>5 DEF LevelsInv
<1> QED BY <1>1, <1>6 DEF IInv

LEMMA StepIInv == IInv /\ [Next]_vars => IInv'
<1> SUFFICES ASSUME IInv, [Next]_vars PROVE LevelsInv'
  BY StepBase DEF IInv
<1>1. BaseInv /\ LevelsInv /\ CallInv BY DEF IInv, BaseInv
<1>2. BaseInv' /\ CallInv' BY <1>1, StepBase DEF BaseInv
<1>3. ASSUME NEW t \in Thread, NEW k \in Key,
             \/ CallRead(t, k) \/ CallScan(t, k)
             \/ \E n \in Version : CallWrite(t, k, n)
      PROVE  LevelsInv'
  BY <1>3, LevelsClient
<1>4. ASSUME phase' \in {"down", "closed"} PROVE LevelsInv'
  BY <1>2, <1>4, Offline
<1>5. ASSUME NEW t \in Thread, ThreadStep(t) PROVE LevelsInv'
  <2>1. t \in Actor BY DEF Actor
  <2>2. CASE Write(t) BY <2>2, LevelsWrite
  <2>3. CASE Read(t) \/ Scan(t) \/ CopyOut(t) \/ Return(t) BY <2>3, LevelsClient
  <2>4. CASE Exec(t) BY <2>1, <2>4, LevelsExec
  <2>5. CASE Leave(t) BY <2>5, LevelsLeave
  <2>6. CASE MissDies(t) BY <1>1, <1>4, <2>6, BaseGone
  <2> QED BY <1>5, <2>2, <2>3, <2>4, <2>5, <2>6, Zenon DEF ThreadStep, ClientStep
<1>6. CASE MainStep
  <2>1. main \in Actor BY DEF Actor
  <2>2. CASE Exec(main) BY <2>1, <2>2, LevelsExec
  <2>3. CASE InitDone([k \in Key |-> Find(k)]) BY <2>3, LevelsInitDone
  <2>4. CASE Close BY <1>1, <1>4, <2>4, BaseGone
  <2> QED BY <1>6, <2>2, <2>3, <2>4, Zenon DEF MainStep
<1>7. CASE Destroy(destroy)
  <2>1. phase' = "destroy" BY <1>1, <1>7, BaseDestroys
  <2> QED BY <1>2, <2>1, Offline
<1>8. CASE Crash BY <1>1, <1>4, <1>8, BaseGone
<1>9. CASE Settling
  <2>1. phase' \notin {"init", "serve"} BY <1>1, <1>9, BaseSettling
  <2> QED BY <1>2, <2>1, Offline
<1>10. CASE HasRoom /\ Reopen(init)
  <2>1. starts' # 0 BY <1>1, <1>10, BaseReopen
  <2> QED BY <2>1 DEF LevelsInv
<1>11. CASE Finished \/ UNCHANGED vars
  <2>1. UNCHANGED vars BY <1>11 DEF Finished
  <2>2. UNCHANGED <<pvars, phase, prog, expect, starts, th>>
    BY <2>1 DEF vars, svars
  <2>3. \A t \in Thread : Updating(t)' <=> Updating(t) BY <2>2 DEF Updating
  <2> QED BY <1>1, <2>2, <2>3, LevelsSame
<1> QED BY <1>3, <1>5, <1>6, <1>7, <1>8, <1>9, <1>10, <1>11, Zenon DEF Next

-----------------------------------------------------------------------------
(***************************************************************************)
(* What callers of a skiplist can rely on.                                 *)
(***************************************************************************)

\* In the first process the list is, after the steps an operation has still to
\* perform, the one its calls ask for, on every level; in every process pointers
\* lead to nodes and a tx class keeps to its transaction.
THEOREM SkipInvariance == Spec => []IInv
BY InitIInv, StepIInv, PTL DEF Spec

\* Between operations read() shows the last value written under a key, or
\* nothing if none was, whatever levels the coin gave the nodes.
THEOREM SkipShowsWrites == Spec => []MapCorrect
BY SkipInvariance, IInvMapCorrect, PTL

\* Between operations each level ascends strictly, and its nodes are all on the
\* level below, where a search that descends goes on.
THEOREM SkipLevelsNested == Spec => []LevelsNested
BY SkipInvariance, IInvLevelsNested, PTL

\* A step of a tx class stores what its transaction has logged, allocates and
\* frees through it; or it leaves the pool alone; or the pool is not in use.
LEMMA SkipStepDisciplined ==
  IInv /\ [Next]_vars => [cls.medium = "tx" => TxClient!Disciplined]_pvars
<1> SUFFICES ASSUME IInv, [Next]_vars, cls.medium = "tx"
             PROVE  TxClient!Disciplined \/ UNCHANGED pvars
  OBVIOUS
<1> USE DEF TxClient!Disciplined, TxClient!WritesCovered, TxClient!Covered,
            TxClient!AllocatesInTx, TxClient!FreesInTx
<1>1. ASSUME NEW a \in Actor, Exec(a) PROVE TxClient!Disciplined
  <2>1. /\ \A c \in live : mem'[c] # mem[c] => c \in Logged
        /\ live' \ live \subseteq fresh'
        /\ live \ live' # {} => intx /\ ~intx'
    BY <1>1, ExecTx DEF IInv, BaseInv
  <2> QED BY <2>1 DEF Logged
<1>2. ASSUME NEW how \in {"failed", "exited"}, Fail(how)
      PROVE  TxClient!Disciplined
  BY <1>2 DEF Fail
<1>3. ASSUME NEW t \in Thread, NEW k \in Key,
             \/ CallRead(t, k) \/ CallScan(t, k)
             \/ \E n \in Version : CallWrite(t, k, n)
      PROVE  UNCHANGED pvars
  BY <1>3 DEF CallRead, CallScan, CallWrite, Call, StartCall
<1>4. ASSUME NEW t \in Thread, ThreadStep(t)
      PROVE  TxClient!Disciplined \/ UNCHANGED pvars
  <2>1. CASE Exec(t) BY <1>1, <2>1 DEF Actor
  <2>2. CASE MissDies(t) BY <1>2, <2>2 DEF MissDies, Dies, ProcessExit
  <2>3. CASE ~Exec(t) /\ ~MissDies(t)
    BY <1>4, <2>3 DEF ThreadStep, ClientStep, Write, Read, Scan, Enter, EnterScan,
                      Leave, CopyOut, Return
  <2> QED BY <2>1, <2>2, <2>3
<1>5. CASE MainStep
  <2>1. CASE Exec(main) BY <1>1, <2>1 DEF Actor
  <2>2. CASE Close BY <1>2, <2>2 DEF Close, ProcessExit
  <2>3. CASE InitDone([k \in Key |-> Find(k)]) BY <2>3 DEF InitDone
  <2> QED BY <1>5, <2>1, <2>2, <2>3 DEF MainStep
<1>6. CASE Destroy(destroy) BY <1>6 DEF Destroy
<1>7. CASE Crash BY <1>2, <1>7 DEF Crash, PowerFail
<1>8. CASE Settling BY <1>8 DEF Settling, SettleNext, Settle
<1>9. CASE HasRoom /\ Reopen(init) BY <1>9 DEF Reopen, Open, Recovered
<1>10. CASE Finished \/ UNCHANGED vars BY <1>10 DEF Finished, vars
<1> QED BY <1>3, <1>4, <1>5, <1>6, <1>7, <1>8, <1>9, <1>10, Zenon DEF Next

\* skiplist_pmem_tx and its concurrent classes store only into what the open
\* transaction has snapshotted or allocated, and allocate and free through it.
THEOREM SkipTxDisciplined == Spec => Discipline
BY SkipInvariance, SkipStepDisciplined, PTL DEF Spec, Discipline

\* A run never changes its class.
LEMMA ClassKept == [Next]_vars => cls' = cls
<1> SUFFICES ASSUME [Next]_vars PROVE cls' = cls OBVIOUS
<1>1. ASSUME NEW t \in Thread, NEW k \in Key,
             \/ CallRead(t, k) \/ CallScan(t, k)
             \/ \E n \in Version : CallWrite(t, k, n)
      PROVE  cls' = cls
  BY <1>1 DEF CallRead, CallScan, CallWrite, Call, StartCall
<1>2. ASSUME NEW t \in Thread, ThreadStep(t) PROVE cls' = cls
  BY <1>2 DEF ThreadStep, ClientStep, Write, Read, Scan, Enter, EnterScan, Exec,
       Leave, CopyOut, MissDies, Dies, Gone, Return
<1>3. CASE MainStep BY <1>3 DEF MainStep, Exec, InitDone, Close
<1>4. CASE Destroy(destroy) \/ Crash BY <1>4 DEF Destroy, Crash, Gone
<1>5. CASE HasRoom /\ Reopen(init) BY <1>5 DEF Reopen
<1>6. CASE Settling \/ Finished \/ UNCHANGED vars
  BY <1>6 DEF Settling, Finished, vars, svars
<1> QED BY <1>1, <1>2, <1>3, <1>4, <1>5, <1>6, Zenon DEF Next

\* The abstract specification, with its theorem; it names the same calls.
Tx == INSTANCE TxDisciplineProofs WITH Root <- RootCells

LEMMA SameSteps ==
  ASSUME NEW u \in Step, MemoryStep(u) PROVE Tx!AnyStep
<1> USE DEF MemoryStep, Tx!AnyStep
<1>1. CASE u.op = "store"
  <2>1. u.c \in Cell /\ u.v \in Value BY <1>1 DEF Step
  <2>2. Tx!Store(u.c, u.v) BY <1>1 DEF Store, Tx!Store
  <2> QED BY <2>1, <2>2
<1>2. CASE u.op \in {"persist", "alloc", "free", "tx_add_range", "tx_alloc",
                     "tx_zalloc", "tx_free"}
  <2>1. u.C \in SUBSET Cell BY <1>2 DEF Step
  <2>2. \/ Tx!Persist(u.C) \/ Tx!Alloc(u.C) \/ Tx!Free(u.C)
        \/ Tx!TxAddRange(u.C) \/ Tx!TxAlloc(u.C) \/ Tx!TxZAlloc(u.C)
        \/ Tx!TxFree(u.C)
    BY <1>2 DEF Persist, Alloc, Free, TxAddRange, TxAlloc, TxZAlloc, TxFree,
         Tx!Persist, Tx!Alloc, Tx!Free, Tx!TxAddRange, Tx!TxAlloc,
         Tx!TxZAlloc, Tx!TxFree
  <2> QED BY <2>1, <2>2
<1>3. CASE u.op \in {"alloc_to", "zalloc_to"}
  <2>1. u.C \in SUBSET Cell /\ u.c \in Cell /\ u.v \in Value
    BY <1>3 DEF Step
  <2>2. Tx!AllocTo(u.C, u.c, u.v) \/ Tx!ZAllocTo(u.C, u.c, u.v)
    BY <1>3 DEF AllocTo, ZAllocTo, Tx!AllocTo, Tx!ZAllocTo
  <2> QED BY <2>1, <2>2
<1>4. CASE u.op = "free_in"
  <2>1. u.C \in SUBSET Cell /\ u.c \in Cell /\ Zero \in Value
    BY <1>4, ZeroAssumption DEF Step
  <2>2. Tx!FreeFrom(u.C, u.c) BY <1>4 DEF FreeFrom, Tx!FreeFrom
  <2> QED BY <2>1, <2>2
<1>5. CASE u.op \in {"tx_begin", "tx_end"}
  <2>1. Tx!TxBegin \/ Tx!TxCommit
    BY <1>5 DEF TxBegin, TxCommit, Tx!TxBegin, Tx!TxCommit, NoUndo, Tx!NoUndo
  <2> QED BY <2>1
<1> QED BY <1>1, <1>2, <1>3, <1>4, <1>5 DEF Step

LEMMA SameFailures ==
  ASSUME \/ Fail("failed") \/ Fail("exited") \/ SettleNext \/ Open
  PROVE  Tx!AnyStep
<1> USE DEF Tx!AnyStep
<1>1. ASSUME NEW how, Fail(how) PROVE Tx!Fail(how)
  BY <1>1 DEF Fail, Tx!Fail, AfterExit, Tx!AfterExit, AfterFailure,
       Tx!AfterFailure, NoUndo, Tx!NoUndo
<1>2. CASE Fail("failed") \/ Fail("exited")
  <2>1. Tx!PowerFail \/ Tx!ProcessExit
    BY <1>1, <1>2 DEF Tx!PowerFail, Tx!ProcessExit
  <2> QED BY <2>1
<1>3. CASE SettleNext
  <2>1. Tx!SettleNext
    BY <1>3 DEF SettleNext, Tx!SettleNext, Settle, Tx!Settle,
         Unsettled, Tx!Unsettled
  <2> QED BY <2>1
<1>4. CASE Open
  <2>1. Tx!Open
    BY <1>4 DEF Open, Tx!Open, Recovered, Tx!Recovered, Unsettled,
         Tx!Unsettled
  <2> QED BY <2>1
<1> QED BY <1>2, <1>3, <1>4

\* Whatever happens to the pool is a call of libpmemobj or a failure.
LEMMA PoolCalls ==
  ASSUME IInv, [Next]_vars
  PROVE  Tx!AnyStep \/ UNCHANGED pvars
<1>1. ASSUME NEW a \in Actor, Exec(a) PROVE Tx!AnyStep
  <2>1. prog[a][1] \in Step /\ MemoryStep(prog[a][1])
    BY <1>1, ExecDoes, Zenon DEF IInv, BaseInv
  <2> QED BY <2>1, SameSteps
<1>2. ASSUME NEW t \in Thread, NEW k \in Key,
             \/ CallRead(t, k) \/ CallScan(t, k)
             \/ \E n \in Version : CallWrite(t, k, n)
      PROVE  UNCHANGED pvars
  BY <1>2 DEF CallRead, CallScan, CallWrite, Call, StartCall
<1>3. ASSUME NEW t \in Thread, ThreadStep(t)
      PROVE  Tx!AnyStep \/ UNCHANGED pvars
  <2>1. CASE Exec(t) BY <1>1, <2>1 DEF Actor
  <2>2. CASE MissDies(t) BY <2>2, SameFailures DEF MissDies, Dies, ProcessExit
  <2>3. CASE ~Exec(t) /\ ~MissDies(t)
    BY <1>3, <2>3 DEF ThreadStep, ClientStep, Write, Read, Scan, Enter, EnterScan,
                      Leave, CopyOut, Return
  <2> QED BY <2>1, <2>2, <2>3
<1>4. CASE MainStep
  <2>1. CASE Exec(main) BY <1>1, <2>1 DEF Actor
  <2>2. CASE Close BY <2>2, SameFailures DEF Close, ProcessExit
  <2>3. CASE InitDone([k \in Key |-> Find(k)]) BY <2>3 DEF InitDone
  <2> QED BY <1>4, <2>1, <2>2, <2>3 DEF MainStep
<1>5. CASE Destroy(destroy) BY <1>5 DEF Destroy
<1>6. CASE Crash BY <1>6, SameFailures DEF Crash, PowerFail
<1>7. CASE Settling BY <1>7, SameFailures DEF Settling
<1>8. CASE HasRoom /\ Reopen(init) BY <1>8, SameFailures DEF Reopen
<1>9. CASE Finished \/ UNCHANGED vars BY <1>9 DEF Finished, vars
<1> QED BY <1>2, <1>3, <1>4, <1>5, <1>6, <1>7, <1>8, <1>9, Zenon DEF Next

LEMMA TxStarts == SkipInit /\ cls.medium = "tx" => Tx!Init
<1> SUFFICES ASSUME SkipInit, cls.medium = "tx" PROVE Tx!Init
  OBVIOUS
<1>1. PoolInit({}, RootCells)
  BY DEF SkipInit, StoredsInit, Volatile
<1>2. Tx!PoolInit({}, RootCells)
  BY <1>1 DEF PoolInit, Tx!PoolInit, NoUndo, Tx!NoUndo
<1> QED BY <1>2 DEF Tx!Init

LEMMA TxSteps ==
  IInv /\ cls.medium = "tx" /\ [Next]_vars => [Tx!Next]_(Tx!pvars)
<1> SUFFICES ASSUME IInv, cls.medium = "tx", [Next]_vars,
                    ~(UNCHANGED pvars)
             PROVE  Tx!Next
  BY Zenon DEF pvars, Tx!pvars
<1>1. TxClient!Disciplined BY SkipStepDisciplined, Zenon
<1>2. Tx!Disciplined
  BY <1>1 DEF TxClient!Disciplined, TxClient!WritesCovered, TxClient!Covered,
       TxClient!AllocatesInTx, TxClient!FreesInTx, Tx!Disciplined,
       Tx!WritesCovered, Tx!Covered, Tx!AllocatesInTx, Tx!FreesInTx
<1>3. Tx!AnyStep BY PoolCalls, Zenon
<1> QED BY <1>2, <1>3 DEF Tx!Next

\* The skiplist of a tx class, whatever its clients call and whenever it fails,
\* is a client of the pool as TxDiscipline describes it.
THEOREM SkipTxRefinesDiscipline ==
  Spec /\ cls.medium = "tx" => Tx!Spec
<1>1. cls.medium = "tx" /\ [Next]_vars => (cls.medium = "tx")'
  BY ClassKept
<1> QED BY <1>1, TxStarts, TxSteps, SkipInvariance, PTL DEF Spec, Tx!Spec

\* So a failure at any point of an insert, on whichever level its node is being
\* linked, of init or of destroy leaves, once the log has been applied, exactly
\* the pool of the last TX_END.
THEOREM SkipTxRecovers ==
  Spec /\ cls.medium = "tx" => []Tx!AtomicRecovery
<1>1. RootCells \subseteq Cell BY Cells
<1>2. Tx!Spec => []Tx!AtomicRecovery BY <1>1, Tx!Atomicity, ZeroAssumption
<1> QED BY <1>2, SkipTxRefinesDiscipline
=============================================================================
