----------------------------- MODULE LinkedProofs -----------------------------
(***************************************************************************)
(* The classes of storeds/linkedlist, for every number of threads, keys,   *)
(* nodes, calls, failures and restarts: LinkedList's IInv is inductive,    *)
(* and what it means for the callers.                                      *)
(***************************************************************************)
EXTENDS LinkedList, ProgramProofs

-----------------------------------------------------------------------------
(***************************************************************************)
(* Where the cells are, and what can be in them.                           *)
(***************************************************************************)
LEMMA Cells ==
  /\ RootCells \subseteq Cell /\ HeadCell \in Cell /\ TailCell \in Cell
  /\ HeadCell \in RootCells /\ TailCell \in RootCells
  /\ \A o \in Node :
       /\ NodeCells(o) \subseteq Cell /\ <<o, "key">> \in NodeCells(o)
       /\ <<o, "value">> \in NodeCells(o) /\ <<o, "next">> \in NodeCells(o)
  /\ Pointer \subseteq Cell /\ RootCells \subseteq Pointer
  /\ \A o \in Node : <<o, "next">> \in Pointer
<1>1. ListCell \subseteq Cell BY ListAssumption
<1>2. RootCells \subseteq Cell BY <1>1, Zenon DEF ListCell
<1>3. \A o \in Node : NodeCells(o) \subseteq Cell BY <1>1 DEF ListCell
<1>4. HeadCell \in RootCells /\ TailCell \in RootCells BY DEF RootCells
<1>5. \A o \in Node :
        /\ <<o, "key">> \in NodeCells(o) /\ <<o, "value">> \in NodeCells(o)
        /\ <<o, "next">> \in NodeCells(o)
  BY DEF NodeCells
<1>6. Pointer \subseteq Cell BY <1>2, <1>3, <1>5 DEF Pointer
<1>7. RootCells \subseteq Pointer /\ \A o \in Node : <<o, "next">> \in Pointer
  BY DEF Pointer
<1> QED BY <1>2, <1>3, <1>4, <1>5, <1>6, <1>7

\* No two fields share a cell.
LEMMA Fields ==
  /\ 0 \notin Node /\ Node \subseteq Nat /\ HeadCell # TailCell
  /\ \A o \in Node : RootCells \cap NodeCells(o) = {}
  /\ \A o, q \in Node : o # q => NodeCells(o) \cap NodeCells(q) = {}
  /\ \A o, q : /\ <<o, "key">> # <<q, "value">> /\ <<o, "key">> # <<q, "next">>
               /\ <<o, "value">> # <<q, "next">>
  /\ \A o \in Node : /\ <<o, "key">> \notin Pointer /\ <<o, "value">> \notin Pointer
                     /\ <<o, "next">> \notin RootCells
<1>1. 0 \notin Node /\ Node \subseteq Nat BY ListAssumption DEF Node
<1>2. HeadCell # TailCell BY DEF HeadCell, TailCell
<1>3. \A o \in Node : RootCells \cap NodeCells(o) = {}
  BY <1>1 DEF RootCells, HeadCell, TailCell, NodeCells
<1>4. \A o, q \in Node : o # q => NodeCells(o) \cap NodeCells(q) = {}
  BY DEF NodeCells
<1>5. \A o, q : /\ <<o, "key">> # <<q, "value">> /\ <<o, "key">> # <<q, "next">>
                /\ <<o, "value">> # <<q, "next">>
  OBVIOUS
<1>6. \A o \in Node :
        /\ <<o, "key">> \notin Pointer /\ <<o, "value">> \notin Pointer
        /\ <<o, "next">> \notin RootCells
  BY <1>1, <1>5 DEF Pointer, RootCells, HeadCell, TailCell
<1> QED BY <1>1, <1>2, <1>3, <1>4, <1>5, <1>6

LEMMA Contents ==
  /\ Zero \in Value /\ Wild \in Value /\ Torn \in Value /\ Node \subseteq Value
  /\ Key \subseteq Value /\ Val \subseteq Value
  /\ Zero \notin Node /\ Wild \notin Node /\ Absent \notin Value /\ MaxNode \in Nat
  /\ Node = 1..MaxNode
BY ListAssumption DEF ListValue, Node

LEMMA Media ==
  ASSUME CallInv
  PROVE  \/ Volatile(cls) /\ cls.medium \notin {"pmem", "tx"}
         \/ ~Volatile(cls) /\ cls.medium = "pmem"
         \/ ~Volatile(cls) /\ cls.medium = "tx"
BY StoredsAssumption DEF CallInv, CallTypeOK, Volatile

LEMMA Leading ==
  /\ Node \subseteq LeadsTo /\ Zero \in LeadsTo /\ Garbage \subseteq LeadsTo
  /\ LeadsTo \subseteq Value /\ Garbage \subseteq Value /\ Garbage \cap Node = {}
BY Contents DEF LeadsTo, Garbage

-----------------------------------------------------------------------------
(***************************************************************************)
(* What a traversal meets.                                                 *)
(***************************************************************************)
\* Visit is defined by a recursive function, which exists.
LEMMA VisitIs ==
  /\ Visit[0] = HeadP
  /\ \A i \in 1..MaxNode :
       Visit[i] = IF Visit[i - 1] \in Node THEN mem[<<Visit[i - 1], "next">>]
                  ELSE Visit[i - 1]
<1> DEFINE turn(r) == IF r \in Node THEN mem[<<r, "next">>] ELSE r
           Def(g, m) ==
             g = [i \in 0..m |->
                    IF i = 0 THEN HeadP
                    ELSE IF g[i - 1] \in Node THEN mem[<<g[i - 1], "next">>]
                         ELSE g[i - 1]]
           T == {m \in Nat : \E g : Def(g, m)}
<1>1. 0 \in T
  <2> DEFINE g == [i \in 0..0 |-> HeadP]
  <2>1. \A i \in 0..0 : i = 0 OBVIOUS
  <2>2. Def(g, 0) BY <2>1
  <2> QED BY <2>2
<1>2. ASSUME NEW m \in T PROVE m + 1 \in T
  <2>1. m \in Nat OBVIOUS
  <2>2. PICK g : Def(g, m) OBVIOUS
  <2> DEFINE h == [i \in 0..(m + 1) |-> IF i = 0 THEN HeadP ELSE turn(g[i - 1])]
  <2>3. \A i \in 0..m : g[i] = IF i = 0 THEN HeadP ELSE turn(g[i - 1])
    BY <2>2, Zenon
  <2>4. \A i \in 0..m : i \in 0..(m + 1) BY <2>1
  <2> HIDE DEF turn
  <2>5. \A i \in 0..m : h[i] = g[i] BY <2>3, <2>4, Zenon
  <2>6. \A i \in 0..(m + 1) : i = 0 \/ i - 1 \in 0..m BY <2>1
  <2> DEFINE e == [i \in 0..(m + 1) |-> IF i = 0 THEN HeadP ELSE turn(h[i - 1])]
  <2>7. \A i \in 0..(m + 1) : h[i] = e[i] BY <2>5, <2>6, Zenon
  <2>8. h = [i \in 0..(m + 1) |-> h[i]] OBVIOUS
  <2>9. e = [i \in 0..(m + 1) |-> e[i]] OBVIOUS
  <2>10. h = e
    <3> HIDE DEF h, e
    <3> QED BY <2>7, <2>8, <2>9
  <2>11. e = [i \in 0..(m + 1) |->
                IF i = 0 THEN HeadP
                ELSE IF h[i - 1] \in Node THEN mem[<<h[i - 1], "next">>]
                     ELSE h[i - 1]]
    BY DEF turn
  <2>12. Def(h, m + 1)
    <3> HIDE DEF h, e
    <3> QED BY <2>10, <2>11, Zenon
  <2> HIDE DEF Def, h
  <2> QED BY <2>1, <2>12
<1>3. T = Nat
  <2>1. T \subseteq Nat OBVIOUS
  <2> HIDE DEF T
  <2> QED BY <1>1, <1>2, <2>1, NumbersByInduction
<1>4. \E g : Def(g, MaxNode)
  <2>1. MaxNode \in T BY <1>3, Contents
  <2> QED BY <2>1, Zenon
<1> DEFINE G == CHOOSE g : Def(g, MaxNode)
<1>5. Def(G, MaxNode) BY <1>4, Zenon
<1>6. Visit = G BY DEF Visit
<1> HIDE DEF G
<1>7. \A i \in 0..MaxNode : G[i] = IF i = 0 THEN HeadP ELSE turn(G[i - 1])
  BY <1>5, Zenon
<1> HIDE DEF turn
<1>8. 0 \in 0..MaxNode /\ \A i \in 1..MaxNode : i \in 0..MaxNode /\ i # 0
  BY Contents
<1>9. /\ G[0] = HeadP /\ \A i \in 1..MaxNode : G[i] = turn(G[i - 1])
  BY <1>7, <1>8, Zenon
<1> QED BY <1>6, <1>9 DEF turn

\* It ends with what is no node.
LEMMA VisitStays ==
  ASSUME NEW m \in 0..MaxNode, NEW n \in 0..MaxNode, m <= n, Visit[m] \notin Node
  PROVE  Visit[n] = Visit[m]
<1> DEFINE w == Visit
           T == {i \in Nat : i \in 0..MaxNode /\ m <= i => w[i] = w[m]}
<1>1. \A i \in 1..MaxNode : w[i - 1] \notin Node => w[i] = w[i - 1] BY VisitIs
<1>2. w[m] \notin Node OBVIOUS
<1> HIDE DEF w
<1>3. 0 \in T OBVIOUS
<1>4. ASSUME NEW i \in T PROVE i + 1 \in T
  <2> SUFFICES ASSUME i + 1 \in 0..MaxNode, m <= i + 1 PROVE w[i + 1] = w[m]
    OBVIOUS
  <2>1. i \in 0..MaxNode /\ i + 1 \in 1..MaxNode /\ (i + 1) - 1 = i
    BY Contents
  <2>2. CASE m = i + 1 BY <2>2
  <2>3. CASE m # i + 1
    <3>1. m <= i BY <2>3, Contents
    <3>2. w[i] = w[m] BY <2>1, <3>1
    <3> QED BY <1>1, <1>2, <2>1, <3>2
  <2> QED BY <2>2, <2>3
<1>5. T = Nat
  <2>1. T \subseteq Nat OBVIOUS
  <2> HIDE DEF T
  <2> QED BY <1>3, <1>4, <2>1, NumbersByInduction
<1>6. n \in T
  <2> HIDE DEF T
  <2> QED BY <1>5, Contents
<1> QED BY <1>6 DEF w

\* The nodes a traversal meets come first.
LEMMA VisitFirst ==
  LET n == Cardinality({i \in 0..MaxNode : Visit[i] \in Node}) IN
  n \in 0..(MaxNode + 1) /\ \A i \in 0..MaxNode : Visit[i] \in Node <=> i < n
<1> DEFINE w == Visit  S == {i \in 0..MaxNode : w[i] \in Node}  n == Cardinality(S)
<1>1. \A i, j \in 0..MaxNode : i <= j /\ w[j] \in Node => w[i] \in Node
  BY VisitStays
<1> HIDE DEF w
<1>2. CASE S = {}
  <2>1. n = 0 BY <1>2, FS_EmptySet
  <2>2. \A i \in 0..MaxNode : w[i] \notin Node BY <1>2
  <2>3. 0 \in 0..(MaxNode + 1) /\ \A i \in 0..MaxNode : ~(i < 0) BY Contents
  <2> HIDE DEF n
  <2>4. n \in 0..(MaxNode + 1) /\ \A i \in 0..MaxNode : w[i] \in Node <=> i < n
    BY <2>1, <2>2, <2>3
  <2> QED BY <2>4, Zenon DEF w, n, S
<1>3. CASE S # {}
  <2>1. PICK m \in S : \A i \in S : m >= i
    <3>1. S \in SUBSET (0..MaxNode) OBVIOUS
    <3>2. Max(S) \in S /\ \A i \in S : Max(S) >= i
      BY <1>3, <3>1, MaxIs, Contents, Zenon
    <3> QED BY <3>2
  <2>2. m \in 0..MaxNode /\ w[m] \in Node BY <2>1
  <2>3. S = 0..m
    <3>1. S \subseteq 0..m BY <2>1, <2>2, Contents
    <3>2. \A i \in 0..m : i \in 0..MaxNode /\ i <= m BY <2>2, Contents
    <3>3. 0..m \subseteq S BY <1>1, <2>2, <3>2
    <3> QED BY <3>1, <3>3
  <2>4. Cardinality(0..m) = IF 0 > m THEN 0 ELSE m - 0 + 1
    BY <2>2, FS_Interval
  <2>5. n = m + 1
    <3>1. n = Cardinality(0..m) BY <2>3, Zenon
    <3> HIDE DEF n, S
    <3> QED BY <2>2, <2>4, <3>1
  <2>6. \A i \in 0..MaxNode : w[i] \in Node <=> i \in S OBVIOUS
  <2>7. \A i \in 0..MaxNode : w[i] \in Node <=> i < m + 1
    <3> HIDE DEF S
    <3> QED BY <2>2, <2>3, <2>6
  <2> HIDE DEF S, n
  <2>8. n \in 0..(MaxNode + 1) /\ \A i \in 0..MaxNode : w[i] \in Node <=> i < n
    BY <2>2, <2>5, <2>7, Contents
  <2> QED BY <2>8, Zenon DEF w, n, S
<1> QED BY <1>2, <1>3

\* destroy frees nodes.
LEMMA ChainTyped ==
  Chain \in Seq(Node) /\ Len(Chain) \in Nat /\ \A i \in 1..Len(Chain) : Chain[i] \in Node
<1> DEFINE n == Cardinality({i \in 0..MaxNode : Visit[i] \in Node})
<1>1. n \in 0..(MaxNode + 1) /\ \A i \in 0..MaxNode : Visit[i] \in Node <=> i < n
  BY VisitFirst
<1>2. Chain = [i \in 1..n |-> Visit[i - 1]] BY DEF Chain
<1> HIDE DEF n
<1>3. \A i \in 1..n : i - 1 \in 0..MaxNode /\ i - 1 < n BY <1>1, Contents
<1>4. \A i \in 1..n : Visit[i - 1] \in Node BY <1>1, <1>3
<1>5. n \in Nat BY <1>1
<1>6. Chain \in Seq(Node) BY <1>2, <1>4, <1>5
<1> QED BY <1>6, LenProperties

-----------------------------------------------------------------------------
(***************************************************************************)
(* The list in memory.                                                     *)
(***************************************************************************)
\* The nodes ns are those of the list in memory.
Held(ns) ==
  ns \in Seq(Node) /\ Linked(mem, ns) /\ Ended(mem, ns) /\ Keyed(mem, ns)

LEMMA Distinct ==
  ASSUME NEW F, NEW ns \in Seq(Node), Keyed(F, ns)
  PROVE  /\ Len(ns) \in Nat /\ DOMAIN ns = 1..Len(ns)
         /\ \A n \in DOMAIN ns : ns[n] \in Node
         /\ \A m, n \in DOMAIN ns : ns[m] = ns[n] => m = n
<1>1. /\ Len(ns) \in Nat /\ DOMAIN ns = 1..Len(ns)
      /\ \A n \in DOMAIN ns : ns[n] \in Node
  BY LenProperties
<1>2. ASSUME NEW m \in DOMAIN ns, NEW n \in DOMAIN ns, ns[m] = ns[n] PROVE m = n
  <2>1. KeyIn(F, ns[m]) = KeyIn(F, ns[n]) BY <1>2
  <2> QED BY <2>1, Zenon DEF Keyed
<1> QED BY <1>1, <1>2

\* Only so many nodes fit the heap.
LEMMA Fits ==
  ASSUME NEW F, NEW ns \in Seq(Node), Keyed(F, ns) PROVE Len(ns) <= MaxNode
<1>1. /\ Len(ns) \in Nat /\ DOMAIN ns = 1..Len(ns)
      /\ \A n \in DOMAIN ns : ns[n] \in Node
      /\ \A m, n \in DOMAIN ns : ns[m] = ns[n] => m = n
  BY Distinct, Zenon
<1>2. ns \in [1..Len(ns) -> Node] BY LenProperties
<1>3. ns \in Injection(1..Len(ns), Node)
  BY <1>1, <1>2 DEF Injection, IsInjective
<1>4. IsFiniteSet(Node) /\ Cardinality(Node) = MaxNode
  <2>1. /\ IsFiniteSet(1..MaxNode)
        /\ Cardinality(1..MaxNode) = IF 1 > MaxNode THEN 0 ELSE MaxNode - 1 + 1
    BY Contents, FS_Interval
  <2>2. (IF 1 > MaxNode THEN 0 ELSE MaxNode - 1 + 1) = MaxNode BY Contents
  <2> QED BY <2>1, <2>2, Contents, Zenon
<1>5. Cardinality(1..Len(ns)) = Len(ns)
  <2>1. Cardinality(1..Len(ns)) = IF 1 > Len(ns) THEN 0 ELSE Len(ns) - 1 + 1
    BY <1>1, FS_Interval
  <2> QED BY <1>1, <2>1
<1>6. Cardinality(1..Len(ns)) <= Cardinality(Node)
  BY <1>3, <1>4, FS_Injection, Zenon
<1> QED BY <1>4, <1>5, <1>6

\* The nodes ns are those a traversal goes through, wherever the tail points to
\* and whatever is in the nodes that are free.
Met(ns) ==
  /\ ns \in Seq(Node) /\ Keyed(mem, ns)
  /\ HeadP = IF ns = <<>> THEN Zero ELSE ns[1]
  /\ \A n \in DOMAIN ns : n < Len(ns) => NextIn(mem, ns[n]) = ns[n + 1]
  /\ ns # <<>> => NextIn(mem, ns[Len(ns)]) \notin Node

LEMMA ListMet ==
  ASSUME NEW F, NEW ns \in Seq(Node), Linked(F, ns), Ended(F, ns), Keyed(F, ns),
         F[HeadCell] = HeadP,
         \A n \in DOMAIN ns : \A c \in NodeCells(ns[n]) : F[c] = mem[c]
  PROVE  Met(ns)
<1>1. /\ Len(ns) \in Nat /\ DOMAIN ns = 1..Len(ns)
      /\ \A n \in DOMAIN ns : ns[n] \in Node
      /\ \A m, n \in DOMAIN ns : ns[m] = ns[n] => m = n
  BY Distinct, Zenon
<1>2. \A n \in DOMAIN ns : /\ NextIn(F, ns[n]) = NextIn(mem, ns[n])
                           /\ KeyIn(F, ns[n]) = KeyIn(mem, ns[n])
  BY <1>1, Cells DEF NextIn, KeyIn
<1>3. Keyed(mem, ns) BY <1>2, Zenon DEF Keyed
<1>4. ASSUME ns # <<>> PROVE NextIn(mem, ns[Len(ns)]) \notin Node
  <2>1. Len(ns) # 0 BY <1>1, <1>4, EmptySeq
  <2>2. Len(ns) \in DOMAIN ns BY <1>1, <2>1
  <2>3. \A n \in DOMAIN ns : n < Len(ns) => ns[n] # ns[Len(ns)] BY <1>1, <2>2
  <2>4. NextIn(F, ns[Len(ns)]) \notin Node BY <1>1, <2>2, <2>3 DEF Ended
  <2> QED BY <1>2, <2>2, <2>4
<1> QED BY <1>2, <1>3, <1>4 DEF Met, Linked

LEMMA HeldMet == ASSUME NEW ns, Held(ns) PROVE Met(ns)
BY ListMet DEF Held, Linked, HeadP

\* A traversal meets the nodes of the list, and then nothing.
LEMMA VisitMeets ==
  ASSUME NEW ns, Met(ns), NEW i \in 0..MaxNode
  PROVE  /\ i < Len(ns) => Visit[i] = ns[i + 1]
         /\ i >= Len(ns) => Visit[i] \notin Node
<1>1. /\ Len(ns) \in Nat /\ DOMAIN ns = 1..Len(ns)
      /\ \A n \in DOMAIN ns : ns[n] \in Node
      /\ \A m, n \in DOMAIN ns : ns[m] = ns[n] => m = n
  BY Distinct, Zenon DEF Met
<1>2. Len(ns) <= MaxNode BY Fits DEF Met
<1>3. /\ Visit[0] = HeadP
      /\ \A j \in 1..MaxNode : Visit[j - 1] \in Node =>
           Visit[j] = mem[<<Visit[j - 1], "next">>]
  BY VisitIs
<1>4. /\ HeadP = IF ns = <<>> THEN Zero ELSE ns[1]
      /\ \A n \in DOMAIN ns : n < Len(ns) => mem[<<ns[n], "next">>] = ns[n + 1]
  BY DEF Met, NextIn
<1> DEFINE w == Visit
           T == {j \in Nat : j < Len(ns) => w[j] = ns[j + 1]}
<1> HIDE DEF w
<1>5. 0 \in T
  <2> SUFFICES ASSUME 0 < Len(ns) PROVE w[0] = ns[1] BY DEF T
  <2>1. ns # <<>> OBVIOUS
  <2> QED BY <1>3, <1>4, <2>1 DEF w
<1>6. ASSUME NEW j \in T PROVE j + 1 \in T
  <2> SUFFICES ASSUME j + 1 < Len(ns) PROVE w[j + 1] = ns[(j + 1) + 1]
    OBVIOUS
  <2>1. /\ j \in Nat /\ j < Len(ns) /\ j + 1 \in 1..MaxNode /\ (j + 1) - 1 = j
        /\ j + 1 \in DOMAIN ns
    BY <1>1, <1>2, Contents
  <2>2. w[j] = ns[j + 1] /\ w[j] \in Node BY <1>1, <2>1
  <2>3. w[j + 1] = mem[<<w[j], "next">>] BY <1>3, <2>1, <2>2 DEF w
  <2> QED BY <1>4, <2>1, <2>2, <2>3
<1>7. T = Nat
  <2>1. T \subseteq Nat OBVIOUS
  <2> HIDE DEF T
  <2> QED BY <1>5, <1>6, <2>1, NumbersByInduction
<1>8. \A j \in 0..MaxNode : j < Len(ns) => Visit[j] = ns[j + 1]
  <2>1. \A j \in 0..MaxNode : j \in T
    <3> HIDE DEF T
    <3> QED BY <1>7, Contents
  <2> QED BY <2>1 DEF w
<1>9. Visit[Len(ns)] \notin Node
  <2>1. CASE Len(ns) = 0
    <3>1. ns = <<>> BY <1>1, <2>1, EmptySeq, LenProperties DEF Met
    <3> QED BY <1>3, <1>4, <2>1, <3>1, Contents
  <2>2. CASE Len(ns) # 0
    <3> DEFINE l == Len(ns)
    <3>1. l - 1 \in 0..MaxNode /\ l \in 1..MaxNode /\ l \in DOMAIN ns
          /\ l - 1 < l /\ (l - 1) + 1 = l
      BY <1>1, <1>2, <2>2, Contents
    <3>2. Visit[l - 1] = ns[l] BY <1>8, <3>1
    <3>3. ns[l] \in Node BY <1>1, <3>1
    <3>4. Visit[l] = mem[<<ns[l], "next">>] BY <1>3, <3>1, <3>2, <3>3
    <3>5. NextIn(mem, ns[l]) \notin Node BY <2>2, EmptySeq DEF Met
    <3> QED BY <3>4, <3>5 DEF NextIn
  <2> QED BY <2>1, <2>2
<1>10. i >= Len(ns) => Visit[i] = Visit[Len(ns)]
  <2>1. Len(ns) \in 0..MaxNode BY <1>1, <1>2, Contents
  <2> QED BY <1>9, <2>1, VisitStays
<1> QED BY <1>8, <1>9, <1>10

\* A lookup finds the node with the key.
LEMMA FindIs ==
  ASSUME NEW ns, Met(ns), NEW k
  PROVE  /\ \A n \in DOMAIN ns : KeyIn(mem, ns[n]) = k => FindNode(k) = ns[n]
         /\ (\A n \in DOMAIN ns : KeyIn(mem, ns[n]) # k) => FindNode(k) \notin Node
<1> DEFINE w == Visit
           hits == {i \in 0..MaxNode : w[i] \in Node /\ mem[<<w[i], "key">>] = k}
<1>1. /\ Len(ns) \in Nat /\ DOMAIN ns = 1..Len(ns)
      /\ \A n \in DOMAIN ns : ns[n] \in Node
  BY Distinct, Zenon DEF Met
<1>2. Len(ns) <= MaxNode BY Fits DEF Met
<1>3. \A i \in 0..MaxNode : /\ i < Len(ns) => w[i] = ns[i + 1]
                            /\ i >= Len(ns) => w[i] \notin Node
  BY VisitMeets
<1>4. FindNode(k) = IF hits # {} THEN w[Min(hits)] ELSE w[MaxNode]
  BY DEF FindNode
<1> HIDE DEF w
<1>5. \A i \in hits : /\ i \in 0..MaxNode /\ i + 1 \in DOMAIN ns
                      /\ w[i] = ns[i + 1] /\ KeyIn(mem, ns[i + 1]) = k
  <2> TAKE i \in hits
  <2>1. i \in 0..MaxNode /\ w[i] \in Node /\ mem[<<w[i], "key">>] = k OBVIOUS
  <2>2. i < Len(ns) BY <1>1, <1>3, <2>1, Contents
  <2>3. i + 1 \in DOMAIN ns BY <1>1, <2>1, <2>2, Contents
  <2> QED BY <1>3, <2>1, <2>2, <2>3 DEF KeyIn
<1>6. ASSUME NEW n \in DOMAIN ns, KeyIn(mem, ns[n]) = k
      PROVE  FindNode(k) = ns[n]
  <2>1. n - 1 \in 0..MaxNode /\ n - 1 < Len(ns) /\ (n - 1) + 1 = n
    BY <1>1, <1>2, Contents
  <2>2. w[n - 1] = ns[n] BY <1>3, <2>1
  <2>3. n - 1 \in hits BY <1>1, <1>6, <2>1, <2>2 DEF KeyIn
  <2>4. Min(hits) \in hits
    <3>1. hits \in SUBSET Nat /\ hits # {} BY <2>3, Contents
    <3> HIDE DEF hits
    <3> QED BY <3>1, MinIs
  <2> HIDE DEF hits
  <2>5. /\ Min(hits) + 1 \in DOMAIN ns /\ KeyIn(mem, ns[Min(hits) + 1]) = k
        /\ w[Min(hits)] = ns[Min(hits) + 1]
    BY <1>5, <2>4
  <2>6. Min(hits) + 1 = n
    BY <1>6, <2>5, Zenon DEF Met, Keyed
  <2> QED BY <1>4, <2>3, <2>5, <2>6
<1>7. ASSUME \A n \in DOMAIN ns : KeyIn(mem, ns[n]) # k
      PROVE  FindNode(k) \notin Node
  <2>1. hits = {} BY <1>5, <1>7
  <2>2. MaxNode \in 0..MaxNode /\ MaxNode >= Len(ns) BY <1>1, <1>2, Contents
  <2>3. w[MaxNode] \notin Node BY <1>3, <2>2
  <2> HIDE DEF hits
  <2> QED BY <1>4, <2>1, <2>3
<1> QED BY <1>6, <1>7

\* What a walk through the list shows is what is wanted.
LEMMA ListedIs ==
  ASSUME NEW ns, Met(ns), NEW want, Shown(mem, ns, want), NEW k \in Key
  PROVE  Listed(k) \in want[k]
<1>1. CASE \E n \in DOMAIN ns : KeyIn(mem, ns[n]) = k
  <2>1. PICK n \in DOMAIN ns : KeyIn(mem, ns[n]) = k BY <1>1
  <2>2. FindNode(k) = ns[n] BY <2>1, FindIs
  <2>3. ns[n] \in Node BY LenProperties DEF Met
  <2>4. mem[<<ns[n], "value">>] \in want[k] BY <2>1 DEF Shown
  <2> QED BY <2>1, <2>2, <2>3, <2>4 DEF Listed, KeyIn
<1>2. CASE \A n \in DOMAIN ns : KeyIn(mem, ns[n]) # k
  <2>1. FindNode(k) \notin Node BY <1>2, FindIs
  <2>2. Absent \in want[k] BY <1>2, Zenon DEF Shown
  <2> QED BY <2>1, <2>2 DEF Listed
<1> QED BY <1>1, <1>2

LEMMA ReachableIs ==
  ASSUME NEW ns, Held(ns) PROVE Reachable = {ns[n] : n \in DOMAIN ns}
<1> DEFINE w == Visit
<1>1. /\ Len(ns) \in Nat /\ DOMAIN ns = 1..Len(ns)
      /\ \A n \in DOMAIN ns : ns[n] \in Node
  BY Distinct, Zenon DEF Held
<1>2. Len(ns) <= MaxNode BY Fits DEF Held
<1>3. \A i \in 0..MaxNode : /\ i < Len(ns) => w[i] = ns[i + 1]
                            /\ i >= Len(ns) => w[i] \notin Node
  BY VisitMeets, HeldMet
<1>4. Reachable = {w[i] : i \in 0..MaxNode} \cap Node BY DEF Reachable
<1> HIDE DEF w
<1>5. \A i \in 0..MaxNode : w[i] \in Node => i + 1 \in DOMAIN ns /\ w[i] = ns[i + 1]
  BY <1>1, <1>2, <1>3, Contents
<1>6. \A n \in DOMAIN ns : n - 1 \in 0..MaxNode /\ w[n - 1] = ns[n]
  <2> TAKE n \in DOMAIN ns
  <2>1. n - 1 \in 0..MaxNode /\ n - 1 < Len(ns) /\ (n - 1) + 1 = n
    BY <1>1, <1>2, Contents
  <2> QED BY <1>3, <2>1
<1> QED BY <1>1, <1>4, <1>5, <1>6

\* Which memory is looked at matters only in the root and in next fields, and in
\* the nodes of the list.
LEMMA SameList ==
  ASSUME NEW F, NEW G, NEW ns \in Seq(Node), NEW want,
         \A c \in Cell : F[c] = G[c],
         Linked(F, ns), Ended(F, ns), Keyed(F, ns), Shown(F, ns, want)
  PROVE  Linked(G, ns) /\ Ended(G, ns) /\ Keyed(G, ns) /\ Shown(G, ns, want)
<1>1. \A n \in DOMAIN ns : ns[n] \in Node BY LenProperties
<1>2. F[HeadCell] = G[HeadCell] /\ F[TailCell] = G[TailCell] BY Cells
<1>3. \A o \in Node : /\ KeyIn(F, o) = KeyIn(G, o) /\ NextIn(F, o) = NextIn(G, o)
                      /\ F[<<o, "value">>] = G[<<o, "value">>]
  BY Cells DEF KeyIn, NextIn
<1>4. Linked(G, ns) BY <1>1, <1>2, <1>3 DEF Linked
<1>5. Ended(G, ns) BY <1>3, Zenon DEF Ended
<1>6. Keyed(G, ns) BY <1>1, <1>3, Zenon DEF Keyed
<1>7. Shown(G, ns, want) BY <1>1, <1>3, Zenon DEF Shown
<1> QED BY <1>4, <1>5, <1>6, <1>7

\* With no program to perform, what is wanted is there.
LEMMA HeldNow ==
  ASSUME NEW m, NEW A, NEW want, HoldsIn(m, A, <<>>, want)
  PROVE  \E ns \in Seq(Node) :
           /\ Linked(m, ns) /\ Ended(m, ns) /\ Keyed(m, ns) /\ Shown(m, ns, want)
           /\ KeptIn(ns, A)
<1>1. PICK F, ns :
        /\ ns \in Seq(Node) /\ Yields(<<>>, m, F)
        /\ Linked(F, ns) /\ Ended(F, ns) /\ Keyed(F, ns) /\ Shown(F, ns, want)
        /\ KeptIn(ns, A \cup ToAllocate(<<>>))
  BY Zenon DEF HoldsIn
<1>2. \A c \in Cell : F[c] = m[c] BY <1>1 DEF Yields
<1>3. Linked(m, ns) /\ Ended(m, ns) /\ Keyed(m, ns) /\ Shown(m, ns, want)
  BY <1>1, <1>2, SameList, Zenon
<1>4. ToAllocate(<<>>) = {} BY DEF ToAllocate
<1>5. KeptIn(ns, A \cup {}) BY <1>1, <1>4
<1>6. KeptIn(ns, A) BY <1>5 DEF KeptIn
<1> QED BY <1>1, <1>3, <1>6

-----------------------------------------------------------------------------
(***************************************************************************)
(* What the programs consist of, in every process.                         *)
(***************************************************************************)
\* The steps that leave pointers where pointers were; those of init, insert and
\* update free nothing, and lead the root to a node or nowhere.
Wiper ==
  {u \in Step : \A c \in Pointer \cap Assigns(u) : Assigned(u, c) \in LeadsTo}

Keeper ==
  {u \in Wiper : /\ Releases(u) = {}
                 /\ \A c \in RootCells \cap Assigns(u) :
                      Assigned(u, c) \in Node \cup {Zero}}

LEMMA WiperIs ==
  ASSUME NEW p \in Seq(Wiper)
  PROVE  p \in Seq(Step) /\ StoresOnly(p, Pointer, LeadsTo)
<1>1. \A j \in DOMAIN p : p[j] \in Wiper BY LenProperties
<1>2. p \in Seq(Step)
  <2>1. Wiper \subseteq Step BY DEF Wiper
  <2> QED BY <2>1
<1> QED BY <1>1, <1>2 DEF Wiper, StoresOnly

LEMMA KeeperIs ==
  ASSUME NEW p \in Seq(Keeper)
  PROVE  /\ p \in Seq(Wiper) /\ p \in Seq(Step) /\ FreesNothing(p)
         /\ StoresOnly(p, Pointer, LeadsTo)
         /\ StoresOnly(p, RootCells, Node \cup {Zero})
<1>1. \A j \in DOMAIN p : p[j] \in Keeper BY LenProperties
<1>2. p \in Seq(Wiper)
  <2>1. Keeper \subseteq Wiper BY DEF Keeper
  <2> QED BY <2>1
<1>3. FreesNothing(p) BY <1>1 DEF Keeper, FreesNothing
<1>4. StoresOnly(p, RootCells, Node \cup {Zero})
  BY <1>1 DEF Keeper, StoresOnly
<1> QED BY <1>2, <1>3, <1>4, WiperIs

LEMMA Steps ==
  /\ \A C \in SUBSET Cell : /\ Fl(C) \in Keeper /\ Al(C) \in Keeper
                            /\ Sn(C) \in Keeper /\ TAl(C) \in Keeper
                            /\ Fr(C) \in Wiper /\ TFr(C) \in Wiper
                            /\ FrIn(C, TailCell) \in Wiper
  /\ Bg \in Keeper /\ Cm \in Keeper /\ Keeper \subseteq Wiper
  /\ \A o \in Node, v \in Value : /\ St(<<o, "key">>, v) \in Keeper
                                  /\ St(<<o, "value">>, v) \in Keeper
  /\ \A o \in Node, p \in LeadsTo : St(<<o, "next">>, p) \in Keeper
  /\ \A p \in Node \cup {Zero} : /\ St(HeadCell, p) \in Keeper
                                 /\ St(TailCell, p) \in Keeper
  /\ \A p \in LeadsTo : St(HeadCell, p) \in Wiper
<1>1. ASSUME NEW C \in SUBSET Cell
      PROVE  /\ Fl(C) \in Keeper /\ Al(C) \in Keeper
             /\ Sn(C) \in Keeper /\ TAl(C) \in Keeper
             /\ Fr(C) \in Wiper /\ TFr(C) \in Wiper
             /\ FrIn(C, TailCell) \in Wiper
  <2>1. /\ Fl(C) \in Step /\ Al(C) \in Step /\ Sn(C) \in Step
        /\ TAl(C) \in Step /\ Fr(C) \in Step /\ TFr(C) \in Step
        /\ FrIn(C, TailCell) \in Step
    BY StepKinds, Cells
  <2>2. /\ Assigns(Fl(C)) = {} /\ Assigns(Al(C)) = {} /\ Assigns(Sn(C)) = {}
        /\ Assigns(TAl(C)) = {} /\ Assigns(Fr(C)) = {} /\ Assigns(TFr(C)) = {}
        /\ Assigns(FrIn(C, TailCell)) = {TailCell}
        /\ Assigned(FrIn(C, TailCell), TailCell) = Zero
    BY StepAssigns
  <2>3. /\ Releases(Fl(C)) = {} /\ Releases(Al(C)) = {} /\ Releases(Sn(C)) = {}
        /\ Releases(TAl(C)) = {}
    BY DEF Releases, Fl, Al, Sn, TAl
  <2>4. Zero \in LeadsTo BY Leading
  <2> HIDE DEF Step, Fl, Al, Sn, TAl, Fr, TFr, FrIn, TailCell
  <2> QED BY <2>1, <2>2, <2>3, <2>4 DEF Keeper, Wiper
<1>2. Bg \in Keeper /\ Cm \in Keeper
  <2>1. Releases(Bg) = {} /\ Releases(Cm) = {} BY DEF Releases, Bg, Cm
  <2>2. Bg \in Step /\ Cm \in Step BY StepKinds
  <2>3. Assigns(Bg) = {} /\ Assigns(Cm) = {} BY StepAssigns
  <2> QED BY <2>1, <2>2, <2>3 DEF Keeper, Wiper
<1>3. Keeper \subseteq Wiper BY DEF Keeper
<1>4. ASSUME NEW c \in Cell, NEW v \in Value
      PROVE  /\ St(c, v) \in Step /\ Releases(St(c, v)) = {}
             /\ Assigns(St(c, v)) = {c} /\ Assigned(St(c, v), c) = v
  BY StepKinds, StepAssigns DEF Releases, St
<1>5. ASSUME NEW c \in Cell, NEW v \in Value, c \in Pointer => v \in LeadsTo
      PROVE  /\ St(c, v) \in Wiper
             /\ (c \in RootCells => v \in Node \cup {Zero}) => St(c, v) \in Keeper
  BY <1>4, <1>5 DEF Keeper, Wiper
<1>6. ASSUME NEW o \in Node, NEW v \in Value
      PROVE  St(<<o, "key">>, v) \in Keeper /\ St(<<o, "value">>, v) \in Keeper
  <2>1. <<o, "key">> \in Cell /\ <<o, "value">> \in Cell BY Cells
  <2>2. /\ <<o, "key">> \notin Pointer /\ <<o, "value">> \notin Pointer
        /\ <<o, "key">> \notin RootCells /\ <<o, "value">> \notin RootCells
    BY Fields, Cells
  <2> QED BY <1>5, <2>1, <2>2
<1>7. ASSUME NEW o \in Node, NEW p \in LeadsTo PROVE St(<<o, "next">>, p) \in Keeper
  <2>1. <<o, "next">> \in Cell /\ <<o, "next">> \notin RootCells
    BY Fields, Cells
  <2> QED BY <1>5, <2>1, Leading
<1>8. ASSUME NEW p \in Node \cup {Zero}
      PROVE  St(HeadCell, p) \in Keeper /\ St(TailCell, p) \in Keeper
  <2>1. p \in LeadsTo /\ p \in Value BY Leading
  <2> QED BY <1>5, <2>1, Cells
<1>9. ASSUME NEW p \in LeadsTo PROVE St(HeadCell, p) \in Wiper
  BY <1>5, Cells, Leading
<1> QED BY <1>1, <1>2, <1>3, <1>6, <1>7, <1>8, <1>9

LEMMA CopyKeeps ==
  ASSUME NEW o \in Node, NEW v \in Value
  PROVE  Cp(<<o, "value">>, v) \in Seq(Keeper)
<1>1. St(<<o, "value">>, Torn) \in Keeper /\ St(<<o, "value">>, v) \in Keeper
  BY Steps, Contents
<1> QED BY <1>1 DEF Cp

LEMMA InitKeeps == init \in Seq(Keeper) /\ ClearRoot \in Seq(Keeper)
<1>1. ClearRoot \in Seq(Keeper)
  <2>1. St(HeadCell, Zero) \in Keeper /\ St(TailCell, Zero) \in Keeper BY Steps
  <2> QED BY <2>1 DEF ClearRoot
<1> QED BY <1>1 DEF init

LEMMA UpdateKeeps ==
  ASSUME CallInv, NEW o \in Node, NEW v \in Val PROVE update(o, v) \in Seq(Keeper)
<1> DEFINE c == Cp(<<o, "value">>, v)
<1>1. c \in Seq(Keeper) BY CopyKeeps, Contents
<1> HIDE DEF c
<1>2. <<Fl({<<o, "value">>})>> \in Seq(Keeper) /\ <<Cm>> \in Seq(Keeper)
      /\ <<Bg, Sn(NodeCells(o))>> \in Seq(Keeper)
  <2>1. {<<o, "value">>} \in SUBSET Cell /\ NodeCells(o) \in SUBSET Cell BY Cells
  <2>2. /\ Fl({<<o, "value">>}) \in Keeper /\ Cm \in Keeper
        /\ Bg \in Keeper /\ Sn(NodeCells(o)) \in Keeper
    BY <2>1, Steps
  <2> QED BY <2>2
<1>3. /\ c \o <<Fl({<<o, "value">>})>> \in Seq(Keeper)
      /\ <<Bg, Sn(NodeCells(o))>> \o c \o <<Cm>> \in Seq(Keeper)
  BY <1>1, <1>2, ConcatProperties
<1>4. /\ Volatile(cls) => update(o, v) = c
      /\ cls.medium = "pmem" => update(o, v) = c \o <<Fl({<<o, "value">>})>>
      /\ cls.medium = "tx" => update(o, v) = <<Bg, Sn(NodeCells(o))>> \o c \o <<Cm>>
  BY DEF c, update, linkedlist_dram_update, linkedlist_pmem_update,
         linkedlist_pmem_tx_update, CpFl, Volatile
<1> QED BY <1>1, <1>3, <1>4, Media

-----------------------------------------------------------------------------
(***************************************************************************)
(* The programs of insert, update and destroy.                             *)
(***************************************************************************)
\* The field that leads to the new node, besides the tail pointer, and the part
\* of the list that is snapshotted and persisted with it.
Link == IF HeadP = Zero THEN HeadCell ELSE <<TailP, "next">>
Joint == IF HeadP = Zero THEN RootCells ELSE NodeCells(TailP)
Flushed == IF HeadP = Zero THEN RootCells ELSE {TailCell}

LEMMA LinkIs ==
  ASSUME HeadP # Zero => TailP \in Node
  PROVE  /\ Link \in Cell /\ Link # TailCell
         /\ \A o : Link # <<o, "key">> /\ Link # <<o, "value">>
         /\ Joint \in SUBSET Cell /\ Flushed \in SUBSET Cell /\ Link \in Joint
         /\ \A o \in Node : St(Link, o) \in Keeper
<1>1. CASE HeadP = Zero
  <2>1. Link = HeadCell /\ Joint = RootCells /\ Flushed = RootCells
    BY <1>1 DEF Link, Joint, Flushed
  <2>2. \A o : HeadCell # <<o, "key">> /\ HeadCell # <<o, "value">>
    BY DEF HeadCell
  <2>3. HeadCell \in Cell /\ RootCells \in SUBSET Cell /\ HeadCell \in RootCells
    BY Cells
  <2>4. HeadCell # TailCell BY Fields
  <2>5. \A o \in Node : St(HeadCell, o) \in Keeper BY Steps
  <2> HIDE DEF HeadCell, TailCell, RootCells
  <2> QED BY <2>1, <2>2, <2>3, <2>4, <2>5
<1>2. CASE HeadP # Zero
  <2> DEFINE n == <<TailP, "next">>
  <2>1. Link = n /\ TailP \in Node /\ Joint = NodeCells(TailP)
        /\ Flushed = {TailCell}
    BY <1>2 DEF Link, Joint, Flushed
  <2>2. /\ n \in Cell /\ n \in NodeCells(TailP) /\ TailCell \in Cell
        /\ NodeCells(TailP) \in SUBSET Cell /\ TailCell \in RootCells
    BY <2>1, Cells
  <2>3. n # TailCell BY <2>1, <2>2, Fields
  <2>4. \A o : n # <<o, "key">> /\ n # <<o, "value">> OBVIOUS
  <2>5. \A o \in Node : St(n, o) \in Keeper BY <2>1, Steps, Leading
  <2> HIDE DEF n
  <2> QED BY <2>1, <2>2, <2>3, <2>4, <2>5
<1> QED BY <1>1, <1>2

\* An insert makes the node, copies the value and links it.
LEMMA InsertParts ==
  ASSUME NEW k, NEW v, NEW g
  PROVE  LET o == NewNode  c == Cp(<<o, "value">>, v)  s == St(<<o, "key">>, k)
             y == St(Link, o)  z == St(TailCell, o)  A == NodeCells(o)
         IN
         /\ linkedlist_dram_insert(k, v, g)
              = <<Al(A), St(<<o, "next">>, g), s>> \o c \o <<y, z>>
         /\ linkedlist_pmem_insert(k, v) = <<Al(A), s>> \o c \o <<y, z, Fl(Flushed)>>
         /\ linkedlist_pmem_tx_insert(k, v)
              = <<Bg, TAl(A), s>> \o c \o <<Sn(Joint), y, z>> \o <<Cm>>
<1>1. CASE HeadP = Zero
  BY <1>1 DEF linkedlist_dram_insert, linkedlist_pmem_insert,
              linkedlist_pmem_tx_insert, Link, Joint, Flushed
<1>2. CASE HeadP # Zero
  BY <1>2 DEF linkedlist_dram_insert, linkedlist_pmem_insert,
              linkedlist_pmem_tx_insert, Link, Joint, Flushed
<1> QED BY <1>1, <1>2

LEMMA InsertIs ==
  ASSUME CallInv, NEW k, NEW v, NEW g
  PROVE  /\ Volatile(cls) => insert(k, v, g) = linkedlist_dram_insert(k, v, g)
         /\ cls.medium = "pmem" => insert(k, v, g) = linkedlist_pmem_insert(k, v)
         /\ cls.medium = "tx" => insert(k, v, g) = linkedlist_pmem_tx_insert(k, v)
BY DEF insert, Volatile

\* In every process what insert does leaves the pointers where they may be.
LEMMA InsertKeeps ==
  ASSUME CallInv, HeadP # Zero => TailP \in Node, NewNode \in Node,
         NEW k \in Key, NEW v \in Val, NEW g \in Garbage
  PROVE  insert(k, v, g) \in Seq(Keeper)
<1> DEFINE o == NewNode  c == Cp(<<o, "value">>, v)  s == St(<<o, "key">>, k)
           n == St(<<o, "next">>, g)
           y == St(Link, o)  z == St(TailCell, o)  A == NodeCells(o)
           a1 == <<Al(A), n, s>>  b1 == <<y, z>>
           a2 == <<Al(A), s>>  b2 == <<y, z, Fl(Flushed)>>
           a3 == <<Bg, TAl(A), s>>  b3 == <<Sn(Joint), y, z>>  d == <<Cm>>
<1>1. c \in Seq(Keeper) BY CopyKeeps, Contents
<1>2. /\ Al(A) \in Keeper /\ TAl(A) \in Keeper /\ Bg \in Keeper /\ Cm \in Keeper
      /\ s \in Keeper /\ n \in Keeper /\ z \in Keeper
  <2>1. A \in SUBSET Cell /\ k \in Value /\ g \in LeadsTo
    BY Cells, Contents, Leading
  <2> QED BY <2>1, Steps
<1>3. y \in Keeper /\ Sn(Joint) \in Keeper /\ Fl(Flushed) \in Keeper
  BY LinkIs, Steps
<1>4. /\ linkedlist_dram_insert(k, v, g) = a1 \o c \o b1
      /\ linkedlist_pmem_insert(k, v) = a2 \o c \o b2
      /\ linkedlist_pmem_tx_insert(k, v) = a3 \o c \o b3 \o d
  BY InsertParts, Zenon
<1> HIDE DEF o, c, s, n, y, z, A
<1>5. /\ a1 \in Seq(Keeper) /\ b1 \in Seq(Keeper) /\ a2 \in Seq(Keeper)
      /\ b2 \in Seq(Keeper) /\ a3 \in Seq(Keeper) /\ b3 \in Seq(Keeper)
      /\ d \in Seq(Keeper)
  BY <1>2, <1>3
<1> HIDE DEF a1, b1, a2, b2, a3, b3, d
<1>6. /\ a1 \o c \o b1 \in Seq(Keeper) /\ a2 \o c \o b2 \in Seq(Keeper)
      /\ a3 \o c \o b3 \o d \in Seq(Keeper)
  BY <1>1, <1>5, ConcatProperties
<1> QED BY <1>4, <1>6, InsertIs, Media

\* The memory with the node o for k and v behind the last one.
Grown(o, k, v, g) ==
  [d \in Cell |->
     IF d = TailCell \/ d = Link THEN o
     ELSE IF d = <<o, "next">> THEN g
     ELSE IF d = <<o, "key">> THEN k
     ELSE IF d = <<o, "value">> THEN v ELSE mem[d]]

LEMMA InsertDoes ==
  ASSUME CallInv, HeadP # Zero => TailP \in Node, NewNode \in Node,
         NEW k \in Key, NEW v \in Val, NEW g \in Garbage
  PROVE  LET o == NewNode
             next == IF Volatile(cls) THEN g ELSE mem[<<o, "next">>]
         IN Does(insert(k, v, g), mem, Grown(o, k, v, next), NodeCells(o))
<1> DEFINE o == NewNode  val == <<o, "value">>  key == <<o, "key">>
           nxt == <<o, "next">>
           next == IF Volatile(cls) THEN g ELSE mem[nxt]
           c == Cp(val, v)  s == St(key, k)  n == St(nxt, g)
           y == St(Link, o)  z == St(TailCell, o)  A == NodeCells(o)
           F == Flushed  J == Joint
           m1 == [d \in Cell |-> IF d = key THEN k ELSE IF d = nxt THEN next
                                 ELSE mem[d]]
           m2 == Put(m1, val, v)  G == Grown(o, k, v, next)
<1>1. /\ key \in Cell /\ val \in Cell /\ nxt \in Cell /\ Link \in Cell
      /\ TailCell \in Cell /\ A \in SUBSET Cell /\ F \in SUBSET Cell
      /\ J \in SUBSET Cell
  BY Cells, LinkIs
<1>2. key # val /\ key # nxt /\ val # nxt /\ Link # key /\ Link # val
      /\ Link # TailCell /\ TailCell # key /\ TailCell # val
  <2>1. key # val /\ key # nxt /\ val # nxt OBVIOUS
  <2>2. TailCell # key /\ TailCell # val BY DEF TailCell
  <2> HIDE DEF o
  <2>3. Link # key /\ Link # val /\ Link # TailCell BY LinkIs
  <2> QED BY <2>1, <2>2, <2>3
<1>3. o \in Value /\ k \in Value /\ v \in Value /\ g \in Value
  BY Contents, Leading
<1>4. \A d \in Cell : G[d] = IF d = TailCell \/ d = Link THEN o
                             ELSE IF d = nxt THEN next
                             ELSE IF d = key THEN k ELSE IF d = val THEN v
                             ELSE mem[d]
  BY DEF Grown
<1>5. /\ \A d \in Cell : m1[d] = IF d = key THEN k ELSE IF d = nxt THEN next
                                 ELSE mem[d]
      /\ \A d \in Cell : m2[d] = IF d = val THEN v ELSE m1[d]
  BY DEF Put
<1>6. Does(c, m1, m2, {}) BY <1>1, CopyDoes, Contents
<1>7. /\ s \in Step /\ n \in Step /\ y \in Step /\ z \in Step /\ Bg \in Step
      /\ Al(A) \in Step /\ TAl(A) \in Step /\ Sn(J) \in Step /\ Fl(F) \in Step
  BY <1>1, <1>3, StepKinds
<1>8. /\ Releases(s) = {} /\ Releases(n) = {} /\ Releases(y) = {}
      /\ Releases(z) = {} /\ Releases(Bg) = {} /\ Releases(Al(A)) = {}
      /\ Releases(TAl(A)) = {} /\ Releases(Sn(J)) = {} /\ Releases(Fl(F)) = {}
  BY DEF Releases, St, Al, TAl, Sn, Fl, Bg
<1>9. /\ Allocates(s) = {} /\ Allocates(n) = {} /\ Allocates(y) = {}
      /\ Allocates(z) = {} /\ Allocates(Bg) = {} /\ Allocates(Al(A)) = A
      /\ Allocates(TAl(A)) = A /\ Allocates(Sn(J)) = {} /\ Allocates(Fl(F)) = {}
  BY StepLogs
<1>10. \A d, w : /\ After(s, d, w) = IF d = key THEN k ELSE w
                 /\ After(n, d, w) = IF d = nxt THEN g ELSE w
                 /\ After(y, d, w) = IF d = Link THEN o ELSE w
                 /\ After(z, d, w) = IF d = TailCell THEN o ELSE w
                 /\ After(Al(A), d, w) = w /\ After(TAl(A), d, w) = w
                 /\ After(Bg, d, w) = w /\ After(Sn(J), d, w) = w
                 /\ After(Fl(F), d, w) = w
  BY StepAssigns DEF After
<1>11. /\ linkedlist_dram_insert(k, v, g) = <<Al(A), n, s>> \o c \o <<y, z>>
       /\ linkedlist_pmem_insert(k, v) = <<Al(A), s>> \o c \o <<y, z, Fl(F)>>
       /\ linkedlist_pmem_tx_insert(k, v)
            = <<Bg, TAl(A), s>> \o c \o <<Sn(J), y, z>> \o <<Cm>>
  BY InsertParts, Zenon
<1>12. (Volatile(cls) => next = g) /\ (~Volatile(cls) => next = mem[nxt])
  OBVIOUS
<1>13. Does(<<Cm>>, G, G, {}) BY Beginning
<1> HIDE DEF o, key, val, nxt, next, c, s, n, y, z, A, F, J, m1, m2, G
<1>14. Does(<<y, z>>, m2, G, {})
  <2>1. \A d \in Cell : G[d] = After(z, d, After(y, d, m2[d]))
    BY <1>2, <1>4, <1>5, <1>10
  <2>2. Does(<<y, z>>, m2, G, Allocates(y) \cup Allocates(z))
    BY <1>7, <1>8, <2>1, DoesTwo
  <2> QED BY <1>9, <2>2
<1>15. Does(<<y, z, Fl(F)>>, m2, G, {})
  <2>1. \A d \in Cell : G[d] = After(Fl(F), d, After(z, d, After(y, d, m2[d])))
    BY <1>2, <1>4, <1>5, <1>10
  <2>2. Does(<<y, z, Fl(F)>>, m2, G, Allocates(y) \cup Allocates(z) \cup Allocates(Fl(F)))
    BY <1>7, <1>8, <2>1, DoesThree
  <2> QED BY <1>9, <2>2
<1>16. Does(<<Sn(J), y, z>>, m2, G, {})
  <2>1. \A d \in Cell : G[d] = After(z, d, After(y, d, After(Sn(J), d, m2[d])))
    BY <1>2, <1>4, <1>5, <1>10
  <2>2. Does(<<Sn(J), y, z>>, m2, G, Allocates(Sn(J)) \cup Allocates(y) \cup Allocates(z))
    BY <1>7, <1>8, <2>1, DoesThree
  <2> QED BY <1>9, <2>2
<1>17. CASE Volatile(cls)
  <2>1. \A d \in Cell : m1[d] = After(s, d, After(n, d, After(Al(A), d, mem[d])))
    BY <1>2, <1>5, <1>10, <1>12, <1>17
  <2>2. Does(<<Al(A), n, s>>, mem, m1, Allocates(Al(A)) \cup Allocates(n) \cup Allocates(s))
    BY <1>7, <1>8, <2>1, DoesThree
  <2>3. Does(<<Al(A), n, s>>, mem, m1, A) BY <1>9, <2>2
  <2>4. Does(<<Al(A), n, s>> \o c \o <<y, z>>, mem, G, A \cup {} \cup {})
    BY <1>6, <1>14, <2>3, DoesConcat
  <2>5. A \cup {} \cup {} = A OBVIOUS
  <2> QED BY <1>11, <1>17, <2>4, <2>5, InsertIs, Zenon DEF G, A, next, nxt, o
<1>18. CASE ~Volatile(cls) /\ cls.medium = "pmem"
  <2>1. \A d \in Cell : m1[d] = After(s, d, After(Al(A), d, mem[d]))
    BY <1>2, <1>5, <1>10, <1>12, <1>18
  <2>2. Does(<<Al(A), s>>, mem, m1, Allocates(Al(A)) \cup Allocates(s))
    BY <1>7, <1>8, <2>1, DoesTwo
  <2>3. Does(<<Al(A), s>>, mem, m1, A) BY <1>9, <2>2
  <2>4. Does(<<Al(A), s>> \o c \o <<y, z, Fl(F)>>, mem, G, A \cup {} \cup {})
    BY <1>6, <1>15, <2>3, DoesConcat
  <2>5. A \cup {} \cup {} = A OBVIOUS
  <2> QED BY <1>11, <1>18, <2>4, <2>5, InsertIs, Zenon DEF G, A, next, nxt, o
<1>19. CASE ~Volatile(cls) /\ cls.medium = "tx"
  <2>1. \A d \in Cell : m1[d] = After(s, d, After(TAl(A), d, After(Bg, d, mem[d])))
    BY <1>2, <1>5, <1>10, <1>12, <1>19
  <2>2. Does(<<Bg, TAl(A), s>>, mem, m1,
             Allocates(Bg) \cup Allocates(TAl(A)) \cup Allocates(s))
    BY <1>7, <1>8, <2>1, DoesThree
  <2>3. Does(<<Bg, TAl(A), s>>, mem, m1, A) BY <1>9, <2>2
  <2>4. Does(<<Bg, TAl(A), s>> \o c \o <<Sn(J), y, z>> \o <<Cm>>, mem, G,
             A \cup {} \cup {} \cup {})
    BY <1>6, <1>13, <1>16, <2>3, DoesConcat
  <2>5. A \cup {} \cup {} \cup {} = A OBVIOUS
  <2> QED BY <1>11, <1>19, <2>4, <2>5, InsertIs, Zenon DEF G, A, next, nxt, o
<1> QED BY <1>17, <1>18, <1>19, Media

LEMMA UpdateDoes ==
  ASSUME CallInv, NEW o \in Node, NEW v \in Val
  PROVE  Does(update(o, v), mem, Put(mem, <<o, "value">>, v), {})
<1> DEFINE val == <<o, "value">>  c == Cp(val, v)  C == NodeCells(o)
           G == Put(mem, val, v)
<1>1. val \in Cell /\ C \in SUBSET Cell /\ v \in Value /\ Torn \in Value
  BY Cells, Contents
<1>2. /\ Volatile(cls) => update(o, v) = c
      /\ cls.medium = "pmem" => update(o, v) = CpFl(val, v)
      /\ cls.medium = "tx" => update(o, v) = <<Bg, Sn(C)>> \o c \o <<Cm>>
  BY DEF update, linkedlist_dram_update, linkedlist_pmem_update,
         linkedlist_pmem_tx_update, Volatile
<1> HIDE DEF val, C
<1>3. Does(c, mem, G, {}) /\ Does(CpFl(val, v), mem, G, {}) BY <1>1, CopyDoes
<1>4. Does(<<Bg, Sn(C)>>, mem, mem, {}) /\ Does(<<Cm>>, G, G, {})
  BY <1>1, Beginning
<1> HIDE DEF c, G
<1>5. Does(<<Bg, Sn(C)>> \o c \o <<Cm>>, mem, G, {} \cup {} \cup {})
  BY <1>3, <1>4, DoesConcat
<1>6. {} \cup {} \cup {} = {} OBVIOUS
<1>7. Does(update(o, v), mem, G, {}) BY <1>2, <1>3, <1>5, <1>6, Media, Zenon
<1> QED BY <1>7 DEF G, val

\* destroy follows pointers, wherever they lead, and clears the root.
LEMMA FreesChain ==
  ASSUME HoldOnly(Pointer, LeadsTo)
  PROVE  /\ FreeChain(LAMBDA C : Fr(C)) \in Seq(Wiper)
         /\ FreeChain(LAMBDA C : TFr(C)) \in Seq(Wiper)
<1> DEFINE n == Len(Chain)
           step(i) == St(HeadCell, mem[<<Chain[i], "next">>])
           f == [i \in 1..n |-> <<step(i), Fr(NodeCells(Chain[i]))>>]
           g == [i \in 1..n |-> <<step(i), TFr(NodeCells(Chain[i]))>>]
<1>1. n \in Nat /\ \A i \in 1..n : Chain[i] \in Node BY ChainTyped
<1>2. ASSUME NEW i \in 1..n
      PROVE  /\ step(i) \in Wiper /\ Fr(NodeCells(Chain[i])) \in Wiper
             /\ TFr(NodeCells(Chain[i])) \in Wiper
  <2>1. Chain[i] \in Node BY <1>1
  <2>2. NodeCells(Chain[i]) \in SUBSET Cell /\ <<Chain[i], "next">> \in Pointer
    BY <2>1, Cells
  <2>3. mem[<<Chain[i], "next">>] \in LeadsTo BY <2>2 DEF HoldOnly
  <2> QED BY <2>2, <2>3, Steps
<1>3. /\ FreeChain(LAMBDA C : Fr(C)) = FlattenSeq(f)
      /\ FreeChain(LAMBDA C : TFr(C)) = FlattenSeq(g)
  BY DEF FreeChain
<1> HIDE DEF n, step
<1>4. \A i \in 1..n : f[i] \in Seq(Wiper) /\ g[i] \in Seq(Wiper) BY <1>2
<1>5. f = [i \in 1..n |-> f[i]] /\ g = [i \in 1..n |-> g[i]] OBVIOUS
<1> HIDE DEF f, g
<1>6. FlattenSeq(f) \in Seq(Wiper) BY <1>1, <1>4, <1>5, FlattenSteps
<1>7. FlattenSeq(g) \in Seq(Wiper) BY <1>1, <1>4, <1>5, FlattenSteps
<1> QED BY <1>3, <1>6, <1>7

LEMMA DestroyWipes ==
  ASSUME CallInv, HoldOnly(Pointer, LeadsTo), TailP \in Node \cup {Zero}
  PROVE  destroy \in Seq(Wiper)
<1> DEFINE a == IF TailP # Zero THEN <<Fr(NodeCells(TailP))>> ELSE <<>>
           b == IF TailP # Zero THEN <<FrIn(NodeCells(TailP), TailCell)>> ELSE <<>>
           c == IF TailP # Zero THEN <<TFr(NodeCells(TailP))>> ELSE <<>>
           f == FreeChain(LAMBDA C : Fr(C))  g == FreeChain(LAMBDA C : TFr(C))
           d == <<Bg, Sn(RootCells)>>  e == <<Cm>>
<1>1. f \in Seq(Wiper) /\ g \in Seq(Wiper) BY FreesChain
<1>2. a \in Seq(Wiper) /\ b \in Seq(Wiper) /\ c \in Seq(Wiper)
  <2>1. CASE TailP = Zero BY <2>1
  <2>2. CASE TailP # Zero
    <3>1. NodeCells(TailP) \in SUBSET Cell BY <2>2, Cells
    <3>2. /\ Fr(NodeCells(TailP)) \in Wiper /\ TFr(NodeCells(TailP)) \in Wiper
          /\ FrIn(NodeCells(TailP), TailCell) \in Wiper
      BY <3>1, Steps
    <3> QED BY <2>2, <3>2
  <2> QED BY <2>1, <2>2
<1>3. d \in Seq(Wiper) /\ e \in Seq(Wiper) /\ ClearRoot \in Seq(Wiper)
  <2>1. RootCells \in SUBSET Cell BY Cells
  <2>2. Bg \in Wiper /\ Cm \in Wiper /\ Sn(RootCells) \in Wiper BY <2>1, Steps
  <2>3. ClearRoot \in Seq(Wiper) BY InitKeeps, KeeperIs
  <2> QED BY <2>2, <2>3
<1>4. /\ linkedlist_dram_destroy = a \o f
      /\ linkedlist_pmem_destroy = f \o b \o ClearRoot
      /\ linkedlist_pmem_tx_destroy = d \o g \o c \o ClearRoot \o e
  BY DEF linkedlist_dram_destroy, linkedlist_pmem_destroy,
         linkedlist_pmem_tx_destroy
<1>5. /\ Volatile(cls) => destroy = linkedlist_dram_destroy
      /\ cls.medium = "pmem" => destroy = linkedlist_pmem_destroy
      /\ cls.medium = "tx" => destroy = linkedlist_pmem_tx_destroy
  BY DEF destroy, Volatile
<1> HIDE DEF a, b, c, d, e, f, g
<1>6. /\ a \o f \in Seq(Wiper) /\ f \o b \o ClearRoot \in Seq(Wiper)
      /\ d \o g \o c \o ClearRoot \o e \in Seq(Wiper)
  BY <1>1, <1>2, <1>3, ConcatProperties
<1> QED BY <1>4, <1>5, <1>6, Media

-----------------------------------------------------------------------------
(***************************************************************************)
(* What the programs make of the list.                                     *)
(***************************************************************************)
LEMMA NewNodeIs ==
  ASSUME HasRoom PROVE NewNode \in Node /\ NodeCells(NewNode) \cap live = {}
<1>1. FreeNodes \in SUBSET Nat /\ FreeNodes # {}
  BY Contents DEF HasRoom, FreeNodes
<1>2. NewNode \in FreeNodes BY <1>1, MinIs DEF NewNode
<1> QED BY <1>2 DEF FreeNodes

\* The tail pointer of a list with nodes is the last one.
LEMMA RootIs ==
  ASSUME NEW ns, Held(ns)
  PROVE  /\ ns = <<>> => HeadP = Zero
         /\ ns # <<>> => /\ HeadP # Zero /\ HeadP = ns[1] /\ TailP = ns[Len(ns)]
                         /\ TailP \in Node /\ Len(ns) \in DOMAIN ns
                         /\ 1 \in DOMAIN ns
<1>1. ns = <<>> => HeadP = Zero BY DEF Held, Linked, HeadP
<1>2. ASSUME ns # <<>>
      PROVE  /\ HeadP # Zero /\ HeadP = ns[1] /\ TailP = ns[Len(ns)]
             /\ TailP \in Node /\ Len(ns) \in DOMAIN ns /\ 1 \in DOMAIN ns
  <2>1. /\ Len(ns) \in Nat /\ DOMAIN ns = 1..Len(ns)
        /\ \A n \in DOMAIN ns : ns[n] \in Node
    BY Distinct, Zenon DEF Held
  <2>2. Len(ns) # 0 BY <1>2, EmptySeq DEF Held
  <2>3. 1 \in DOMAIN ns /\ Len(ns) \in DOMAIN ns BY <2>1, <2>2
  <2>4. HeadP = ns[1] /\ TailP = ns[Len(ns)]
    BY <1>2 DEF Held, Linked, HeadP, TailP
  <2> QED BY <2>1, <2>3, <2>4, Contents
<1> QED BY <1>1, <1>2

\* The list as it is expected to be.
Serves(ns) == Held(ns) /\ Shown(mem, ns, expect) /\ KeptIn(ns, live)

\* A key that is not expected is in no node.
LEMMA Missing ==
  ASSUME MemoryTypeOK, NEW ns, Serves(ns), NEW k \in Key, expect[k] = {Absent}
  PROVE  \A n \in DOMAIN ns : KeyIn(mem, ns[n]) # k
<1> SUFFICES ASSUME NEW n \in DOMAIN ns, KeyIn(mem, ns[n]) = k PROVE FALSE
  OBVIOUS
<1>1. ns[n] \in Node BY LenProperties DEF Serves, Held
<1>2. mem[<<ns[n], "value">>] \in Value BY <1>1, Cells DEF MemoryTypeOK
<1>3. mem[<<ns[n], "value">>] \in expect[k] BY DEF Serves, Shown
<1> QED BY <1>2, <1>3, Contents

LEMMA NotInList ==
  ASSUME NEW ns, Serves(ns), NEW o \in Node, NodeCells(o) \cap live = {}
  PROVE  \A n \in DOMAIN ns : ns[n] # o
<1> SUFFICES ASSUME NEW n \in DOMAIN ns, ns[n] = o PROVE FALSE OBVIOUS
<1>1. NodeCells(o) \subseteq live BY DEF Serves, KeptIn
<1>2. <<o, "key">> \in NodeCells(o) BY Cells
<1> QED BY <1>1, <1>2

\* insert appends the new node: the others keep their contents and their order.
LEMMA Appended ==
  ASSUME MemoryTypeOK, NEW ns, Serves(ns), NEW o \in Node,
         NodeCells(o) \cap live = {}, NEW k \in Key, NEW v \in Val,
         NEW g, g \notin Node, expect[k] = {Absent},
         expect \in [Key -> SUBSET (Value \cup {Absent})]
  PROVE  LET F == Grown(o, k, v, g)  ms == Append(ns, o) IN
         /\ ms \in Seq(Node) /\ Linked(F, ms) /\ Ended(F, ms) /\ Keyed(F, ms)
         /\ Shown(F, ms, [expect EXCEPT ![k] = {v}])
         /\ KeptIn(ms, live \cup NodeCells(o))
<1> DEFINE F == Grown(o, k, v, g)  ms == Append(ns, o)  l == Len(ns)
           want == [expect EXCEPT ![k] = {v}]
<1>1. /\ l \in Nat /\ DOMAIN ns = 1..l /\ \A n \in DOMAIN ns : ns[n] \in Node
      /\ \A m, n \in DOMAIN ns : ns[m] = ns[n] => m = n
  BY Distinct, Zenon DEF Serves, Held
<1>2. /\ ms \in Seq(Node) /\ Len(ms) = l + 1 /\ DOMAIN ms = 1..(l + 1)
      /\ ms[l + 1] = o /\ \A n \in DOMAIN ns : ms[n] = ns[n]
  BY <1>1, AppendProperties, LenProperties DEF Serves, Held
<1>3. \A n \in DOMAIN ns : ns[n] # o BY NotInList
<1>4. \A n \in DOMAIN ns : KeyIn(mem, ns[n]) # k BY Missing
<1>5. /\ ns = <<>> => HeadP = Zero
      /\ ns # <<>> => /\ HeadP # Zero /\ HeadP = ns[1] /\ TailP = ns[l]
                      /\ TailP \in Node /\ l \in DOMAIN ns /\ 1 \in DOMAIN ns
  BY RootIs DEF Serves
<1>6. ns = <<>> <=> l = 0 BY <1>1, EmptySeq DEF Serves, Held
<1>7. \A d \in Cell :
        F[d] = IF d = TailCell \/ d = Link THEN o
               ELSE IF d = <<o, "next">> THEN g
               ELSE IF d = <<o, "key">> THEN k
               ELSE IF d = <<o, "value">> THEN v ELSE mem[d]
  BY DEF Grown
<1>8. \A q, x : /\ TailCell # <<q, "key">> /\ TailCell # <<q, "value">>
                /\ TailCell # <<q, "next">>
                /\ HeadCell # <<q, "key">> /\ HeadCell # <<q, "value">>
                /\ HeadCell # <<q, "next">> /\ HeadCell # TailCell
                /\ <<q, "key">> # <<x, "value">> /\ <<q, "key">> # <<x, "next">>
                /\ <<q, "value">> # <<x, "next">>
                /\ <<q, "key">> = <<x, "key">> => q = x
                /\ <<q, "value">> = <<x, "value">> => q = x
                /\ <<q, "next">> = <<x, "next">> => q = x
  BY DEF HeadCell, TailCell
<1>9. Link = IF HeadP = Zero THEN HeadCell ELSE <<TailP, "next">> BY DEF Link
<1>10. HeadCell \in Cell /\ TailCell \in Cell
       /\ \A q \in Node : /\ <<q, "key">> \in Cell /\ <<q, "value">> \in Cell
                          /\ <<q, "next">> \in Cell
  BY Cells
<1> HIDE DEF F, HeadCell, TailCell, ms, l
<1>11. /\ F[TailCell] = o
       /\ F[HeadCell] = IF ns = <<>> THEN o ELSE mem[HeadCell]
  BY <1>5, <1>7, <1>8, <1>9, <1>10
<1>12. \A q \in Node \ {o} :
         /\ KeyIn(F, q) = KeyIn(mem, q)
         /\ F[<<q, "value">>] = mem[<<q, "value">>]
         /\ (ns = <<>> \/ q # TailP) => NextIn(F, q) = NextIn(mem, q)
  BY <1>5, <1>7, <1>8, <1>9, <1>10 DEF KeyIn, NextIn
<1>13. ns # <<>> => NextIn(F, TailP) = o
  BY <1>5, <1>7, <1>9, <1>10 DEF NextIn
<1>14. KeyIn(F, o) = k /\ F[<<o, "value">>] = v
  BY <1>7, <1>8, <1>9, <1>10 DEF KeyIn
<1>15. NextIn(F, o) = g
  <2>1. ns # <<>> => TailP # o BY <1>3, <1>5
  <2> QED BY <1>5, <1>7, <1>8, <1>9, <1>10, <2>1 DEF NextIn
<1>16. Linked(F, ms)
  <2>1. F[HeadCell] = ms[1]
    <3>1. CASE ns = <<>> BY <1>2, <1>6, <1>11, <3>1
    <3>2. CASE ns # <<>>
      <4>1. mem[HeadCell] = ns[1] BY <1>5, <3>2 DEF HeadP
      <4> QED BY <1>2, <1>5, <1>11, <3>2, <4>1
    <3> QED BY <3>1, <3>2
  <2>2. ms # <<>> BY <1>1, <1>2
  <2>3. ASSUME NEW n \in DOMAIN ms, n < l + 1 PROVE NextIn(F, ms[n]) = ms[n + 1]
    <3>1. n \in DOMAIN ns /\ ms[n] = ns[n] /\ ns[n] \in Node \ {o}
      BY <1>1, <1>2, <1>3, <2>3
    <3>2. ns # <<>> BY <1>1, <1>6, <3>1
    <3>3. CASE n = l BY <1>2, <1>5, <1>13, <3>1, <3>2, <3>3
    <3>4. CASE n # l
      <4>1. n < l /\ n + 1 \in DOMAIN ns BY <1>1, <3>1, <3>4
      <4>2. ns[n] # TailP BY <1>1, <1>5, <3>1, <3>2, <3>4
      <4>3. NextIn(mem, ns[n]) = ns[n + 1]
        BY <3>1, <4>1 DEF Serves, Held, Linked, l
      <4> QED BY <1>2, <1>12, <3>1, <4>1, <4>2, <4>3
    <3> QED BY <3>3, <3>4
  <2> QED BY <1>2, <1>11, <2>1, <2>2, <2>3 DEF Linked
<1>17. Ended(F, ms)
  <2> SUFFICES ASSUME NEW q \in Node,
                      \A n \in DOMAIN ms : n < Len(ms) => ms[n] # q
               PROVE  NextIn(F, q) \notin Node
    BY DEF Ended
  <2>1. \A n \in DOMAIN ns : ns[n] # q BY <1>1, <1>2
  <2>2. CASE q = o BY <1>15, <2>2
  <2>3. CASE q # o
    <3>1. NextIn(mem, q) \notin Node BY <2>1, Zenon DEF Serves, Held, Ended
    <3>2. ns # <<>> => q # TailP BY <1>5, <2>1
    <3> QED BY <1>12, <2>3, <3>1, <3>2
  <2> QED BY <2>2, <2>3
<1>18. \A n \in DOMAIN ms :
         \/ n = l + 1 /\ ms[n] = o /\ KeyIn(F, ms[n]) = k
         \/ /\ n \in DOMAIN ns /\ ms[n] = ns[n] /\ ns[n] \in Node
            /\ KeyIn(F, ms[n]) = KeyIn(mem, ns[n]) /\ KeyIn(mem, ns[n]) # k
            /\ F[<<ms[n], "value">>] = mem[<<ns[n], "value">>]
  <2> TAKE n \in DOMAIN ms
  <2>1. CASE n = l + 1 BY <1>2, <1>14, <2>1
  <2>2. CASE n # l + 1
    <3>1. n \in DOMAIN ns BY <1>1, <1>2, <2>2
    <3> QED BY <1>1, <1>2, <1>3, <1>4, <1>12, <3>1
  <2> QED BY <2>1, <2>2
<1>19. Keyed(F, ms)
  <2>1. \A n \in DOMAIN ns :
          /\ KeyIn(mem, ns[n]) \in Key
          /\ \A m \in DOMAIN ns : KeyIn(mem, ns[m]) = KeyIn(mem, ns[n]) => m = n
    BY DEF Serves, Held, Keyed
  <2> QED BY <1>18, <2>1 DEF Keyed
<1>20. Shown(F, ms, want)
  <2>1. want[k] = {v} /\ \A j \in Key : j # k => want[j] = expect[j] OBVIOUS
  <2>2. l + 1 \in DOMAIN ms /\ \A n \in DOMAIN ns : n \in DOMAIN ms
    BY <1>1, <1>2
  <2> HIDE DEF want
  <2>3. ASSUME NEW j \in Key
        PROVE  /\ (\A n \in DOMAIN ms : KeyIn(F, ms[n]) # j) => Absent \in want[j]
               /\ \A n \in DOMAIN ms :
                    KeyIn(F, ms[n]) = j => F[<<ms[n], "value">>] \in want[j]
    <3>1. CASE j = k
      <4>1. KeyIn(F, ms[l + 1]) = k BY <1>2, <1>14
      <4>2. \A n \in DOMAIN ms : KeyIn(F, ms[n]) = k => ms[n] = o BY <1>18
      <4> QED BY <1>14, <2>1, <2>2, <3>1, <4>1, <4>2
    <3>2. CASE j # k
      <4>1. /\ (\A n \in DOMAIN ns : KeyIn(mem, ns[n]) # j) => Absent \in expect[j]
            /\ \A n \in DOMAIN ns :
                 KeyIn(mem, ns[n]) = j => mem[<<ns[n], "value">>] \in expect[j]
        BY Zenon DEF Serves, Shown
      <4>2. \A n \in DOMAIN ns : KeyIn(F, ms[n]) = KeyIn(mem, ns[n])
        <5> TAKE n \in DOMAIN ns
        <5>1. n # l + 1 /\ n \in DOMAIN ms BY <1>1, <2>2
        <5> QED BY <1>18, <5>1
      <4> QED BY <1>18, <2>1, <2>2, <3>2, <4>1, <4>2
    <3> QED BY <3>1, <3>2
  <2> QED BY <2>3, Zenon DEF Shown
<1>21. KeptIn(ms, live \cup NodeCells(o))
  <2>1. \A n \in DOMAIN ns : NodeCells(ns[n]) \subseteq live
    BY DEF Serves, KeptIn
  <2> QED BY <1>18, <2>1 DEF KeptIn
<1> HIDE DEF want
<1> QED BY <1>2, <1>16, <1>17, <1>19, <1>20, <1>21 DEF F, ms, want

\* update replaces the value of the node with the key, and nothing else.
LEMMA Overwritten ==
  ASSUME NEW ns, Serves(ns), NEW n \in DOMAIN ns, NEW k \in Key,
         KeyIn(mem, ns[n]) = k, NEW v, expect \in [Key -> SUBSET (Value \cup {Absent})]
  PROVE  LET F == Put(mem, <<ns[n], "value">>, v) IN
         /\ Linked(F, ns) /\ Ended(F, ns) /\ Keyed(F, ns)
         /\ Shown(F, ns, [expect EXCEPT ![k] = {v}])
<1> DEFINE F == Put(mem, <<ns[n], "value">>, v)
           want == [expect EXCEPT ![k] = {v}]
<1>1. \A m \in DOMAIN ns : ns[m] \in Node BY LenProperties DEF Serves, Held
<1>2. \A d \in Cell : F[d] = IF d = <<ns[n], "value">> THEN v ELSE mem[d]
  BY DEF Put
<1>3. F[HeadCell] = mem[HeadCell] /\ F[TailCell] = mem[TailCell]
  BY <1>2, Cells DEF HeadCell, TailCell
<1>4. \A o \in Node :
        /\ KeyIn(F, o) = KeyIn(mem, o) /\ NextIn(F, o) = NextIn(mem, o)
        /\ F[<<o, "value">>] = IF o = ns[n] THEN v ELSE mem[<<o, "value">>]
  BY <1>2, Cells DEF KeyIn, NextIn
<1> HIDE DEF F
<1>5. Linked(F, ns) BY <1>1, <1>3, <1>4 DEF Serves, Held, Linked
<1>6. Ended(F, ns) BY <1>4 DEF Serves, Held, Ended
<1>7. Keyed(F, ns) BY <1>1, <1>4 DEF Serves, Held, Keyed
<1>8. Shown(F, ns, want)
  <2>1. want[k] = {v} /\ \A j \in Key : j # k => want[j] = expect[j] OBVIOUS
  <2>2. \A m \in DOMAIN ns : KeyIn(F, ns[m]) = KeyIn(mem, ns[m])
    BY <1>1, <1>4
  <2>3. \A m \in DOMAIN ns : KeyIn(mem, ns[m]) = k => m = n
    BY DEF Serves, Held, Keyed
  <2>4. \A j \in Key :
          /\ (\A m \in DOMAIN ns : KeyIn(mem, ns[m]) # j) => Absent \in expect[j]
          /\ \A m \in DOMAIN ns :
               KeyIn(mem, ns[m]) = j => mem[<<ns[m], "value">>] \in expect[j]
    BY Zenon DEF Serves, Shown
  <2> HIDE DEF want
  <2>5. ASSUME NEW j \in Key
        PROVE  /\ (\A m \in DOMAIN ns : KeyIn(F, ns[m]) # j) => Absent \in want[j]
               /\ \A m \in DOMAIN ns :
                    KeyIn(F, ns[m]) = j => F[<<ns[m], "value">>] \in want[j]
    <3>1. CASE j = k BY <1>1, <1>4, <2>1, <2>2, <2>3, <3>1
    <3>2. CASE j # k
      <4>1. \A m \in DOMAIN ns : KeyIn(mem, ns[m]) = j => ns[m] # ns[n] BY <3>2
      <4> QED BY <1>1, <1>4, <2>1, <2>2, <2>4, <3>2, <4>1
    <3> QED BY <3>1, <3>2
  <2> QED BY <2>5, Zenon DEF Shown
<1> QED BY <1>5, <1>6, <1>7, <1>8 DEF F

-----------------------------------------------------------------------------
(***************************************************************************)
(* Every step keeps BaseInv.                                               *)
(***************************************************************************)
LEMMA NoProgram ==
  /\ <<>> \in Seq(Step) /\ <<>> \in Seq(Keeper) /\ FreesNothing(<<>>)
  /\ \A C, R : StoresOnly(<<>>, C, R)
  /\ ToAllocate(<<>>) = {}
BY DEF ToAllocate, FreesNothing, StoresOnly

\* What BaseInv says of the pool and the programs.
PoolInv ==
  MemoryTypeOK /\ ProgramsTyped /\ PointersTyped /\ RootTyped /\ NothingFreed

\* A step that changes neither the pool nor a program.
LEMMA PoolSame ==
  ASSUME BaseInv, UNCHANGED <<pvars, cls, prog>>,
         phase' # "destroy" => phase # "destroy"
  PROVE  PoolInv'
<1>1. UNCHANGED <<mem, may, vol, live, intx, undo, fresh, dying, power>>
  BY DEF pvars
<1>2. MemoryTypeOK' BY <1>1 DEF BaseInv, MemoryTypeOK
<1>3. ProgramsTyped' BY DEF BaseInv, ProgramsTyped
<1>4. LeadsTo' = LeadsTo BY DEF LeadsTo, Volatile
<1>5. PointersTyped' BY <1>1, <1>4 DEF BaseInv, PointersTyped, HoldOnly
<1>6. RootTyped' BY <1>1 DEF BaseInv, RootTyped, HoldOnly, Volatile
<1>7. NothingFreed' BY <1>1 DEF BaseInv, NothingFreed
<1> QED BY <1>2, <1>3, <1>5, <1>6, <1>7 DEF PoolInv

\* An actor begins an operation, or main init in a new process.
LEMMA PoolBegins ==
  ASSUME BaseInv, phase # "destroy", power' \in {"up", "failed", "exited"},
         UNCHANGED <<mem, may, vol, live, intx, undo, fresh, dying, cls>>,
         NEW a \in Actor, NEW p \in Seq(Wiper), prog' = [prog EXCEPT ![a] = p],
         phase' = "destroy" \/ p \in Seq(Keeper)
  PROVE  PoolInv'
<1>1. MemoryTypeOK' BY DEF BaseInv, MemoryTypeOK
<1>2. p \in Seq(Step) /\ StoresOnly(p, Pointer, LeadsTo) BY WiperIs
<1>3. /\ ProgramsTyped' /\ prog'[a] = p
      /\ \A b \in Actor \ {a} : prog'[b] = prog[b]
  BY <1>2, StartsProgram DEF BaseInv
<1>4. LeadsTo' = LeadsTo BY DEF LeadsTo, Volatile
<1>5. PointersTyped'
  <2>1. HoldOnly(Pointer, LeadsTo)'
    BY <1>4 DEF BaseInv, PointersTyped, HoldOnly
  <2>2. \A b \in Actor : StoresOnly(prog'[b], Pointer, LeadsTo)
    BY <1>2, <1>3, Zenon DEF BaseInv, PointersTyped
  <2> QED BY <1>4, <2>1, <2>2, Zenon DEF PointersTyped
<1>6. (Volatile(cls) => vol = Cell)' BY DEF BaseInv, RootTyped, Volatile
<1>7. CASE phase' = "destroy"
  <2>1. RootTyped' /\ NothingFreed' BY <1>6, <1>7 DEF RootTyped, NothingFreed
  <2> QED BY <1>1, <1>3, <1>5, <2>1 DEF PoolInv
<1>8. CASE p \in Seq(Keeper)
  <2>1. FreesNothing(p) /\ StoresOnly(p, RootCells, Node \cup {Zero})
    BY <1>8, KeeperIs
  <2>2. HoldOnly(RootCells, Node \cup {Zero})'
    BY DEF BaseInv, RootTyped, HoldOnly
  <2>3. \A b \in Actor : /\ FreesNothing(prog'[b])
                         /\ StoresOnly(prog'[b], RootCells, Node \cup {Zero})
    BY <1>3, <2>1, Zenon DEF BaseInv, RootTyped, NothingFreed
  <2>4. dying' = {} BY DEF BaseInv, NothingFreed
  <2>5. RootTyped' BY <1>6, <2>2, <2>3 DEF RootTyped
  <2>6. NothingFreed' BY <2>3, <2>4 DEF NothingFreed
  <2> QED BY <1>1, <1>3, <1>5, <2>5, <2>6 DEF PoolInv
<1> QED BY <1>7, <1>8

LEMMA PoolExec ==
  ASSUME BaseInv, NEW a \in Actor, Exec(a) PROVE PoolInv'
<1> DEFINE u == prog[a][1]
<1>1. CallInv /\ MemoryTypeOK /\ ProgramsTyped BY DEF BaseInv
<1>2. /\ prog[a] \in Seq(Step) /\ prog[a] # <<>>
      /\ u \in Step /\ MemoryStep(u) /\ prog'[a] = Tail(prog[a])
      /\ \A b \in Actor \ {a} : prog[b] = <<>> /\ prog'[b] = <<>>
      /\ MemoryTypeOK' /\ ProgramsTyped'
  BY <1>1, ExecDoes
<1>3. UNCHANGED <<cls, phase, th, rd, wr, expect, dirty, calls, fails, starts>>
  BY <1>1, ExecIs
<1>4. vol' = vol BY <1>1, <1>2, StepDoes
<1> HIDE DEF u
<1>5. LeadsTo' = LeadsTo BY <1>3 DEF LeadsTo, Volatile
<1>6. ASSUME NEW C \in SUBSET Cell, NEW R, HoldOnly(C, R),
             StoresOnly(prog[a], C, R)
      PROVE  HoldOnly(C, R)' /\ \A b \in Actor : StoresOnly(prog'[b], C, R)
  <2>1. /\ \A c \in C \cap Assigns(u) : Assigned(u, c) \in R
        /\ StoresOnly(prog'[a], C, R)
    BY <1>2, <1>6, StoresOnlyTail DEF u
  <2>2. HoldOnly(C, R)' BY <1>1, <1>2, <1>6, <2>1, StepHoldsOnly
  <2>3. \A b \in Actor : StoresOnly(prog'[b], C, R)
    BY <1>2, <2>1, NoProgram, Zenon
  <2> QED BY <2>2, <2>3
<1>7. PointersTyped'
  <2>1. PICK R : R = LeadsTo OBVIOUS
  <2>2. /\ HoldOnly(Pointer, R) /\ Pointer \in SUBSET Cell
        /\ StoresOnly(prog[a], Pointer, R)
    BY <2>1, Cells DEF BaseInv, PointersTyped
  <2>3. HoldOnly(Pointer, R)' /\ \A b \in Actor : StoresOnly(prog'[b], Pointer, R)
    BY <1>6, <2>2
  <2> QED BY <1>5, <2>1, <2>3 DEF PointersTyped
<1>8. RootTyped'
  <2>1. (Volatile(cls) => vol = Cell)'
    BY <1>3, <1>4 DEF BaseInv, RootTyped, Volatile
  <2>2. ASSUME phase # "destroy"
        PROVE  /\ HoldOnly(RootCells, Node \cup {Zero})'
               /\ \A b \in Actor : StoresOnly(prog'[b], RootCells, Node \cup {Zero})
    <3> DEFINE R == Node \cup {Zero}
    <3>1. /\ HoldOnly(RootCells, R) /\ RootCells \in SUBSET Cell
          /\ StoresOnly(prog[a], RootCells, R)
      BY <2>2, Cells DEF BaseInv, RootTyped
    <3> HIDE DEF R
    <3>2. HoldOnly(RootCells, R)' /\ \A b \in Actor : StoresOnly(prog'[b], RootCells, R)
      BY <1>6, <3>1
    <3> QED BY <3>2 DEF R
  <2> QED BY <1>3, <2>1, <2>2 DEF RootTyped
<1>9. NothingFreed'
  <2>1. CASE phase # "destroy"
    <3>1. dying = {} /\ FreesNothing(prog[a])
      BY <2>1 DEF BaseInv, NothingFreed
    <3>2. Releases(u) = {} /\ FreesNothing(prog'[a])
      BY <1>2, <3>1, FreesNothingTail, Zenon DEF u
    <3>3. dying' = {} BY <1>2, <3>1, <3>2, StepKeepsLive
    <3>4. \A b \in Actor : FreesNothing(prog'[b])
      BY <1>2, <3>2, NoProgram, Zenon
    <3> QED BY <3>3, <3>4 DEF NothingFreed
  <2>2. CASE phase = "destroy" BY <1>3, <2>2 DEF NothingFreed
  <2> QED BY <2>1, <2>2
<1> QED BY <1>2, <1>7, <1>8, <1>9 DEF PoolInv

\* The process is gone: nothing is to be performed any more, and nothing of a
\* volatile list is left.
LEMMA PoolFails ==
  ASSUME BaseInv, NEW how \in {"failed", "exited"}, Fail(how), cls' = cls,
         \A a \in Actor : prog'[a] = <<>>, prog' = [a \in Actor |-> prog'[a]]
  PROVE  PoolInv'
<1>1. MemoryTypeOK /\ MemoryTypeOK' BY FailTypes DEF BaseInv
<1>2. dying' = {} /\ undo' = NoUndo /\ vol' = vol BY DEF Fail
<1>3. ProgramsTyped' BY NoProgram, Zenon DEF ProgramsTyped
<1>4. LeadsTo' = LeadsTo BY DEF LeadsTo, Volatile
<1>5. HoldOnly(Pointer, LeadsTo)'
  <2>1. PICK R : R = LeadsTo OBVIOUS
  <2>2. HoldOnly(Pointer, R) /\ Pointer \in SUBSET Cell /\ Zero \in R
    BY <2>1, Cells, Leading DEF BaseInv, PointersTyped
  <2>3. HoldOnly(Pointer, R)' BY <1>1, <2>2, FailHoldsOnly
  <2> QED BY <1>4, <2>1, <2>3
<1>6. PointersTyped' BY <1>5, NoProgram, Zenon DEF PointersTyped
<1>7. HoldOnly(RootCells, Node \cup {Zero})'
  <2>1. CASE Volatile(cls)
    <3>1. vol = Cell BY <2>1 DEF BaseInv, RootTyped
    <3>2. \A c \in Cell : mem'[c] = Zero /\ may'[c] = {Zero}
      BY <3>1 DEF Fail, AfterExit, AfterFailure
    <3> QED BY <1>2, <3>2, Cells, NoUndoFacts DEF HoldOnly
  <2>2. CASE ~Volatile(cls)
    <3>1. LeadsTo' = Node \cup {Zero} BY <1>4, <2>2 DEF LeadsTo
    <3> QED BY <1>5, <3>1, Cells DEF HoldOnly
  <2> QED BY <2>1, <2>2
<1>8. RootTyped'
  BY <1>2, <1>7, NoProgram DEF RootTyped, BaseInv, Volatile
<1>9. NothingFreed' BY <1>2, NoProgram DEF NothingFreed
<1> QED BY <1>1, <1>3, <1>6, <1>8, <1>9 DEF PoolInv

LEMMA PoolSettling ==
  ASSUME BaseInv, Settling PROVE PoolInv'
<1>1. MemoryTypeOK /\ MemoryTypeOK' BY SettleTypes DEF BaseInv, Settling
<1>2. /\ UNCHANGED svars /\ SettleNext /\ vol' = vol /\ dying' = dying
  BY DEF Settling, SettleNext, Settle
<1>3. UNCHANGED <<cls, phase, prog>> BY <1>2 DEF svars
<1>4. LeadsTo' = LeadsTo BY <1>3 DEF LeadsTo, Volatile
<1>5. PointersTyped'
  <2>1. PICK R : R = LeadsTo OBVIOUS
  <2>2. HoldOnly(Pointer, R) /\ Pointer \in SUBSET Cell
    BY <2>1, Cells DEF BaseInv, PointersTyped
  <2>3. HoldOnly(Pointer, R)' BY <1>1, <1>2, <2>2, SettleHoldsOnly
  <2>4. \A a \in Actor : StoresOnly(prog'[a], Pointer, R)
    BY <1>3, <2>1 DEF BaseInv, PointersTyped
  <2> QED BY <1>4, <2>1, <2>3, <2>4 DEF PointersTyped
<1>6. RootTyped'
  <2>1. (Volatile(cls) => vol = Cell)'
    BY <1>2, <1>3 DEF BaseInv, RootTyped, Volatile
  <2>2. ASSUME phase # "destroy"
        PROVE  HoldOnly(RootCells, Node \cup {Zero})'
    <3> DEFINE R == Node \cup {Zero}
    <3>1. HoldOnly(RootCells, R) /\ RootCells \in SUBSET Cell
      BY <2>2, Cells DEF BaseInv, RootTyped
    <3> HIDE DEF R
    <3>2. HoldOnly(RootCells, R)' BY <1>1, <1>2, <3>1, SettleHoldsOnly
    <3> QED BY <3>2 DEF R
  <2> QED BY <1>3, <2>1, <2>2 DEF RootTyped, BaseInv
<1>7. ProgramsTyped' /\ NothingFreed'
  BY <1>2, <1>3 DEF BaseInv, ProgramsTyped, NothingFreed
<1> QED BY <1>1, <1>5, <1>6, <1>7 DEF PoolInv

LEMMA BaseIs ==
  /\ BaseInv <=> CallInv /\ PoolInv /\ ~cls.upsert /\ InsertsNew
  /\ BaseInv' <=> CallInv' /\ PoolInv' /\ ~cls'.upsert /\ InsertsNew'
BY Zenon DEF BaseInv, PoolInv

\* The keys that are being inserted stay new: no thread is in an operation, ...
LEMMA InsertsQuiet ==
  ASSUME \A t \in Thread : th'[t].pc = "idle" PROVE InsertsNew'
BY DEF InsertsNew

\* ... what is expected stays and no other call wants to insert, ...
LEMMA InsertsSame ==
  ASSUME InsertsNew, expect' = expect,
         \A t \in Thread : \/ th'[t] = th[t] \/ th'[t].op # "insert"
                           \/ th'[t].pc \notin {"want", "in"}
  PROVE  InsertsNew'
<1>1. ASSUME NEW t \in Thread, th'[t].op = "insert", th'[t].pc \in {"want", "in"}
      PROVE  th'[t] = th[t]
  BY <1>1
<1>2. ASSUME NEW t \in Thread, th'[t].op = "insert"
      PROVE  /\ th'[t].pc = "want" => expect'[th'[t].key] = {Absent}
             /\ th'[t].pc \in {"want", "in"} =>
                  \A s \in Thread \ {t} :
                    th'[s].op = "insert" /\ th'[s].pc \in {"want", "in"}
                      => th'[s].key # th'[t].key
  <2>1. CASE th'[t].pc \notin {"want", "in"} BY <2>1
  <2>2. CASE th'[t].pc \in {"want", "in"}
    <3>1. th'[t] = th[t] BY <1>1, <1>2, <2>2
    <3>2. /\ th[t].pc = "want" => expect[th[t].key] = {Absent}
          /\ th[t].pc \in {"want", "in"} =>
               \A s \in Thread \ {t} :
                 th[s].op = "insert" /\ th[s].pc \in {"want", "in"}
                   => th[s].key # th[t].key
      BY <1>2, <3>1, Zenon DEF InsertsNew
    <3> QED BY <1>1, <2>2, <3>1, <3>2
  <2> QED BY <2>1, <2>2
<1> QED BY <1>2, Zenon DEF InsertsNew

\* ... a call asks for a key that nobody else inserts, ...
LEMMA InsertsCall ==
  ASSUME BaseInv, NEW t \in Thread, NEW k \in Key, NEW n \in Version,
         CallInsert(t, k, n)
  PROVE  InsertsNew'
<1>1. /\ expect[k] = {Absent} /\ expect' = expect
      /\ \A s \in Thread : ~(th[s].op = "insert" /\ th[s].key = k)
      /\ th'[t].op = "insert" /\ th'[t].key = k
      /\ \A s \in Thread \ {t} : th'[s] = th[s]
  BY DEF CallInsert, Call, StartCall, Idle, BaseInv, CallInv, CallTypeOK
<1>2. ASSUME NEW s \in Thread, th'[s].op = "insert"
      PROVE  /\ th'[s].pc = "want" => expect'[th'[s].key] = {Absent}
             /\ th'[s].pc \in {"want", "in"} =>
                  \A u \in Thread \ {s} :
                    th'[u].op = "insert" /\ th'[u].pc \in {"want", "in"}
                      => th'[u].key # th'[s].key
  BY <1>1, <1>2 DEF BaseInv, InsertsNew
<1> QED BY <1>2, Zenon DEF InsertsNew

\* ... and an operation changes only what is expected of its own key.
LEMMA InsertsWrite ==
  ASSUME BaseInv, NEW t \in Thread, th[t].pc \in {"want", "in"},
         th[t].key \in Key,
         \A s \in Thread : /\ th'[s].op = th[s].op \/ th'[s].op # "insert"
                           /\ th'[s].key = th[s].key \/ th'[s].op # "insert",
         \A s \in Thread \ {t} : th'[s].pc = th[s].pc,
         th'[t].pc = "in" \/ th'[t].pc \notin {"want", "in"},
         \A k \in Key : k = th[t].key \/ expect'[k] = expect[k],
         expect' # expect => Writes(th[t].op, th[t].key)
  PROVE  InsertsNew'
<1>1. ASSUME NEW s \in Thread \ {t}, th[s].op = "insert", th[s].pc = "want"
      PROVE  expect'[th[s].key] = expect[th[s].key]
  <2>1. expect[th[s].key] = {Absent} /\ th[s].key \in Key
    BY <1>1 DEF BaseInv, InsertsNew, CallInv, Asked
  <2>2. CASE expect' = expect BY <2>2
  <2>3. CASE Writes(th[t].op, th[t].key) /\ th[t].op = "insert"
    <3>1. th[s].key # th[t].key BY <1>1, <2>3 DEF BaseInv, InsertsNew
    <3> QED BY <2>1, <3>1
  <2>4. CASE Writes(th[t].op, th[t].key) /\ th[t].op # "insert"
    <3>1. expect[th[t].key] # {Absent} BY <2>4 DEF Writes, BaseInv
    <3> QED BY <2>1, <3>1
  <2> QED BY <2>2, <2>3, <2>4
<1>2. ASSUME NEW s \in Thread, th'[s].op = "insert", th'[s].pc \in {"want", "in"}
      PROVE  th[s].op = "insert" /\ th[s].pc \in {"want", "in"} /\ th'[s].key = th[s].key
  BY <1>2
<1>3. ASSUME NEW s \in Thread, th'[s].op = "insert"
      PROVE  /\ th'[s].pc = "want" => expect'[th'[s].key] = {Absent}
             /\ th'[s].pc \in {"want", "in"} =>
                  \A u \in Thread \ {s} :
                    th'[u].op = "insert" /\ th'[u].pc \in {"want", "in"}
                      => th'[u].key # th'[s].key
  <2>1. ASSUME th'[s].pc = "want" PROVE expect'[th'[s].key] = {Absent}
    <3>1. s # t /\ th[s].pc = "want" BY <2>1
    <3>2. th[s].op = "insert" /\ th'[s].key = th[s].key BY <1>2, <1>3, <2>1
    <3>3. expect[th[s].key] = {Absent}
      BY <3>1, <3>2, Zenon DEF BaseInv, InsertsNew
    <3> QED BY <1>1, <3>1, <3>2, <3>3
  <2>2. ASSUME th'[s].pc \in {"want", "in"}, NEW u \in Thread \ {s},
               th'[u].op = "insert", th'[u].pc \in {"want", "in"}
        PROVE  th'[u].key # th'[s].key
    <3>1. /\ th[s].op = "insert" /\ th[s].pc \in {"want", "in"}
          /\ th'[s].key = th[s].key
      BY <1>2, <1>3, <2>2
    <3>2. /\ th[u].op = "insert" /\ th[u].pc \in {"want", "in"}
          /\ th'[u].key = th[u].key
      BY <1>2, <2>2
    <3>3. th[u].key # th[s].key
      BY <3>1, <3>2, Zenon DEF BaseInv, InsertsNew
    <3> QED BY <3>1, <3>2, <3>3
  <2> QED BY <2>1, <2>2
<1> QED BY <1>3, Zenon DEF InsertsNew

\* The calls of a client, and what it does outside its operations.
LEMMA BaseCalls ==
  ASSUME BaseInv, NEW t \in Thread,
         \/ \E k \in Key : \/ CallRead(t, k)
                           \/ \E n \in Version : CallInsert(t, k, n) \/ CallUpdate(t, k, n)
         \/ CopyOut(t) \/ Return(t)
  PROVE  /\ BaseInv' /\ UNCHANGED <<pvars, cls, phase, prog, expect, starts>>
         /\ th[t].pc # "in" /\ th'[t].pc # "in"
         /\ \A u \in Thread \ {t} : th'[u] = th[u]
<1> DEFINE Same == /\ UNCHANGED <<pvars, cls, phase, prog, expect, starts>>
                   /\ th[t].pc # "in" /\ th'[t].pc # "in"
                   /\ \A u \in Thread \ {t} : th'[u] = th[u]
<1>1. ASSUME NEW k \in Key,
             NEW op \in {"insert", "update", "read"}, NEW v \in Val \cup {0},
             Call(t, op, k, v), op # "read" => v \in Val,
             op = "insert" => InsertsNew'
      PROVE  CallInv' /\ Same /\ InsertsNew'
  <2>1. StartCall(t, op, k, v) BY <1>1 DEF Call
  <2>2. CallInv' BY <1>1, <2>1, StartCallCalls DEF BaseInv
  <2>3. Same /\ th'[t].op = op
    BY <2>1 DEF StartCall, Idle, BaseInv, CallInv, CallTypeOK
  <2>4. InsertsNew'
    <3>1. CASE op = "insert" BY <1>1, <3>1
    <3>2. CASE op # "insert"
      BY <2>3, <3>2, InsertsSame DEF BaseInv
    <3> QED BY <3>1, <3>2
  <2> QED BY <2>2, <2>3, <2>4
<1>2. ASSUME NEW k \in Key, CallRead(t, k) PROVE CallInv' /\ Same /\ InsertsNew'
  BY <1>1, <1>2 DEF CallRead
<1>3. ASSUME NEW k \in Key, NEW n \in Version, CallInsert(t, k, n) \/ CallUpdate(t, k, n)
      PROVE  CallInv' /\ Same /\ InsertsNew'
  <2>1. ValOf(k, n) \in Val BY DEF Val
  <2>2. CASE CallInsert(t, k, n)
    <3>1. InsertsNew' BY <2>2, InsertsCall
    <3> QED BY <1>1, <2>1, <2>2, <3>1 DEF CallInsert
  <2>3. CASE CallUpdate(t, k, n) BY <1>1, <2>1, <2>3 DEF CallUpdate
  <2> QED BY <1>3, <2>2, <2>3
<1>4. ASSUME CopyOut(t) PROVE CallInv' /\ Same /\ InsertsNew'
  <2>1. CallInv' BY <1>4, CopyOutCalls DEF BaseInv, MemoryTypeOK
  <2>2. Same /\ th'[t].pc = "got"
    BY <1>4 DEF CopyOut, BaseInv, CallInv, CallTypeOK, CallState
  <2>3. InsertsNew' BY <2>2, InsertsSame DEF BaseInv
  <2> QED BY <2>1, <2>2, <2>3
<1>5. ASSUME Return(t) PROVE CallInv' /\ Same /\ InsertsNew'
  <2>1. CallInv' BY <1>5, ReturnCalls DEF BaseInv
  <2>2. Same /\ th'[t].pc = "idle"
    BY <1>5 DEF Return, Idle, BaseInv, CallInv, CallTypeOK
  <2>3. InsertsNew' BY <2>2, InsertsSame DEF BaseInv
  <2> QED BY <2>1, <2>2, <2>3
<1> HIDE DEF Same
<1>6. CallInv' /\ Same /\ InsertsNew' BY <1>2, <1>3, <1>4, <1>5
<1> USE DEF Same
<1>7. PoolInv' BY <1>6, PoolSame
<1> QED BY <1>6, <1>7, BaseIs

\* A thread takes the lock and is given its program.
LEMMA BaseEnter ==
  ASSUME BaseInv, NEW t \in Thread, NEW p \in Seq(Keeper), NEW ptr \in Cell \cup {None},
         th[t].op \in {"insert", "update", "read"},
         p # <<>> => th[t].op \in {"insert", "update"},
         Enter(t, p, ptr)
  PROVE  /\ BaseInv' /\ UNCHANGED <<pvars, cls, phase, starts>>
         /\ phase = "serve" /\ th[t].key \in Key
         /\ th[t].op \in {"insert", "update"} => th[t].val \in Val
         /\ prog[t] = <<>> /\ prog'[t] = p
         /\ \A b \in Actor \ {t} : prog'[b] = prog[b]
         /\ expect' = IF Writes(th[t].op, th[t].key)
                      THEN [expect EXCEPT ![th[t].key] = @ \cup {th[t].val}] ELSE expect
         /\ th'[t].pc = "in" /\ th'[t].op = th[t].op /\ th'[t].key = th[t].key
         /\ th'[t].val = th[t].val
         /\ \A s \in Thread : ~Updating(s)
         /\ \A s \in Thread \ {t} : th'[s].pc = th[s].pc /\ th'[s].op = th[s].op
                                    /\ th'[s].key = th[s].key /\ th'[s].val = th[s].val
<1> DEFINE k == th[t].key  v == th[t].val  w == Writes(th[t].op, k)
<1>1. /\ th[t].pc = "want" /\ Available(Mode(th[t].op), t)
      /\ UNCHANGED <<pvars, cls, phase, starts>> /\ prog' = [prog EXCEPT ![t] = p]
      /\ expect' = IF w THEN [expect EXCEPT ![k] = @ \cup {v}] ELSE expect
      /\ th' = [s \in Thread |->
                  IF s = t THEN [th[t] EXCEPT !.pc = "in", !.ptr = ptr]
                  ELSE IF w /\ th[s].op = "read" /\ th[s].key = k
                       THEN [th[s] EXCEPT !.legal = @ \cup {v}]
                       ELSE th[s]]
  BY DEF Enter
<1>2. /\ phase = "serve" /\ k \in Key
      /\ th[t].op \in {"insert", "update"} => v \in Val
      /\ prog[t] = <<>>
  BY <1>1 DEF BaseInv, CallInv, CallsServed, Quiet, Asked, ProgramsOwned, Updating
<1>3. \A s \in Thread : ~Updating(s)
  BY <1>1, LockExcludes DEF BaseInv, Updating
<1>4. \A s \in Thread : th[s] \in CallState BY DEF BaseInv, CallInv, CallTypeOK
<1>5. /\ th'[t].pc = "in" /\ th'[t].op = th[t].op /\ th'[t].key = k /\ th'[t].val = v
      /\ \A s \in Thread \ {t} : th'[s].pc = th[s].pc /\ th'[s].op = th[s].op
                                 /\ th'[s].key = th[s].key /\ th'[s].val = th[s].val
  BY <1>1, <1>4 DEF CallState
<1>6. CallInv' BY EnterCalls DEF BaseInv
<1>7. InsertsNew'
  <2>1. \A j \in Key : j = k \/ expect'[j] = expect[j]
    BY <1>1 DEF BaseInv, CallInv, CallTypeOK
  <2>2. expect' # expect => w BY <1>1
  <2> HIDE DEF w, k, v
  <2>3. /\ \A s \in Thread : /\ th'[s].op = th[s].op \/ th'[s].op # "insert"
                             /\ th'[s].key = th[s].key \/ th'[s].op # "insert"
        /\ th[t].key \in Key
        /\ \A j \in Key : j = th[t].key \/ expect'[j] = expect[j]
        /\ expect' # expect => Writes(th[t].op, th[t].key)
    BY <1>2, <1>5, <2>1, <2>2 DEF k, w
  <2> QED BY <1>1, <1>5, <2>3, InsertsWrite
<1>8. /\ PoolInv' /\ prog'[t] = p /\ \A b \in Actor \ {t} : prog'[b] = prog[b]
  <2>1. UNCHANGED <<mem, may, vol, live, intx, undo, fresh, dying, power, cls>>
    BY <1>1 DEF pvars
  <2>2. p \in Seq(Wiper) /\ p \in Seq(Step) /\ t \in Actor BY KeeperIs DEF Actor
  <2>3. power' \in {"up", "failed", "exited"}
    BY <2>1 DEF BaseInv, MemoryTypeOK
  <2>4. PoolInv' BY <1>1, <1>2, <2>1, <2>2, <2>3, PoolBegins
  <2>5. /\ prog'[t] = p /\ \A b \in Actor \ {t} : prog'[b] = prog[b]
    BY <1>1, <2>2, StartsProgram DEF BaseInv
  <2> QED BY <2>4, <2>5
<1>9. BaseInv' BY <1>1, <1>6, <1>7, <1>8, BaseIs
<1> QED BY <1>1, <1>2, <1>3, <1>5, <1>8, <1>9

LEMMA BaseLeave ==
  ASSUME BaseInv, NEW t \in Thread, Leave(t)
  PROVE  /\ BaseInv' /\ UNCHANGED <<pvars, cls, phase, prog, starts>>
         /\ th[t].pc = "in" /\ prog[t] = <<>> /\ phase = "serve"
         /\ expect' = IF Writes(th[t].op, th[t].key)
                      THEN [expect EXCEPT ![th[t].key] = {th[t].val}] ELSE expect
         /\ th'[t].pc # "in" /\ \A s \in Thread \ {t} : th'[s] = th[s]
<1> DEFINE k == th[t].key  w == Writes(th[t].op, k)
<1>1. CallInv' BY LeaveCalls DEF BaseInv
<1>2. /\ th[t].pc = "in" /\ prog[t] = <<>>
      /\ expect' = IF w THEN [expect EXCEPT ![k] = {th[t].val}] ELSE expect
      /\ UNCHANGED <<pvars, cls, phase, prog, starts>>
      /\ th'[t].pc \notin {"in", "want"} /\ \A s \in Thread \ {t} : th'[s] = th[s]
      /\ th'[t].op = th[t].op \/ th'[t].op = "none"
      /\ th'[t].key = th[t].key \/ th'[t].op = "none"
  BY DEF Leave, Idle, BaseInv, CallInv, CallTypeOK, CallState
<1>3. phase = "serve" /\ k \in Key
  BY <1>2 DEF BaseInv, CallInv, CallsServed, Quiet, Asked
<1>4. InsertsNew'
  <2>1. \A j \in Key : j = k \/ expect'[j] = expect[j]
    BY <1>2 DEF BaseInv, CallInv, CallTypeOK
  <2>2. expect' # expect => w BY <1>2
  <2>3. /\ \A s \in Thread : /\ th'[s].op = th[s].op \/ th'[s].op # "insert"
                             /\ th'[s].key = th[s].key \/ th'[s].op # "insert"
        /\ \A s \in Thread \ {t} : th'[s].pc = th[s].pc
    BY <1>2
  <2> QED BY <1>2, <1>3, <2>1, <2>2, <2>3, InsertsWrite
<1>5. PoolInv' BY <1>2, PoolSame
<1>6. BaseInv' BY <1>1, <1>2, <1>4, <1>5, BaseIs
<1> QED BY <1>2, <1>3, <1>6

LEMMA BaseExec ==
  ASSUME BaseInv, NEW a \in Actor, Exec(a) PROVE BaseInv'
<1>1. CallInv' BY ExecCalls DEF BaseInv
<1>2. UNCHANGED <<cls, th, expect>> BY ExecIs DEF BaseInv
<1>3. InsertsNew' BY <1>2, InsertsSame DEF BaseInv
<1> QED BY <1>1, <1>2, <1>3, PoolExec, BaseIs

\* The process ends, by a failure, by its own doing or at the end of destroy.
LEMMA BaseGone ==
  ASSUME BaseInv, Close \/ Crash \/ Dies
  PROVE  BaseInv' /\ phase' \in {"down", "closed"}
<1>1. CASE Close
  <2>1. CallInv' BY <1>1, CloseCalls DEF BaseInv
  <2>2. /\ phase = "destroy" /\ prog[main] = <<>> /\ Fail("exited")
        /\ phase' = "closed" /\ UNCHANGED <<cls, prog, th>>
    BY <1>1 DEF Close, ProcessExit
  <2>3. Quiet BY <2>2 DEF BaseInv, CallInv, CallsServed
  <2>4. \A a \in Actor : prog[a] = <<>>
    BY <2>2, <2>3, QuietPrograms DEF BaseInv, Actor
  <2>5. \A a \in Actor : prog'[a] = <<>> BY <2>2, <2>4
  <2>6. prog' = [a \in Actor |-> prog'[a]]
    BY <2>2 DEF BaseInv, CallInv, CallTypeOK
  <2>7. PoolInv' BY <2>2, <2>5, <2>6, PoolFails
  <2>8. InsertsNew' BY <2>2, <2>3, InsertsQuiet DEF Quiet
  <2> QED BY <2>1, <2>2, <2>7, <2>8, BaseIs
<1>2. ASSUME CallInv', NEW how \in {"failed", "exited"}, Fail(how), Gone
      PROVE  BaseInv' /\ phase' \in {"down", "closed"}
  <2>1. /\ phase' = "down" /\ cls' = cls
        /\ prog' = [a \in Actor |-> <<>>] /\ \A t \in Thread : th'[t].pc = "idle"
    BY <1>2 DEF Gone, Actor, Idle
  <2>2. \A a \in Actor : prog'[a] = <<>> BY <2>1
  <2>3. prog' = [a \in Actor |-> prog'[a]] BY <2>1
  <2>4. PoolInv' BY <1>2, <2>1, <2>2, <2>3, PoolFails
  <2>5. InsertsNew' BY <2>1, InsertsQuiet
  <2> QED BY <1>2, <2>1, <2>4, <2>5, BaseIs
<1>3. CASE Crash
  <2>1. CallInv' BY <1>3, CrashCalls DEF BaseInv
  <2> QED BY <1>2, <1>3, <2>1 DEF Crash, PowerFail
<1>4. CASE Dies
  <2>1. CallInv' BY <1>4, DiesCalls DEF BaseInv
  <2> QED BY <1>2, <1>4, <2>1 DEF Dies, ProcessExit
<1> QED BY <1>1, <1>3, <1>4

LEMMA BaseSettling ==
  ASSUME BaseInv, Settling
  PROVE  BaseInv' /\ phase' \notin {"init", "serve"}
<1>1. CallInv' BY SettlingCalls DEF BaseInv
<1>2. power = "failed" /\ UNCHANGED svars
  BY DEF Settling, SettleNext, Settle
<1>3. UNCHANGED <<cls, phase, th, expect>> BY <1>2 DEF svars
<1>4. phase' \notin {"init", "serve"}
  BY <1>2, <1>3 DEF BaseInv, CallInv, CallsServed
<1>5. InsertsNew' BY <1>3, InsertsSame DEF BaseInv
<1> QED BY <1>1, <1>3, <1>4, <1>5, PoolSettling, BaseIs

LEMMA BaseReopen ==
  ASSUME BaseInv, Reopen(init) PROVE BaseInv' /\ starts' # 0
<1>1. CallInv' BY ReopenCalls DEF BaseInv
<1>2. /\ phase \in {"down", "closed"} /\ phase' = "init"
      /\ starts' = starts + 1 /\ prog' = [prog EXCEPT ![main] = init]
      /\ UNCHANGED <<cls, th, expect, mem, may, vol, live, intx, undo, fresh, dying>>
      /\ power' = "up"
  BY DEF Reopen, Open
<1>3. starts' # 0 BY <1>2 DEF BaseInv, CallInv, CallTypeOK
<1>4. init \in Seq(Keeper) /\ init \in Seq(Wiper) /\ main \in Actor
  BY InitKeeps, KeeperIs DEF Actor
<1> DEFINE p == init
<1> HIDE DEF p
<1>5. PoolInv'
  <2>1. p \in Seq(Keeper) /\ p \in Seq(Wiper) /\ prog' = [prog EXCEPT ![main] = p]
    BY <1>2, <1>4 DEF p
  <2> QED BY <1>2, <1>4, <2>1, PoolBegins
<1>6. InsertsNew' BY <1>2, InsertsSame DEF BaseInv
<1> QED BY <1>1, <1>2, <1>3, <1>5, <1>6, BaseIs

LEMMA BaseDestroy ==
  ASSUME BaseInv, Destroy(destroy) PROVE BaseInv' /\ phase' = "destroy"
<1>1. CallInv' BY DestroyCalls DEF BaseInv
<1>2. /\ phase = "serve" /\ phase' = "destroy" /\ Quiet
      /\ prog' = [prog EXCEPT ![main] = destroy] /\ UNCHANGED <<pvars, cls, th>>
  BY DEF Destroy
<1>3. destroy \in Seq(Wiper)
  <2>1. HoldOnly(RootCells, Node \cup {Zero}) /\ HoldOnly(Pointer, LeadsTo)
    BY <1>2 DEF BaseInv, RootTyped, PointersTyped
  <2>2. TailP \in Node \cup {Zero} BY <2>1, Cells DEF HoldOnly, TailP
  <2> QED BY <2>1, <2>2, DestroyWipes DEF BaseInv
<1> DEFINE p == destroy
<1> HIDE DEF p
<1>4. PoolInv'
  <2>1. p \in Seq(Wiper) /\ prog' = [prog EXCEPT ![main] = p] /\ main \in Actor
    BY <1>2, <1>3 DEF p, Actor
  <2>2. UNCHANGED <<mem, may, vol, live, intx, undo, fresh, dying, power, cls>>
    BY <1>2 DEF pvars
  <2>3. power' \in {"up", "failed", "exited"}
    BY <2>2 DEF BaseInv, MemoryTypeOK
  <2> QED BY <1>2, <2>1, <2>2, <2>3, PoolBegins
<1>5. InsertsNew' BY <1>2, InsertsQuiet DEF Quiet
<1> QED BY <1>1, <1>2, <1>4, <1>5, BaseIs

\* init has returned: what a walk through the list shows is what was there.
LEMMA ListedTyped ==
  ASSUME MemoryTypeOK
  PROVE  [k \in Key |-> Listed(k)] \in [Key -> Value \cup {Absent}]
<1>1. ASSUME NEW k \in Key PROVE Listed(k) \in Value \cup {Absent}
  <2>1. CASE FindNode(k) \in Node
    <3>1. mem[<<FindNode(k), "value">>] \in Value
      BY <2>1, Cells DEF MemoryTypeOK
    <3> QED BY <3>1 DEF Listed
  <2>2. CASE FindNode(k) \notin Node BY <2>2 DEF Listed
  <2> QED BY <2>1, <2>2
<1> QED BY <1>1

LEMMA BaseInitDone ==
  ASSUME BaseInv, InitDone([k \in Key |-> Listed(k)])
  PROVE  /\ BaseInv' /\ UNCHANGED <<pvars, cls, th, prog, starts>>
         /\ phase = "init" /\ phase' = "serve" /\ prog[main] = <<>>
         /\ \A k \in Key : expect'[k] = {Listed(k)}
         /\ \A t \in Thread : th'[t].pc = "idle"
         /\ DOMAIN expect' = Key /\ expect' = [k \in Key |-> {Listed(k)}]
<1> DEFINE found == [k \in Key |-> Listed(k)]
<1>1. /\ phase = "init" /\ prog[main] = <<>> /\ phase' = "serve"
      /\ expect' = [k \in Key |-> {found[k]}]
      /\ UNCHANGED <<pvars, cls, th, prog, starts>>
  BY DEF InitDone
<1>2. found \in [Key -> Value \cup {Absent}] BY ListedTyped DEF BaseInv
<1>3. InitDone(found) OBVIOUS
<1>4. \A k \in Key : found[k] = Listed(k) OBVIOUS
<1> HIDE DEF found
<1>5. CallInv' BY <1>2, <1>3, InitDoneCalls DEF BaseInv
<1>6. \A t \in Thread : th'[t].pc = "idle"
  BY <1>1 DEF BaseInv, CallInv, CallsServed, Quiet
<1>7. PoolInv' BY <1>1, PoolSame
<1>8. BaseInv' BY <1>1, <1>5, <1>6, <1>7, InsertsQuiet, BaseIs
<1> QED BY <1>1, <1>4, <1>6, <1>8

LEMMA BaseUnchanged ==
  ASSUME BaseInv, UNCHANGED vars PROVE BaseInv'
<1>1. CallInv' BY SettlingCalls DEF BaseInv
<1>2. UNCHANGED <<pvars, cls, phase, prog, th, expect>> BY DEF vars, svars
<1>3. InsertsNew' BY <1>2, InsertsSame DEF BaseInv
<1>4. PoolInv' BY <1>2, PoolSame
<1> QED BY <1>1, <1>2, <1>3, <1>4, BaseIs

LEMMA InitBase == ListInit => BaseInv
<1> SUFFICES ASSUME StoredsInit(RootCells, {}, init), ~cls.upsert PROVE BaseInv
  BY DEF ListInit
<1>1. CallInv BY InitCalls
<1>2. /\ phase = "init" /\ \A t \in Thread : th[t] = Idle
      /\ prog = [t \in Thread \cup {main} |-> IF t = main THEN init ELSE <<>>]
      /\ IF Volatile(cls) THEN PoolInit(Cell, {}) ELSE PoolInit({}, RootCells)
  BY DEF StoredsInit
<1>3. /\ mem = [d \in Cell |-> Zero] /\ may = [d \in Cell |-> {Zero}]
      /\ vol \subseteq Cell /\ live \subseteq Cell /\ intx = FALSE
      /\ undo = NoUndo /\ fresh = {} /\ dying = {} /\ power = "up"
      /\ Volatile(cls) => vol = Cell
  <2>1. RootCells \subseteq Cell BY Cells
  <2> QED BY <1>2, <2>1 DEF PoolInit
<1>4. MemoryTypeOK BY <1>3, ZeroAssumption, NoUndoFacts DEF MemoryTypeOK
<1>5. HoldOnly(Pointer, LeadsTo) /\ HoldOnly(RootCells, Node \cup {Zero})
  BY <1>3, Cells, NoUndoFacts, Leading DEF HoldOnly
<1>6. init \in Seq(Keeper) BY InitKeeps
<1> DEFINE p == init
<1>7. /\ p \in Seq(Step) /\ FreesNothing(p)
      /\ StoresOnly(p, Pointer, LeadsTo)
      /\ StoresOnly(p, RootCells, Node \cup {Zero})
  BY <1>6, KeeperIs
<1> HIDE DEF p
<1>8. ASSUME NEW a \in Actor
      PROVE  /\ prog[a] \in Seq(Step) /\ FreesNothing(prog[a])
             /\ StoresOnly(prog[a], Pointer, LeadsTo)
             /\ StoresOnly(prog[a], RootCells, Node \cup {Zero})
  <2>1. prog[a] = p \/ prog[a] = <<>> BY <1>2 DEF Actor, p
  <2> QED BY <1>7, <2>1, NoProgram, Zenon
<1>9. prog = [a \in Actor |-> prog[a]] BY <1>1 DEF CallInv, CallTypeOK
<1>10. ProgramsTyped
  <2>1. \A a \in Actor : prog[a] \in Seq(Step) BY <1>8
  <2> QED BY <1>9, <2>1, Zenon DEF ProgramsTyped
<1>11. PointersTyped /\ RootTyped /\ NothingFreed
  BY <1>3, <1>5, <1>8, Zenon DEF PointersTyped, RootTyped, NothingFreed
<1>12. InsertsNew BY <1>2 DEF InsertsNew, Idle
<1> QED BY <1>1, <1>4, <1>10, <1>11, <1>12 DEF BaseInv

-----------------------------------------------------------------------------
(***************************************************************************)
(* Every step keeps ListInv.                                               *)
(***************************************************************************)
\* What the call o makes of the expectation e.
Wants(e, o) ==
  IF o.op = "insert" \/ (o.op = "update" /\ e[o.key] # {Absent})
  THEN [e EXCEPT ![o.key] = {o.val}] ELSE e

LEMMA ListInvIs ==
  ASSUME BaseInv, BaseInv'
  PROVE
  /\ ListInv <=>
       (starts = 0 =>
         /\ phase = "init" => HoldsIn(mem, live, prog[main], NoRecords)
         /\ phase = "serve" /\ (\A t \in Thread : ~Updating(t))
              => HoldsIn(mem, live, <<>>, expect) /\ Certain(expect)
         /\ \A t \in Thread : Updating(t) =>
              /\ HoldsIn(mem, live, prog[t], Wants(expect, th[t]))
              /\ Certain(Wants(expect, th[t])))
  /\ ListInv' <=>
       (starts' = 0 =>
         /\ phase' = "init" => HoldsIn(mem', live', prog'[main], NoRecords)
         /\ phase' = "serve" /\ (\A t \in Thread : ~Updating(t)')
              => HoldsIn(mem', live', <<>>, expect') /\ Certain(expect')
         /\ \A t \in Thread : Updating(t)' =>
              /\ HoldsIn(mem', live', prog'[t], Wants(expect', th'[t]))
              /\ Certain(Wants(expect', th'[t])))
<1>1. ~cls.upsert /\ ~cls'.upsert BY DEF BaseInv
<1>2. \A t : Written(t) = Wants(expect, th[t])
  BY <1>1 DEF Written, Writes, Wants
<1>3. \A t : Written(t)' = Wants(expect', th'[t])
  BY <1>1 DEF Written, Writes, Wants
<1>4. /\ HoldsIn(mem, live, prog[main], NoRecords)' <=>
           HoldsIn(mem', live', prog'[main], NoRecords)
      /\ HoldsIn(mem, live, <<>>, expect)' <=> HoldsIn(mem', live', <<>>, expect')
      /\ \A t : HoldsIn(mem, live, prog[t], Written(t))' <=>
                  HoldsIn(mem', live', prog'[t], Written(t)')
  BY Zenon DEF HoldsIn
<1>5. /\ Certain(expect)' <=> Certain(expect')
      /\ \A t : Certain(Written(t))' <=> Certain(Written(t)')
  BY Zenon DEF Certain
<1>6. ListInv <=>
       (starts = 0 =>
         /\ phase = "init" => HoldsIn(mem, live, prog[main], NoRecords)
         /\ phase = "serve" /\ (\A t \in Thread : ~Updating(t))
              => HoldsIn(mem, live, <<>>, expect) /\ Certain(expect)
         /\ \A t \in Thread : Updating(t) =>
              /\ HoldsIn(mem, live, prog[t], Wants(expect, th[t]))
              /\ Certain(Wants(expect, th[t])))
  BY <1>2, Zenon DEF ListInv
<1>7. ListInv' <=>
       (starts' = 0 =>
         /\ phase' = "init" => HoldsIn(mem', live', prog'[main], NoRecords)
         /\ phase' = "serve" /\ (\A t \in Thread : ~Updating(t)')
              => HoldsIn(mem', live', <<>>, expect') /\ Certain(expect')
         /\ \A t \in Thread : Updating(t)' =>
              /\ HoldsIn(mem', live', prog'[t], Wants(expect', th'[t]))
              /\ Certain(Wants(expect', th'[t])))
  BY <1>3, <1>4, <1>5, Zenon DEF ListInv
<1> QED BY <1>6, <1>7, Zenon

\* Nothing is to be held while nobody serves or starts to, nor in a later process.
LEMMA Offline ==
  ASSUME BaseInv, BaseInv', phase' \notin {"init", "serve"} \/ starts' # 0
  PROVE  ListInv'
<1>1. CASE starts' # 0 BY <1>1, ListInvIs, Zenon
<1>2. CASE phase' \notin {"init", "serve"}
  <2>1. \A t \in Thread : th'[t].pc = "idle"
    BY <1>2 DEF BaseInv, CallInv, CallsServed, Quiet
  <2>2. \A t \in Thread : ~Updating(t)' BY <2>1 DEF Updating
  <2> QED BY <1>2, <2>2, ListInvIs
<1> QED BY <1>1, <1>2

\* What a program will leave does not change while it is performed.
LEMMA ExecHolds ==
  ASSUME BaseInv, phase # "destroy", NEW a \in Actor, Exec(a), NEW want,
         HoldsIn(mem, live, prog[a], want)
  PROVE  HoldsIn(mem', live', prog'[a], want)
<1> DEFINE u == prog[a][1]
<1>1. /\ prog[a] \in Seq(Step) /\ prog[a] # <<>>
      /\ u \in Step /\ MemoryStep(u) /\ prog'[a] = Tail(prog[a])
      /\ \A F : Yields(prog[a], mem, F) => Yields(prog'[a], mem', F)
      /\ ToAllocate(prog[a]) = Allocates(u) \cup ToAllocate(prog'[a])
  BY ExecDoes, Zenon DEF BaseInv
<1>2. dying = {} /\ Releases(u) = {}
  <2>1. 1 \in DOMAIN prog[a] BY <1>1, TailIs
  <2> QED BY <2>1 DEF BaseInv, NothingFreed, FreesNothing
<1> HIDE DEF u
<1>3. live \cup Allocates(u) \subseteq live' BY <1>1, <1>2, StepKeepsLive
<1>4. live \cup ToAllocate(prog[a]) \subseteq live' \cup ToAllocate(prog'[a])
  BY <1>1, <1>3
<1>5. PICK F, ns :
        /\ ns \in Seq(Node) /\ Yields(prog[a], mem, F)
        /\ Linked(F, ns) /\ Ended(F, ns) /\ Keyed(F, ns) /\ Shown(F, ns, want)
        /\ KeptIn(ns, live \cup ToAllocate(prog[a]))
  BY Zenon DEF HoldsIn
<1>6. KeptIn(ns, live' \cup ToAllocate(prog'[a]))
  BY <1>4, <1>5 DEF KeptIn
<1> QED BY <1>1, <1>5, <1>6, Zenon DEF HoldsIn

LEMMA ExecKeeps ==
  ASSUME IInv, NEW a \in Actor, Exec(a) PROVE IInv'
<1>1. BaseInv /\ BaseInv' /\ ListInv BY BaseExec DEF IInv
<1>2. UNCHANGED <<cls, phase, th, rd, wr, expect, dirty, calls, fails, starts>>
  BY <1>1, ExecIs DEF BaseInv
<1>3. prog[a] # <<>> BY DEF Exec
<1>4. \A t \in Thread : Updating(t)' <=> Updating(t) BY <1>2 DEF Updating
<1>5. CASE phase \notin {"init", "serve"} \/ starts # 0
  BY <1>1, <1>2, <1>5, Offline DEF IInv
<1>6. CASE phase = "init" /\ starts = 0
  <2>1. \A t \in Thread : ~Updating(t)
    BY <1>1, <1>6 DEF BaseInv, CallInv, CallsServed, Quiet, Updating
  <2>2. a = main
    BY <1>1, <1>3, <2>1 DEF BaseInv, CallInv, ProgramsOwned, Actor
  <2>3. HoldsIn(mem, live, prog[main], NoRecords) BY <1>1, <1>6, ListInvIs
  <2>4. HoldsIn(mem', live', prog'[main], NoRecords)
    BY <1>1, <1>6, <2>2, <2>3, ExecHolds
  <2>5. ListInv' BY <1>1, <1>2, <1>4, <1>6, <2>1, <2>4, ListInvIs
  <2> QED BY <1>1, <2>5 DEF IInv
<1>7. CASE phase = "serve" /\ starts = 0
  <2>1. a \in Thread /\ Updating(a)
    BY <1>1, <1>3, <1>7 DEF BaseInv, CallInv, ProgramsOwned, Actor
  <2>2. \A t \in Thread : Updating(t) => t = a
    BY <1>1, <2>1 DEF BaseInv, CallInv, Excluded, Updating
  <2> DEFINE want == Wants(expect, th[a])
  <2>3. HoldsIn(mem, live, prog[a], want) /\ Certain(want)
    BY <1>1, <1>7, <2>1, ListInvIs
  <2>4. want = Wants(expect', th'[a]) BY <1>2
  <2> HIDE DEF want
  <2>5. HoldsIn(mem', live', prog'[a], want)
    BY <1>1, <1>7, <2>3, ExecHolds
  <2>6. \A t \in Thread : Updating(t)' =>
          /\ HoldsIn(mem', live', prog'[t], Wants(expect', th'[t]))
          /\ Certain(Wants(expect', th'[t]))
    BY <1>4, <2>2, <2>3, <2>4, <2>5
  <2>7. Updating(a)' /\ phase' # "init" BY <1>2, <1>4, <1>7, <2>1
  <2>8. ListInv' BY <1>1, <2>1, <2>6, <2>7, ListInvIs
  <2> QED BY <1>1, <2>8 DEF IInv
<1> QED BY <1>5, <1>6, <1>7

\* A step that changes neither the list, nor what is expected, nor who updates.
LEMMA SameKeeps ==
  ASSUME IInv, BaseInv', UNCHANGED <<pvars, phase, prog, expect, starts>>,
         \A t \in Thread :
           Updating(t)' => Updating(t) /\ th'[t] = th[t],
         \A t \in Thread : Updating(t) => Updating(t)'
  PROVE  IInv'
<1>1. mem' = mem /\ live' = live BY DEF pvars
<1>2. BaseInv /\ ListInv BY DEF IInv
<1>3. ASSUME starts = 0, NEW t \in Thread, Updating(t)'
      PROVE  /\ HoldsIn(mem', live', prog'[t], Wants(expect', th'[t]))
             /\ Certain(Wants(expect', th'[t]))
  <2>1. Updating(t) /\ th'[t] = th[t] BY <1>3
  <2>2. /\ HoldsIn(mem, live, prog[t], Wants(expect, th[t]))
        /\ Certain(Wants(expect, th[t]))
    BY <1>2, <1>3, <2>1, ListInvIs
  <2> QED BY <1>1, <2>1, <2>2
<1>4. ListInv' BY <1>1, <1>2, <1>3, ListInvIs
<1> QED BY <1>4 DEF IInv

LEMMA CallKeeps ==
  ASSUME IInv, NEW t \in Thread,
         \/ \E k \in Key : \/ CallRead(t, k)
                           \/ \E n \in Version : CallInsert(t, k, n) \/ CallUpdate(t, k, n)
         \/ CopyOut(t) \/ Return(t)
  PROVE  IInv'
<1>1. BaseInv BY DEF IInv
<1>2. /\ BaseInv' /\ UNCHANGED <<pvars, cls, phase, prog, expect, starts>>
      /\ th[t].pc # "in" /\ th'[t].pc # "in"
      /\ \A u \in Thread \ {t} : th'[u] = th[u]
  BY <1>1, BaseCalls
<1>3. /\ \A u \in Thread : Updating(u)' => Updating(u) /\ th'[u] = th[u]
      /\ \A u \in Thread : Updating(u) => Updating(u)'
  BY <1>2 DEF Updating
<1> QED BY <1>2, <1>3, SameKeeps

LEMMA UnchangedKeeps == ASSUME IInv, UNCHANGED vars PROVE IInv'
<1>1. BaseInv' BY BaseUnchanged DEF IInv
<1>2. UNCHANGED <<pvars, phase, prog, expect, starts, th>> BY DEF vars, svars
<1>3. /\ \A u \in Thread : Updating(u)' => Updating(u) /\ th'[u] = th[u]
      /\ \A u \in Thread : Updating(u) => Updating(u)'
  BY <1>2 DEF Updating
<1> QED BY <1>1, <1>2, <1>3, SameKeeps

\* While no thread updates, the list is as it is expected to be.
LEMMA Serving ==
  ASSUME IInv, starts = 0, phase = "serve", \A t \in Thread : ~Updating(t)
  PROVE  Certain(expect) /\ \E ns : Serves(ns)
<1>1. HoldsIn(mem, live, <<>>, expect) /\ Certain(expect) BY DEF IInv, ListInv
<1>2. \E ns \in Seq(Node) :
        /\ Linked(mem, ns) /\ Ended(mem, ns) /\ Keyed(mem, ns)
        /\ Shown(mem, ns, expect) /\ KeptIn(ns, live)
  BY <1>1, HeldNow
<1> QED BY <1>1, <1>2, Zenon DEF Serves, Held

\* What an operation is given to do leaves the list that is wanted.
LEMMA EnterKeeps ==
  ASSUME IInv, NEW t \in Thread, NEW p \in Seq(Keeper), NEW ptr \in Cell \cup {None},
         th[t].op \in {"insert", "update", "read"},
         p # <<>> => th[t].op \in {"insert", "update"},
         Enter(t, p, ptr),
         th[t].op # "read" /\ starts = 0 =>
           /\ HoldsIn(mem, live, p, Wants(expect, th[t]))
           /\ Certain(Wants(expect, th[t]))
  PROVE  IInv'
<1> DEFINE k == th[t].key  v == th[t].val  w == Writes(th[t].op, k)
<1>1. BaseInv /\ BaseInv' /\ UNCHANGED <<pvars, cls, phase, starts>>
      /\ phase = "serve" /\ k \in Key
      /\ (th[t].op \in {"insert", "update"} => v \in Val)
      /\ prog[t] = <<>> /\ prog'[t] = p
      /\ expect' = (IF w THEN [expect EXCEPT ![k] = @ \cup {v}] ELSE expect)
      /\ th'[t].pc = "in" /\ th'[t].op = th[t].op /\ th'[t].key = k
      /\ th'[t].val = v
      /\ (\A s \in Thread : ~Updating(s))
      /\ \A s \in Thread \ {t} : th'[s].pc = th[s].pc /\ th'[s].op = th[s].op
  <2>1. BaseInv BY DEF IInv
  <2> HIDE DEF w, k, v
  <2> QED BY <2>1, BaseEnter DEF w, k, v
<1>2. \A s \in Thread \ {t} : ~Updating(s)'
  BY <1>1 DEF Updating
<1>3. mem' = mem /\ live' = live BY <1>1 DEF pvars
<1>4. CASE th[t].op = "read"
  <2>1. ~w BY <1>4 DEF Writes
  <2>2. expect' = expect BY <1>1, <2>1
  <2>3. \A s \in Thread : ~Updating(s)' BY <1>1, <1>2, <1>4 DEF Updating
  <2>4. starts = 0 => HoldsIn(mem', live', <<>>, expect') /\ Certain(expect')
    BY <1>1, <1>3, <2>2, ListInvIs DEF IInv
  <2>5. ListInv' BY <1>1, <2>3, <2>4, ListInvIs
  <2> QED BY <1>1, <2>5 DEF IInv
<1>5. CASE th[t].op \in {"insert", "update"}
  <2>1. Wants(expect', th'[t]) = Wants(expect, th[t])
    <3>1. v # Absent BY <1>1, <1>5, Contents
    <3>2. w <=> th[t].op = "insert" \/ (th[t].op = "update" /\ expect[k] # {Absent})
      BY <1>1 DEF Writes, BaseInv
    <3>3. expect \in [Key -> SUBSET (Value \cup {Absent})]
      BY <1>1 DEF BaseInv, CallInv, CallTypeOK
    <3>4. CASE w
      <4>1. expect' = [expect EXCEPT ![k] = @ \cup {v}] BY <1>1, <3>4
      <4>2. expect'[k] = expect[k] \cup {v} BY <1>1, <3>3, <4>1
      <4>3. expect'[k] # {Absent} BY <3>1, <4>2
      <4>4. [expect' EXCEPT ![k] = {v}] = [expect EXCEPT ![k] = {v}] BY <4>1
      <4> HIDE DEF w
      <4> QED BY <1>1, <1>5, <3>2, <3>4, <4>3, <4>4 DEF Wants
    <3>5. CASE ~w
      <4>1. expect' = expect BY <1>1, <3>5
      <4> HIDE DEF w
      <4> QED BY <1>1, <3>2, <3>5, <4>1 DEF Wants
    <3> QED BY <3>4, <3>5
  <2>2. starts' = 0 =>
          /\ HoldsIn(mem', live', prog'[t], Wants(expect', th'[t]))
          /\ Certain(Wants(expect', th'[t]))
    BY <1>1, <1>3, <1>5, <2>1
  <2>3. Updating(t)' /\ phase' # "init" BY <1>1, <1>5 DEF Updating
  <2>4. ListInv' BY <1>1, <1>2, <2>2, <2>3, ListInvIs
  <2> QED BY <1>1, <2>4 DEF IInv
<1> QED BY <1>4, <1>5

\* Whoever takes the lock finds no update under way, and a root that leads to
\* nodes or nowhere.
LEMMA EnterFinds ==
  ASSUME BaseInv, NEW t \in Thread, NEW p, NEW ptr, Enter(t, p, ptr)
  PROVE  /\ phase = "serve" /\ th[t].key \in Key /\ th[t].pc = "want"
         /\ th[t].op \in {"insert", "update"} => th[t].val \in Val
         /\ \A u \in Thread : ~Updating(u)
         /\ HeadP \in Node \cup {Zero} /\ TailP \in Node \cup {Zero}
         /\ \A o \in Node : <<o, "value">> \in Cell
<1>1. th[t].pc = "want" /\ Available(Mode(th[t].op), t) BY DEF Enter
<1>2. /\ phase = "serve" /\ th[t].key \in Key
      /\ th[t].op \in {"insert", "update"} => th[t].val \in Val
  BY <1>1 DEF BaseInv, CallInv, CallsServed, Quiet, Asked
<1>3. \A u \in Thread : ~Updating(u)
  BY <1>1, LockExcludes DEF BaseInv, Updating
<1>4. HeadP \in Node \cup {Zero} /\ TailP \in Node \cup {Zero}
  BY <1>2, Cells DEF BaseInv, RootTyped, HoldOnly, HeadP, TailP
<1> QED BY <1>1, <1>2, <1>3, <1>4, Cells

LEMMA ReadKeeps == ASSUME IInv, NEW t \in Thread, Read(t) PROVE IInv'
<1>1. th[t].op = "read" BY DEF Read
<1>2. PICK ptr \in Cell \cup {None} : Enter(t, <<>>, ptr)
  <2> DEFINE o == FindNode(th[t].key)
  <2>1. \/ o \in Node /\ Enter(t, <<>>, <<o, "value">>)
        \/ o = Zero /\ Enter(t, <<>>, None)
    BY DEF Read
  <2> HIDE DEF o
  <2>2. o \in Node => <<o, "value">> \in Cell BY Cells
  <2> QED BY <2>1, <2>2
<1> QED BY <1>1, <1>2, NoProgram, EnterKeeps

LEMMA CertainWritten ==
  ASSUME Certain(expect), NEW k \in Key, NEW v \in Val,
         expect \in [Key -> SUBSET (Value \cup {Absent})]
  PROVE  Certain([expect EXCEPT ![k] = {v}])
<1> DEFINE want == [expect EXCEPT ![k] = {v}]
<1>1. want[k] = {v} /\ \A j \in Key : j # k => want[j] = expect[j] OBVIOUS
<1>2. v # Absent BY Contents
<1> HIDE DEF want
<1>3. Certain(want) BY <1>1, <1>2 DEF Certain
<1> QED BY <1>3 DEF want

LEMMA InsertKeepsList == ASSUME IInv, NEW t \in Thread, Insert(t) PROVE IInv'
<1> DEFINE k == th[t].key  v == th[t].val  o == NewNode
<1>1. PICK g \in Garbage : Enter(t, insert(k, v, g), None) BY DEF Insert
<1>2. th[t].op = "insert" /\ ~BrokenTail /\ HasRoom BY DEF Insert
<1>3. CallInv /\ MemoryTypeOK /\ BaseInv BY DEF IInv, BaseInv
<1>4. /\ phase = "serve" /\ k \in Key /\ th[t].pc = "want" /\ v \in Val
      /\ \A u \in Thread : ~Updating(u)
      /\ TailP \in Node \cup {Zero}
  BY <1>1, <1>2, <1>3, EnterFinds
<1>5. HeadP # Zero => TailP \in Node BY <1>2, <1>4 DEF BrokenTail
<1>6. o \in Node /\ NodeCells(o) \cap live = {} BY <1>2, NewNodeIs
<1> DEFINE p == insert(k, v, g)
           next == IF Volatile(cls) THEN g ELSE mem[<<o, "next">>]
           G == Grown(o, k, v, next)
<1>7. p \in Seq(Keeper) BY <1>3, <1>4, <1>5, <1>6, InsertKeeps
<1>8. Does(p, mem, G, NodeCells(o))
  BY <1>3, <1>4, <1>5, <1>6, InsertDoes
<1>9. ASSUME starts = 0
      PROVE  /\ HoldsIn(mem, live, p, Wants(expect, th[t]))
             /\ Certain(Wants(expect, th[t]))
  <2>1. Certain(expect) BY <1>4, <1>9, Serving
  <2>2. PICK ns : Serves(ns) BY <1>4, <1>9, Serving
  <2>3. expect[k] = {Absent}
    BY <1>2, <1>3, <1>4 DEF BaseInv, InsertsNew
  <2>4. expect \in [Key -> SUBSET (Value \cup {Absent})]
    BY <1>3 DEF CallInv, CallTypeOK
  <2>5. next \notin Node
    <3>1. g \notin Node BY Leading
    <3>2. NextIn(mem, o) \notin Node
      <4>1. \A n \in DOMAIN ns : ns[n] # o BY <1>6, <2>2, NotInList
      <4> QED BY <1>6, <2>2, <4>1, Zenon DEF Serves, Held, Ended
    <3> QED BY <3>1, <3>2 DEF NextIn
  <2> HIDE DEF next
  <2> DEFINE want == [expect EXCEPT ![k] = {v}]  ms == Append(ns, o)
  <2>6. /\ ms \in Seq(Node) /\ Linked(G, ms) /\ Ended(G, ms) /\ Keyed(G, ms)
        /\ Shown(G, ms, want) /\ KeptIn(ms, live \cup NodeCells(o))
    BY <1>3, <1>4, <1>6, <2>2, <2>3, <2>4, <2>5, Appended
  <2>7. Wants(expect, th[t]) = want BY <1>2 DEF Wants
  <2>8. Certain(want) BY <1>4, <2>1, <2>4, CertainWritten
  <2> HIDE DEF want, ms, G, p
  <2>9. Yields(p, mem, G) /\ ToAllocate(p) = NodeCells(o) BY <1>8 DEF Does
  <2>10. HoldsIn(mem, live, p, want) BY <2>6, <2>9, Zenon DEF HoldsIn
  <2> QED BY <2>7, <2>8, <2>10
<1> HIDE DEF p
<1>10. Enter(t, p, None) BY <1>1 DEF p
<1> QED BY <1>2, <1>7, <1>9, <1>10, EnterKeeps

LEMMA UpdateKeepsList == ASSUME IInv, NEW t \in Thread, Update(t) PROVE IInv'
<1> DEFINE k == th[t].key  v == th[t].val  o == FindNode(k)
<1>1. th[t].op = "update" BY DEF Update
<1>2. CallInv /\ BaseInv BY DEF IInv, BaseInv
<1>3. ASSUME NEW p, Enter(t, p, None)
      PROVE  /\ phase = "serve" /\ k \in Key /\ v \in Val
             /\ \A u \in Thread : ~Updating(u)
  BY <1>1, <1>2, <1>3, EnterFinds
<1>4. expect \in [Key -> SUBSET (Value \cup {Absent})]
  BY <1>2 DEF CallInv, CallTypeOK
<1> HIDE DEF o
<1>5. CASE o \in Node /\ Enter(t, update(o, v), None)
  <2> DEFINE p == update(o, v)  F == Put(mem, <<o, "value">>, v)
             want == [expect EXCEPT ![k] = {v}]
  <2>1. /\ phase = "serve" /\ k \in Key /\ v \in Val
        /\ \A u \in Thread : ~Updating(u)
    BY <1>3, <1>5
  <2>2. p \in Seq(Keeper) BY <1>2, <1>5, <2>1, UpdateKeeps
  <2>3. Does(p, mem, F, {}) BY <1>2, <1>5, <2>1, UpdateDoes
  <2>4. ASSUME starts = 0
        PROVE  /\ HoldsIn(mem, live, p, Wants(expect, th[t]))
               /\ Certain(Wants(expect, th[t]))
    <3>1. Certain(expect) BY <2>1, <2>4, Serving
    <3>2. PICK ns : Serves(ns) BY <2>1, <2>4, Serving
    <3>3. PICK n \in DOMAIN ns : KeyIn(mem, ns[n]) = k
      <4>1. (\A n \in DOMAIN ns : KeyIn(mem, ns[n]) # k) => o \notin Node
        BY <3>2, FindIs, HeldMet DEF Serves, o
      <4> QED BY <1>5, <4>1
    <3>4. o = ns[n] BY <3>2, <3>3, FindIs, HeldMet DEF Serves, o
    <3>5. /\ Linked(F, ns) /\ Ended(F, ns) /\ Keyed(F, ns) /\ Shown(F, ns, want)
      BY <1>4, <2>1, <3>2, <3>3, <3>4, Overwritten
    <3>6. expect[k] # {Absent}
      <4>1. mem[<<ns[n], "value">>] \in expect[k]
        BY <2>1, <3>2, <3>3 DEF Serves, Shown
      <4>2. mem[<<ns[n], "value">>] \in Value
        BY <1>5, <3>4, Cells DEF IInv, BaseInv, MemoryTypeOK
      <4> QED BY <4>1, <4>2, Contents
    <3>7. Wants(expect, th[t]) = want BY <1>1, <3>6 DEF Wants
    <3>8. Certain(want) BY <1>4, <2>1, <3>1, CertainWritten
    <3> HIDE DEF want, F, p
    <3>9. Yields(p, mem, F) /\ ToAllocate(p) = {} BY <2>3 DEF Does
    <3>10. ns \in Seq(Node) /\ KeptIn(ns, live \cup ToAllocate(p))
      <4>1. KeptIn(ns, live) BY <3>2 DEF Serves
      <4>2. KeptIn(ns, live \cup ToAllocate(p)) BY <4>1 DEF KeptIn
      <4> QED BY <3>2, <4>2 DEF Serves, Held
    <3>11. HoldsIn(mem, live, p, want) BY <3>5, <3>9, <3>10, Zenon DEF HoldsIn
    <3> QED BY <3>7, <3>8, <3>11
  <2> HIDE DEF p
  <2>5. Enter(t, p, None) BY <1>5 DEF p
  <2> QED BY <1>1, <2>2, <2>4, <2>5, EnterKeeps
<1>6. CASE o = Zero /\ Enter(t, <<>>, None)
  <2>1. /\ phase = "serve" /\ k \in Key /\ v \in Val
        /\ \A u \in Thread : ~Updating(u)
    BY <1>3, <1>6
  <2>2. ASSUME starts = 0
        PROVE  /\ HoldsIn(mem, live, <<>>, Wants(expect, th[t]))
               /\ Certain(Wants(expect, th[t]))
    <3>1. Certain(expect) BY <2>1, <2>2, Serving
    <3>2. PICK ns : Serves(ns) BY <2>1, <2>2, Serving
    <3>3. \A n \in DOMAIN ns : KeyIn(mem, ns[n]) # k
      <4> SUFFICES ASSUME NEW n \in DOMAIN ns, KeyIn(mem, ns[n]) = k PROVE FALSE
        OBVIOUS
      <4>1. o = ns[n] BY <3>2, FindIs, HeldMet DEF Serves, o
      <4>2. ns[n] \in Node BY <3>2, LenProperties DEF Serves, Held
      <4> QED BY <1>6, <4>1, <4>2, Contents
    <3>4. Absent \in expect[k] BY <2>1, <3>2, <3>3, Zenon DEF Serves, Shown
    <3>5. expect[k] = {Absent} BY <2>1, <3>1, <3>4 DEF Certain
    <3>6. Wants(expect, th[t]) = expect BY <1>1, <3>5 DEF Wants
    <3>7. HoldsIn(mem, live, <<>>, expect)
      BY <2>1, <2>2 DEF IInv, ListInv
    <3> QED BY <3>1, <3>6, <3>7
  <2> QED BY <1>1, <1>6, <2>2, NoProgram, EnterKeeps
<1> QED BY <1>5, <1>6 DEF Update, o

\* The operation is complete: what was wanted of its program is expected now.
LEMMA LeaveKeeps == ASSUME IInv, NEW t \in Thread, Leave(t) PROVE IInv'
<1>1. BaseInv BY DEF IInv
<1>2. /\ BaseInv' /\ UNCHANGED <<pvars, cls, phase, prog, starts>>
      /\ th[t].pc = "in" /\ prog[t] = <<>> /\ phase = "serve"
      /\ expect' = IF Writes(th[t].op, th[t].key)
                   THEN [expect EXCEPT ![th[t].key] = {th[t].val}] ELSE expect
      /\ th'[t].pc # "in" /\ \A s \in Thread \ {t} : th'[s] = th[s]
  BY <1>1, BaseLeave
<1>3. CASE Updating(t)
  <2>1. \A u \in Thread : ~Updating(u)'
    BY <1>1, <1>2, <1>3 DEF BaseInv, CallInv, Excluded, Updating
  <2>2. expect' = Wants(expect, th[t])
    BY <1>1, <1>2 DEF Wants, Writes, BaseInv
  <2>3. starts = 0 => HoldsIn(mem, live, <<>>, expect') /\ Certain(expect')
    BY <1>1, <1>2, <1>3, <2>2, ListInvIs DEF IInv
  <2>4. mem' = mem /\ live' = live BY <1>2 DEF pvars
  <2>5. ListInv' BY <1>1, <1>2, <2>1, <2>3, <2>4, ListInvIs
  <2> QED BY <1>2, <2>5 DEF IInv
<1>4. CASE ~Updating(t)
  <2>1. expect' = expect BY <1>2, <1>4 DEF Updating, Writes
  <2>2. /\ \A u \in Thread : Updating(u)' => Updating(u) /\ th'[u] = th[u]
        /\ \A u \in Thread : Updating(u) => Updating(u)'
    BY <1>2, <1>4 DEF Updating
  <2> QED BY <1>2, <2>1, <2>2, SameKeeps
<1> QED BY <1>3, <1>4

LEMMA GoneKeeps == ASSUME IInv, Close \/ Crash \/ Dies PROVE IInv'
<1>1. BaseInv /\ BaseInv' /\ phase' \in {"down", "closed"} BY BaseGone DEF IInv
<1>2. ListInv' BY <1>1, Offline
<1> QED BY <1>1, <1>2 DEF IInv

LEMMA SettlingKeeps == ASSUME IInv, Settling PROVE IInv'
<1>1. BaseInv /\ BaseInv' /\ phase' \notin {"init", "serve"}
  BY BaseSettling DEF IInv
<1>2. ListInv' BY <1>1, Offline
<1> QED BY <1>1, <1>2 DEF IInv

LEMMA ReopenKeeps == ASSUME IInv, Reopen(init) PROVE IInv'
<1>1. BaseInv /\ BaseInv' /\ starts' # 0 BY BaseReopen DEF IInv
<1>2. ListInv' BY <1>1, Offline
<1> QED BY <1>1, <1>2 DEF IInv

LEMMA DestroyKeeps == ASSUME IInv, Destroy(destroy) PROVE IInv'
<1>1. BaseInv /\ BaseInv' /\ phase' = "destroy" BY BaseDestroy DEF IInv
<1>2. ListInv' BY <1>1, Offline
<1> QED BY <1>1, <1>2 DEF IInv

\* init leaves a list without records, and that is what the clients expect.
LEMMA InitDoneKeeps ==
  ASSUME IInv, InitDone([k \in Key |-> Listed(k)]) PROVE IInv'
<1>1. BaseInv BY DEF IInv
<1>2. /\ BaseInv' /\ UNCHANGED <<pvars, cls, th, prog, starts>>
      /\ phase = "init" /\ phase' = "serve" /\ prog[main] = <<>>
      /\ \A t \in Thread : th'[t].pc = "idle"
      /\ expect' = [k \in Key |-> {Listed(k)}]
  BY <1>1, BaseInitDone
<1>3. ASSUME starts = 0
      PROVE  HoldsIn(mem, live, <<>>, expect') /\ Certain(expect')
  <2>1. HoldsIn(mem, live, <<>>, NoRecords)
    BY <1>1, <1>2, <1>3, ListInvIs DEF IInv
  <2>2. PICK ns \in Seq(Node) :
          /\ Linked(mem, ns) /\ Ended(mem, ns) /\ Keyed(mem, ns)
          /\ Shown(mem, ns, NoRecords)
    BY <2>1, HeldNow
  <2>3. \A k \in Key : Listed(k) = Absent
    <3> TAKE k \in Key
    <3>1. Listed(k) \in NoRecords[k] BY <2>2, ListedIs, HeldMet DEF Held
    <3> QED BY <3>1 DEF NoRecords
  <2>4. expect' = NoRecords BY <1>2, <2>3 DEF NoRecords
  <2>5. Certain(NoRecords) BY DEF Certain, NoRecords
  <2> QED BY <2>1, <2>4, <2>5
<1>4. mem' = mem /\ live' = live BY <1>2 DEF pvars
<1>5. \A t \in Thread : ~Updating(t)' BY <1>2 DEF Updating
<1>6. ListInv' BY <1>1, <1>2, <1>3, <1>4, <1>5, ListInvIs
<1> QED BY <1>2, <1>6 DEF IInv

LEMMA InitIInv == ListInit => IInv
<1> SUFFICES ASSUME ListInit PROVE IInv OBVIOUS
<1>1. BaseInv BY InitBase
<1>2. /\ phase = "init" /\ \A t \in Thread : th[t] = Idle
      /\ prog = [t \in Thread \cup {main} |-> IF t = main THEN init ELSE <<>>]
      /\ mem = [d \in Cell |-> Zero]
  BY DEF ListInit, StoredsInit, PoolInit
<1>3. prog[main] = init BY <1>2
<1>4. Yields(init, mem, mem)
  <2>1. CASE Volatile(cls)
    <3> DEFINE y == St(HeadCell, Zero)  z == St(TailCell, Zero)
    <3>1. y \in Step /\ z \in Step BY StepKinds, Cells, Contents
    <3>2. Releases(y) = {} /\ Releases(z) = {} BY DEF Releases, St
    <3>3. \A d \in Cell : After(z, d, After(y, d, mem[d])) = mem[d]
      BY <1>2, StepAssigns DEF After
    <3> HIDE DEF y, z
    <3>4. Does(<<y, z>>, mem, mem, Allocates(y) \cup Allocates(z))
      BY <3>1, <3>2, <3>3, DoesTwo
    <3>5. init = <<y, z>> BY <2>1 DEF init, ClearRoot, y, z
    <3> QED BY <3>4, <3>5 DEF Does
  <2>2. CASE ~Volatile(cls)
    <3>1. init = <<>> BY <2>2 DEF init
    <3>2. Yields(<<>>, mem, mem) BY YieldsNothing
    <3> QED BY <3>1, <3>2
  <2> QED BY <2>1, <2>2
<1>5. HoldsIn(mem, live, init, NoRecords)
  <2> DEFINE ns == <<>>
  <2>1. ns \in Seq(Node) /\ DOMAIN ns = {} OBVIOUS
  <2>2. Linked(mem, ns) BY <1>2, <2>1, Cells DEF Linked
  <2>3. Ended(mem, ns) BY <1>2, <2>1, Cells, Contents DEF Ended, NextIn
  <2>4. Keyed(mem, ns) /\ Shown(mem, ns, NoRecords)
        /\ KeptIn(ns, live \cup ToAllocate(init))
    BY <2>1 DEF Keyed, Shown, KeptIn, NoRecords
  <2> HIDE DEF ns
  <2> QED BY <1>4, <2>1, <2>2, <2>3, <2>4, Zenon DEF HoldsIn
<1>6. ListInv
  <2>1. \A t \in Thread : ~Updating(t) BY <1>2 DEF Idle, Updating
  <2> QED BY <1>2, <1>3, <1>5, <2>1 DEF ListInv
<1> QED BY <1>1, <1>6 DEF IInv

LEMMA StepIInv == IInv /\ [Next]_vars => IInv'
<1> SUFFICES ASSUME IInv, [Next]_vars PROVE IInv' OBVIOUS
<1>1. ASSUME NEW t \in Thread, NEW k \in Key,
             \/ CallRead(t, k)
             \/ \E n \in Version : CallInsert(t, k, n) \/ CallUpdate(t, k, n)
      PROVE  IInv'
  BY <1>1, CallKeeps
<1>2. ASSUME Dies PROVE IInv' BY <1>2, GoneKeeps
<1>3. ASSUME NEW t \in Thread, ThreadStep(t) PROVE IInv'
  <2>1. t \in Actor BY DEF Actor
  <2>2. CASE Insert(t) BY <2>2, InsertKeepsList
  <2>3. CASE Update(t) BY <2>3, UpdateKeepsList
  <2>4. CASE Read(t) BY <2>4, ReadKeeps
  <2>5. CASE Exec(t) BY <2>1, <2>5, ExecKeeps
  <2>6. CASE Leave(t) BY <2>6, LeaveKeeps
  <2>7. CASE CopyOut(t) \/ Return(t) BY <2>7, CallKeeps
  <2>8. CASE MissDies(t) \/ NotInitialised(t) \/ Derefs(t)
    BY <1>2, <2>8 DEF MissDies, NotInitialised, CheckFails, Derefs
  <2> QED BY <1>3, <2>2, <2>3, <2>4, <2>5, <2>6, <2>7, <2>8, Zenon
          DEF ThreadStep, ClientStep
<1>4. CASE MainStep
  <2>1. main \in Actor BY DEF Actor
  <2>2. CASE Exec(main) BY <2>1, <2>2, ExecKeeps
  <2>3. CASE DoubleFree(main) \/ DestroyDerefs
    BY <1>2, <2>3 DEF DoubleFree, DestroyDerefs
  <2>4. CASE InitDone([k \in Key |-> Listed(k)]) BY <2>4, InitDoneKeeps
  <2>5. CASE CloseList BY <2>5, GoneKeeps DEF CloseList
  <2> QED BY <1>4, <2>2, <2>3, <2>4, <2>5, Zenon DEF MainStep
<1>5. CASE DestroyList BY <1>5, DestroyKeeps DEF DestroyList
<1>6. CASE DestroyEmpty BY <1>2, <1>6 DEF DestroyEmpty
<1>7. CASE Crash BY <1>7, GoneKeeps
<1>8. CASE Settling BY <1>8, SettlingKeeps
<1>9. CASE Reopen(init) BY <1>9, ReopenKeeps
<1>10. CASE Finished BY <1>10, UnchangedKeeps DEF Finished
<1>11. CASE UNCHANGED vars BY <1>11, UnchangedKeeps
<1> QED BY <1>1, <1>3, <1>4, <1>5, <1>6, <1>7, <1>8, <1>9, <1>10, <1>11, Zenon
        DEF Next

-----------------------------------------------------------------------------
(***************************************************************************)
(* Every step keeps ReadsInv.                                              *)
(***************************************************************************)
\* The steps that leave the key of node q, and give it no value but R.
Mild(q, R) ==
  {u \in Step : /\ <<q, "key">> \notin Assigns(u)
                /\ <<q, "value">> \in Assigns(u) => Assigned(u, <<q, "value">>) \in R}

LEMMA MildIs ==
  ASSUME NEW q, NEW R, NEW p \in Seq(Mild(q, R))
  PROVE  /\ \A T : StoresOnly(p, {<<q, "key">>}, T)
         /\ \A T : R \subseteq T => StoresOnly(p, {<<q, "value">>}, T)
<1>1. \A j \in DOMAIN p : p[j] \in Mild(q, R) BY LenProperties
<1> QED BY <1>1 DEF Mild, StoresOnly

LEMMA MildSteps ==
  ASSUME NEW q, NEW R
  PROVE  /\ \A C \in SUBSET Cell : /\ Fl(C) \in Mild(q, R) /\ Al(C) \in Mild(q, R)
                                   /\ Sn(C) \in Mild(q, R) /\ TAl(C) \in Mild(q, R)
         /\ Bg \in Mild(q, R) /\ Cm \in Mild(q, R)
         /\ \A c \in Cell, v \in Value :
              c # <<q, "key">> /\ (c = <<q, "value">> => v \in R)
                => St(c, v) \in Mild(q, R)
<1>1. ASSUME NEW C \in SUBSET Cell
      PROVE  /\ Fl(C) \in Mild(q, R) /\ Al(C) \in Mild(q, R)
             /\ Sn(C) \in Mild(q, R) /\ TAl(C) \in Mild(q, R)
  <2>1. /\ Fl(C) \in Step /\ Al(C) \in Step /\ Sn(C) \in Step /\ TAl(C) \in Step
    BY StepKinds
  <2>2. /\ Assigns(Fl(C)) = {} /\ Assigns(Al(C)) = {} /\ Assigns(Sn(C)) = {}
        /\ Assigns(TAl(C)) = {}
    BY StepAssigns
  <2> HIDE DEF Step, Fl, Al, Sn, TAl
  <2> QED BY <2>1, <2>2 DEF Mild
<1>2. Bg \in Mild(q, R) /\ Cm \in Mild(q, R)
  <2>1. Bg \in Step /\ Cm \in Step BY StepKinds
  <2>2. Assigns(Bg) = {} /\ Assigns(Cm) = {} BY StepAssigns
  <2> QED BY <2>1, <2>2 DEF Mild
<1>3. ASSUME NEW c \in Cell, NEW v \in Value, c # <<q, "key">>,
             c = <<q, "value">> => v \in R
      PROVE  St(c, v) \in Mild(q, R)
  <2>1. St(c, v) \in Step /\ Assigns(St(c, v)) = {c} /\ Assigned(St(c, v), c) = v
    BY StepKinds, StepAssigns
  <2> QED BY <1>3, <2>1 DEF Mild
<1> QED BY <1>1, <1>2, <1>3

\* An insert changes no key and no value but those of its new node, ...
LEMMA InsertMild ==
  ASSUME CallInv, HeadP # Zero => TailP \in Node, NewNode \in Node,
         NEW k \in Key, NEW v \in Val, NEW g \in Garbage,
         NEW q, q # NewNode, NEW R
  PROVE  insert(k, v, g) \in Seq(Mild(q, R))
<1> DEFINE o == NewNode  c == Cp(<<o, "value">>, v)  s == St(<<o, "key">>, k)
           n == St(<<o, "next">>, g)
           y == St(Link, o)  z == St(TailCell, o)  A == NodeCells(o)
           a1 == <<Al(A), n, s>>  b1 == <<y, z>>
           a2 == <<Al(A), s>>  b2 == <<y, z, Fl(Flushed)>>
           a3 == <<Bg, TAl(A), s>>  b3 == <<Sn(Joint), y, z>>  d == <<Cm>>
           M == Mild(q, R)
<1>1. /\ A \in SUBSET Cell /\ <<o, "key">> \in Cell /\ <<o, "value">> \in Cell
      /\ <<o, "next">> \in Cell /\ TailCell \in Cell /\ k \in Value /\ v \in Value
      /\ g \in Value /\ o \in Value /\ Torn \in Value
  BY Cells, Contents, Leading
<1>2. c \in Seq(M)
  <2>1. St(<<o, "value">>, Torn) \in M /\ St(<<o, "value">>, v) \in M
    BY <1>1, MildSteps
  <2> QED BY <2>1 DEF Cp
<1>3. /\ Al(A) \in M /\ TAl(A) \in M /\ Bg \in M /\ Cm \in M
      /\ s \in M /\ n \in M /\ z \in M
  <2>1. TailCell # <<q, "key">> /\ TailCell # <<q, "value">> BY DEF TailCell
  <2> HIDE DEF TailCell
  <2> QED BY <1>1, <2>1, MildSteps
<1>4. y \in M /\ Sn(Joint) \in M /\ Fl(Flushed) \in M
  <2>1. /\ Link \in Cell /\ Link # <<q, "key">> /\ Link # <<q, "value">>
        /\ Joint \in SUBSET Cell /\ Flushed \in SUBSET Cell
    BY LinkIs
  <2> QED BY <1>1, <2>1, MildSteps
<1>5. /\ linkedlist_dram_insert(k, v, g) = a1 \o c \o b1
      /\ linkedlist_pmem_insert(k, v) = a2 \o c \o b2
      /\ linkedlist_pmem_tx_insert(k, v) = a3 \o c \o b3 \o d
  BY InsertParts, Zenon
<1> HIDE DEF o, c, s, n, y, z, A, M
<1>6. /\ a1 \in Seq(M) /\ b1 \in Seq(M) /\ a2 \in Seq(M)
      /\ b2 \in Seq(M) /\ a3 \in Seq(M) /\ b3 \in Seq(M) /\ d \in Seq(M)
  BY <1>3, <1>4
<1> HIDE DEF a1, b1, a2, b2, a3, b3, d
<1>7. /\ a1 \o c \o b1 \in Seq(M) /\ a2 \o c \o b2 \in Seq(M)
      /\ a3 \o c \o b3 \o d \in Seq(M)
  BY <1>2, <1>6, ConcatProperties
<1>8. insert(k, v, g) \in Seq(M) BY <1>5, <1>7, InsertIs, Media
<1> QED BY <1>8 DEF M

\* ... and an update none but the value of the node it has found.
LEMMA UpdateMild ==
  ASSUME CallInv, NEW o \in Node, NEW v \in Val, NEW q, NEW R,
         q = o => {Torn, v} \subseteq R
  PROVE  update(o, v) \in Seq(Mild(q, R))
<1> DEFINE c == Cp(<<o, "value">>, v)  M == Mild(q, R)
<1>1. c \in Seq(M)
  <2>1. <<o, "value">> \in Cell /\ Torn \in Value /\ v \in Value BY Cells, Contents
  <2>2. St(<<o, "value">>, Torn) \in M /\ St(<<o, "value">>, v) \in M
    BY <2>1, MildSteps
  <2> QED BY <2>2 DEF Cp
<1>2. <<Fl({<<o, "value">>})>> \in Seq(M) /\ <<Cm>> \in Seq(M)
      /\ <<Bg, Sn(NodeCells(o))>> \in Seq(M)
  <2>1. {<<o, "value">>} \in SUBSET Cell /\ NodeCells(o) \in SUBSET Cell BY Cells
  <2>2. /\ Fl({<<o, "value">>}) \in M /\ Cm \in M
        /\ Bg \in M /\ Sn(NodeCells(o)) \in M
    BY <2>1, MildSteps
  <2> QED BY <2>2
<1> HIDE DEF c, M
<1>3. /\ c \o <<Fl({<<o, "value">>})>> \in Seq(M)
      /\ <<Bg, Sn(NodeCells(o))>> \o c \o <<Cm>> \in Seq(M)
  BY <1>1, <1>2, ConcatProperties
<1>4. /\ Volatile(cls) => update(o, v) = c
      /\ cls.medium = "pmem" => update(o, v) = c \o <<Fl({<<o, "value">>})>>
      /\ cls.medium = "tx" => update(o, v) = <<Bg, Sn(NodeCells(o))>> \o c \o <<Cm>>
  BY DEF c, update, linkedlist_dram_update, linkedlist_pmem_update,
         linkedlist_pmem_tx_update, CpFl, Volatile
<1>5. update(o, v) \in Seq(M) BY <1>1, <1>3, <1>4, Media
<1> QED BY <1>5 DEF M

\* Nobody reads while no thread is in a call.
LEMMA ReadsQuiet ==
  ASSUME \A t \in Thread : th'[t].pc = "idle",
         starts' = 0 => \A k \in Key : expect'[k] \subseteq Val \cup {Absent}
  PROVE  ReadsInv'
BY DEF ReadsInv

\* A read that does not move itself keeps what it has found.
LEMMA ReadStays ==
  ASSUME NEW t \in Thread, ReadTruly(t), th'[t] = th[t],
         \A o \in Node : FoundIn(o, t) => FoundIn(o, t)'
  PROVE  ReadTruly(t)'
BY Zenon DEF ReadTruly

LEMMA SameReads ==
  ASSUME ReadsInv, UNCHANGED <<mem, live, prog, starts>>,
         starts = 0 => \A k \in Key : expect'[k] \subseteq Val \cup {Absent},
         NEW t \in Thread, \A s \in Thread \ {t} : th'[s] = th[s],
         starts = 0 /\ th'[t].pc # "idle" /\ th'[t].op = "read" => ReadTruly(t)'
  PROVE  ReadsInv'
<1> SUFFICES ASSUME starts = 0, NEW s \in Thread, s # t,
                    th'[s].pc # "idle", th'[s].op = "read"
             PROVE  ReadTruly(s)'
  BY DEF ReadsInv
<1>1. ReadTruly(s) /\ th'[s] = th[s] BY DEF ReadsInv
<1>2. \A o \in Node : FoundIn(o, s) => FoundIn(o, s)' BY <1>1 DEF FoundIn
<1> QED BY <1>1, <1>2, ReadStays

\* The memory step of another thread leaves the node that was found, its key and
\* a value of it.
LEMMA ExecReads ==
  ASSUME IInv, ReadsInv, NEW a \in Actor, Exec(a) PROVE ReadsInv'
<1> DEFINE u == prog[a][1]
<1>1. BaseInv /\ CallInv /\ MemoryTypeOK /\ ProgramsTyped BY DEF IInv, BaseInv
<1>2. UNCHANGED <<cls, phase, th, expect, starts>> BY <1>1, ExecIs
<1>3. /\ prog[a] \in Seq(Step) /\ prog[a] # <<>>
      /\ u \in Step /\ MemoryStep(u) /\ prog'[a] = Tail(prog[a])
      /\ \A b \in Actor \ {a} : prog[b] = <<>> /\ prog'[b] = <<>>
  BY <1>1, ExecDoes, Zenon
<1>4. \A c \in Cell : mem'[c] = IF c \in Assigns(u) THEN Assigned(u, c) ELSE mem[c]
  BY <1>1, <1>3, StepDoes
<1> SUFFICES ASSUME starts = 0, NEW t \in Thread, th[t].pc # "idle", th[t].op = "read"
             PROVE  ReadTruly(t)'
  BY <1>2 DEF ReadsInv
<1>5. ReadTruly(t) BY DEF ReadsInv
<1>6. phase # "destroy" BY <1>1 DEF CallInv, CallsServed, Quiet
<1>7. live \subseteq live'
  <2>1. 1 \in DOMAIN prog[a] BY <1>3, TailIs
  <2>2. dying = {} /\ Releases(u) = {}
    BY <1>1, <1>6, <2>1 DEF BaseInv, NothingFreed, FreesNothing
  <2> HIDE DEF u
  <2> QED BY <1>3, <2>2, StepKeepsLive
<1> HIDE DEF u
<1>8. ASSUME NEW o \in Node, FoundIn(o, t) PROVE FoundIn(o, t)'
  <2> DEFINE key == <<o, "key">>  value == <<o, "value">>
             R == th[t].legal \cup {Torn}  K == {th[t].key}
  <2>1. key \in Cell /\ value \in Cell BY Cells
  <2>2. /\ th[t].ptr = value /\ NodeCells(o) \subseteq live
        /\ mem[key] \in K /\ mem[value] \in R
        /\ \A b \in Actor : /\ StoresOnly(prog[b], {key}, K)
                            /\ StoresOnly(prog[b], {value}, R)
    BY <1>8 DEF FoundIn
  <2> HIDE DEF key, value, R, K
  <2>3. /\ \A c \in {key} \cap Assigns(u) : Assigned(u, c) \in K
        /\ StoresOnly(Tail(prog[a]), {key}, K)
    BY <1>3, <2>2, StoresOnlyTail DEF u
  <2>4. /\ \A c \in {value} \cap Assigns(u) : Assigned(u, c) \in R
        /\ StoresOnly(Tail(prog[a]), {value}, R)
    BY <1>3, <2>2, StoresOnlyTail DEF u
  <2>5. mem'[key] \in K /\ mem'[value] \in R BY <1>4, <2>1, <2>2, <2>3, <2>4
  <2>6. \A b \in Actor : /\ StoresOnly(prog'[b], {key}, K)
                         /\ StoresOnly(prog'[b], {value}, R)
    <3> TAKE b \in Actor
    <3>1. CASE b = a BY <1>3, <2>3, <2>4, <3>1
    <3>2. CASE b # a BY <1>3, <3>2, NoProgram
    <3> QED BY <3>1, <3>2
  <2>7. NodeCells(o) \subseteq live' BY <1>7, <2>2
  <2> QED BY <1>2, <2>2, <2>5, <2>6, <2>7 DEF FoundIn, key, value, R, K
<1> QED BY <1>2, <1>5, <1>8, ReadStays

\* What may be stored where a read points to once an operation has begun.
MayPut(o, t) ==
  IF mem[<<o, "key">>] = th[t].key /\ Writes(th[t].op, th[t].key)
  THEN {Torn, th[t].val} ELSE {}

\* Whoever takes the lock to write leaves the nodes that reads have found their
\* keys, and gives them what those reads may show by now; a read finds a node
\* with its key, or none.
LEMMA EnterReads ==
  ASSUME IInv, ReadsInv, NEW t \in Thread, NEW p \in Seq(Keeper),
         NEW ptr \in Cell \cup {None},
         th[t].op \in {"insert", "update", "read"},
         p # <<>> => th[t].op \in {"insert", "update"},
         Enter(t, p, ptr),
         starts = 0 /\ th[t].op = "read" =>
           /\ ptr = None => Absent \in expect[th[t].key]
           /\ ptr # None => \E o \in Node :
                /\ ptr = <<o, "value">> /\ NodeCells(o) \subseteq live
                /\ mem[<<o, "key">>] = th[t].key
                /\ mem[<<o, "value">>] \in expect[th[t].key],
         starts = 0 /\ th[t].op # "read" =>
           \A o \in Node : NodeCells(o) \subseteq live
                             => p \in Seq(Mild(o, MayPut(o, t)))
  PROVE  ReadsInv'
<1> DEFINE k == th[t].key  v == th[t].val  w == Writes(th[t].op, k)
<1>1. BaseInv /\ CallInv BY DEF IInv, BaseInv
<1>2. /\ UNCHANGED <<pvars, cls, phase, starts>> /\ phase = "serve" /\ k \in Key
      /\ th[t].op \in {"insert", "update"} => v \in Val
      /\ prog'[t] = p /\ \A b \in Actor \ {t} : prog'[b] = prog[b]
      /\ expect' = IF w THEN [expect EXCEPT ![k] = @ \cup {v}] ELSE expect
      /\ \A s \in Thread : ~Updating(s)
  BY <1>1, BaseEnter
<1>3. /\ th[t].pc = "want" /\ mem' = mem /\ live' = live
      /\ th' = [s \in Thread |->
                  IF s = t THEN [th[t] EXCEPT !.pc = "in", !.ptr = ptr]
                  ELSE IF w /\ th[s].op = "read" /\ th[s].key = k
                       THEN [th[s] EXCEPT !.legal = @ \cup {v}]
                       ELSE th[s]]
  BY DEF Enter, pvars
<1>4. \A s \in Thread : th[s] \in CallState BY <1>1 DEF CallInv, CallTypeOK
<1>5. w => th[t].op \in {"insert", "update"} /\ v \in Val BY <1>2 DEF Writes
<1>6. \A b \in Actor : prog[b] = <<>>
  BY <1>1, <1>2 DEF CallInv, ProgramsOwned, Actor
<1>7. expect \in [Key -> SUBSET (Value \cup {Absent})]
  BY <1>1 DEF CallInv, CallTypeOK
<1>8. ASSUME starts = 0
      PROVE  \A j \in Key : expect'[j] \subseteq Val \cup {Absent}
  BY <1>2, <1>5, <1>7, <1>8 DEF ReadsInv
<1>9. ASSUME starts = 0, th[t].op = "read" PROVE ReadTruly(t)'
  <2>1. /\ th'[t].pc = "in" /\ th'[t].ptr = ptr /\ th'[t].legal = th[t].legal
        /\ th'[t].key = k
    BY <1>3, <1>4 DEF CallState
  <2>2. th[t].legal \subseteq Val \cup {Absent} BY <1>3, <1>9 DEF ReadsInv, ReadTruly
  <2>3. expect[k] \subseteq th[t].legal BY <1>1, <1>3, <1>9 DEF CallInv, LegalGrows
  <2>4. p = <<>> BY <1>9
  <2>5. \A b \in Actor : prog'[b] = <<>> BY <1>2, <1>6, <2>4
  <2>6. ASSUME ptr # None PROVE \E o \in Node : FoundIn(o, t)'
    <3>1. PICK o \in Node : /\ ptr = <<o, "value">> /\ NodeCells(o) \subseteq live
                            /\ mem[<<o, "key">>] = k /\ mem[<<o, "value">>] \in expect[k]
      BY <1>9, <2>6
    <3>2. FoundIn(o, t)' BY <1>3, <2>1, <2>3, <2>5, <3>1, NoProgram DEF FoundIn
    <3> QED BY <3>2
  <2>7. ptr = None => Absent \in th[t].legal BY <1>9, <2>3
  <2> QED BY <2>1, <2>2, <2>6, <2>7, Zenon DEF ReadTruly
<1>10. ASSUME starts = 0, NEW s \in Thread, s # t, th[s].pc # "idle",
              th[s].op = "read"
       PROVE  ReadTruly(s)'
  <2>1. ReadTruly(s) BY <1>10 DEF ReadsInv
  <2>2. /\ th'[s].pc = th[s].pc /\ th'[s].ptr = th[s].ptr /\ th'[s].key = th[s].key
        /\ th'[s].got = th[s].got
        /\ th'[s].legal = IF w /\ th[s].key = k THEN th[s].legal \cup {v}
                          ELSE th[s].legal
    BY <1>3, <1>4, <1>10 DEF CallState
  <2>3. th[s].legal \subseteq th'[s].legal /\ th'[s].legal \subseteq Val \cup {Absent}
    BY <1>5, <2>1, <2>2 DEF ReadTruly
  <2>4. ASSUME NEW o \in Node, FoundIn(o, s) PROVE FoundIn(o, s)'
    <3> DEFINE key == <<o, "key">>  value == <<o, "value">>
               R == th'[s].legal \cup {Torn}
    <3>1. /\ th[s].ptr = value /\ NodeCells(o) \subseteq live
          /\ mem[key] = th[s].key /\ mem[value] \in th[s].legal \cup {Torn}
      BY <2>4 DEF FoundIn
    <3>2. StoresOnly(p, {key}, {th[s].key}) /\ StoresOnly(p, {value}, R)
      <4>1. CASE th[t].op = "read" BY <4>1, NoProgram
      <4>2. CASE th[t].op # "read"
        <5>1. p \in Seq(Mild(o, MayPut(o, t))) BY <1>10, <3>1, <4>2
        <5>2. MayPut(o, t) \subseteq R BY <2>2, <3>1 DEF MayPut
        <5> HIDE DEF R, key, value
        <5> QED BY <5>1, <5>2, MildIs DEF key, value
      <4> QED BY <4>1, <4>2
    <3>3. \A b \in Actor : /\ StoresOnly(prog'[b], {key}, {th[s].key})
                           /\ StoresOnly(prog'[b], {value}, R)
      <4> TAKE b \in Actor
      <4>1. CASE b = t BY <1>2, <3>2, <4>1
      <4>2. CASE b # t BY <1>2, <1>6, <4>2, NoProgram
      <4> QED BY <4>1, <4>2
    <3>4. mem[value] \in R BY <2>3, <3>1
    <3> QED BY <1>3, <2>2, <3>1, <3>3, <3>4 DEF FoundIn
  <2> QED BY <2>1, <2>2, <2>3, <2>4, Zenon DEF ReadTruly
<1>11. ASSUME NEW s \in Thread, th'[s].pc # "idle", th'[s].op = "read"
       PROVE  th[s].pc # "idle" /\ th[s].op = "read"
  BY <1>3, <1>4, <1>11 DEF CallState
<1> QED BY <1>2, <1>8, <1>9, <1>10, <1>11 DEF ReadsInv

LEMMA InsertReads ==
  ASSUME IInv, ReadsInv, NEW t \in Thread, Insert(t) PROVE ReadsInv'
<1> DEFINE k == th[t].key  v == th[t].val
<1>1. PICK g \in Garbage : Enter(t, insert(k, v, g), None) BY DEF Insert
<1>2. th[t].op = "insert" /\ ~BrokenTail /\ HasRoom BY DEF Insert
<1>3. CallInv /\ BaseInv BY DEF IInv, BaseInv
<1>4. /\ k \in Key /\ v \in Val /\ TailP \in Node \cup {Zero}
  BY <1>1, <1>2, <1>3, EnterFinds
<1>5. HeadP # Zero => TailP \in Node BY <1>2, <1>4 DEF BrokenTail
<1>6. NewNode \in Node /\ NodeCells(NewNode) \cap live = {} BY <1>2, NewNodeIs
<1> DEFINE p == insert(k, v, g)
<1>7. p \in Seq(Keeper) BY <1>3, <1>4, <1>5, <1>6, InsertKeeps
<1>8. ASSUME NEW o \in Node, NodeCells(o) \subseteq live
      PROVE  p \in Seq(Mild(o, MayPut(o, t)))
  <2>1. o # NewNode BY <1>6, <1>8, Cells
  <2> QED BY <1>3, <1>4, <1>5, <1>6, <2>1, InsertMild
<1> HIDE DEF p
<1>9. Enter(t, p, None) BY <1>1 DEF p
<1> QED BY <1>2, <1>7, <1>8, <1>9, EnterReads

LEMMA UpdateReads ==
  ASSUME IInv, ReadsInv, NEW t \in Thread, Update(t) PROVE ReadsInv'
<1> DEFINE k == th[t].key  v == th[t].val  f == FindNode(k)
<1>1. th[t].op = "update" BY DEF Update
<1>2. CallInv /\ BaseInv BY DEF IInv, BaseInv
<1> HIDE DEF f
<1>3. CASE f \in Node /\ Enter(t, update(f, v), None)
  <2> DEFINE p == update(f, v)
  <2>1. /\ phase = "serve" /\ k \in Key /\ v \in Val
        /\ \A u \in Thread : ~Updating(u)
    BY <1>1, <1>2, <1>3, EnterFinds
  <2>2. p \in Seq(Keeper) BY <1>2, <1>3, <2>1, UpdateKeeps
  <2>3. ASSUME starts = 0 PROVE mem[<<f, "key">>] = k /\ Writes(th[t].op, k)
    <3>1. PICK ns : Serves(ns) BY <2>1, <2>3, Serving
    <3>2. PICK n \in DOMAIN ns : KeyIn(mem, ns[n]) = k
      <4>1. (\A n \in DOMAIN ns : KeyIn(mem, ns[n]) # k) => f \notin Node
        BY <3>1, FindIs, HeldMet DEF Serves, f
      <4> QED BY <1>3, <4>1
    <3>3. f = ns[n] BY <3>1, <3>2, FindIs, HeldMet DEF Serves, f
    <3>4. mem[<<ns[n], "value">>] \in expect[k]
      BY <2>1, <3>1, <3>2 DEF Serves, Shown
    <3>5. mem[<<ns[n], "value">>] \in Value
      BY <1>3, <3>3, Cells DEF IInv, BaseInv, MemoryTypeOK
    <3>6. expect[k] # {Absent} BY <3>4, <3>5, Contents
    <3> QED BY <1>1, <3>2, <3>3, <3>6 DEF KeyIn, Writes
  <2>4. ASSUME starts = 0, NEW o \in Node
        PROVE  p \in Seq(Mild(o, MayPut(o, t)))
    <3>1. o = f => {Torn, v} \subseteq MayPut(o, t) BY <2>3, <2>4 DEF MayPut
    <3> QED BY <1>2, <1>3, <2>1, <3>1, UpdateMild
  <2> HIDE DEF p
  <2>5. Enter(t, p, None) BY <1>3 DEF p
  <2> QED BY <1>1, <2>2, <2>4, <2>5, EnterReads
<1>4. CASE f = Zero /\ Enter(t, <<>>, None)
  <2>1. \A o \in Node : <<>> \in Seq(Mild(o, MayPut(o, t))) OBVIOUS
  <2> QED BY <1>1, <1>4, <2>1, NoProgram, EnterReads
<1> QED BY <1>3, <1>4 DEF Update, f

LEMMA ReadReads ==
  ASSUME IInv, ReadsInv, NEW t \in Thread, Read(t) PROVE ReadsInv'
<1> DEFINE k == th[t].key  f == FindNode(k)
<1>1. th[t].op = "read" BY DEF Read
<1>2. BaseInv BY DEF IInv
<1>3. PICK ptr : /\ Enter(t, <<>>, ptr)
                 /\ \/ f \in Node /\ ptr = <<f, "value">>
                    \/ f = Zero /\ ptr = None
  BY DEF Read
<1>4. /\ phase = "serve" /\ k \in Key /\ \A u \in Thread : ~Updating(u)
  BY <1>2, <1>3, EnterFinds
<1> HIDE DEF f
<1>5. ptr \in Cell \cup {None} BY <1>3, Cells
<1>6. ASSUME starts = 0
      PROVE  /\ ptr = None => Absent \in expect[k]
             /\ ptr # None => \E o \in Node :
                  /\ ptr = <<o, "value">> /\ NodeCells(o) \subseteq live
                  /\ mem[<<o, "key">>] = k /\ mem[<<o, "value">>] \in expect[k]
  <2>1. PICK ns : Serves(ns) BY <1>4, <1>6, Serving
  <2>2. \A n \in DOMAIN ns : ns[n] \in Node
    BY <2>1, LenProperties DEF Serves, Held
  <2>3. CASE \E n \in DOMAIN ns : KeyIn(mem, ns[n]) = k
    <3>1. PICK n \in DOMAIN ns : KeyIn(mem, ns[n]) = k BY <2>3
    <3>2. f = ns[n] BY <2>1, <3>1, FindIs, HeldMet DEF Serves, f
    <3>3. f \in Node /\ f # Zero BY <2>2, <3>2, Contents
    <3>4. ptr = <<f, "value">> BY <1>3, <3>3
    <3>5. mem[<<f, "value">>] \in expect[k]
      BY <1>4, <2>1, <3>1, <3>2 DEF Serves, Shown
    <3>6. NodeCells(f) \subseteq live BY <2>1, <3>1, <3>2 DEF Serves, KeptIn
    <3>7. ptr # None
      <4>1. ptr \in Cell BY <3>3, <3>4, Cells
      <4> QED BY <4>1, ListAssumption
    <3> QED BY <3>1, <3>2, <3>3, <3>4, <3>5, <3>6, <3>7 DEF KeyIn
  <2>4. CASE \A n \in DOMAIN ns : KeyIn(mem, ns[n]) # k
    <3>1. f \notin Node BY <2>1, <2>4, FindIs, HeldMet DEF Serves, f
    <3>2. ptr = None BY <1>3, <3>1
    <3>3. Absent \in expect[k] BY <1>4, <2>1, <2>4, Zenon DEF Serves, Shown
    <3> QED BY <3>2, <3>3
  <2> QED BY <2>3, <2>4
<1> QED BY <1>1, <1>3, <1>5, <1>6, NoProgram, EnterReads

\* A call begins with what is expected; a copy takes what the node holds.
LEMMA CallReads ==
  ASSUME IInv, ReadsInv, NEW t \in Thread,
         \/ \E k \in Key : \/ CallRead(t, k)
                           \/ \E n \in Version : CallInsert(t, k, n) \/ CallUpdate(t, k, n)
         \/ CopyOut(t) \/ Return(t)
  PROVE  ReadsInv'
<1>1. BaseInv /\ CallInv BY DEF IInv, BaseInv
<1>2. /\ UNCHANGED <<pvars, cls, phase, prog, expect, starts>>
      /\ \A u \in Thread \ {t} : th'[u] = th[u]
  BY <1>1, BaseCalls
<1>3. th \in [Thread -> CallState] /\ th[t] \in CallState
  BY <1>1 DEF CallInv, CallTypeOK
<1>4. starts = 0 => \A k \in Key : expect'[k] \subseteq Val \cup {Absent}
  BY <1>2 DEF ReadsInv
<1>5. ASSUME starts = 0, th'[t].pc # "idle", th'[t].op = "read"
      PROVE  ReadTruly(t)'
  <2>1. ASSUME NEW k \in Key, CallRead(t, k) PROVE ReadTruly(t)'
    <3>1. th' = [th EXCEPT ![t] = [Idle EXCEPT !.pc = "want", !.op = "read",
                                    !.key = k, !.val = 0, !.legal = expect[k]]]
      BY <2>1 DEF CallRead, Call, StartCall
    <3>2. th'[t].pc = "want" /\ th'[t].legal = expect[k]
      BY <1>3, <3>1 DEF Idle
    <3> QED BY <1>5, <3>2 DEF ReadTruly, ReadsInv
  <2>2. ASSUME NEW k \in Key, NEW n \in Version, CallInsert(t, k, n) \/ CallUpdate(t, k, n)
        PROVE  FALSE
    <3>1. \E op \in {"insert", "update"} : \E v : StartCall(t, op, k, v)
      BY <2>2 DEF CallInsert, CallUpdate, Call
    <3>2. th'[t].op \in {"insert", "update"} BY <1>3, <3>1 DEF StartCall, Idle
    <3> QED BY <1>5, <3>2
  <2>3. CASE Return(t) BY <1>3, <1>5, <2>3 DEF Return, Idle
  <2>4. CASE CopyOut(t)
    <3>1. /\ th[t].pc = "copy"
          /\ th' = [th EXCEPT ![t] = [th[t] EXCEPT !.pc = "got", !.ret = kOK,
                      !.got = IF th[t].ptr = None THEN None ELSE mem[th[t].ptr]]]
      BY <2>4 DEF CopyOut, ReadStatus
    <3>2. /\ th'[t].pc = "got" /\ th'[t].legal = th[t].legal
          /\ th'[t].ptr = th[t].ptr /\ th'[t].op = th[t].op
          /\ th[t].ptr # None => th'[t].got = mem[th[t].ptr]
      BY <1>3, <3>1 DEF CallState
    <3>3. ReadTruly(t) BY <1>5, <3>1, <3>2 DEF ReadsInv
    <3>4. th[t].ptr # None => mem[th[t].ptr] \in th[t].legal \cup {Torn}
      BY <3>1, <3>3 DEF ReadTruly, FoundIn
    <3> QED BY <3>1, <3>2, <3>3, <3>4 DEF ReadTruly
  <2> QED BY <2>1, <2>2, <2>3, <2>4
<1> QED BY <1>2, <1>4, <1>5, SameReads DEF pvars

LEMMA LeaveReads ==
  ASSUME IInv, ReadsInv, NEW t \in Thread, Leave(t) PROVE ReadsInv'
<1>1. BaseInv /\ CallInv BY DEF IInv, BaseInv
<1>2. /\ UNCHANGED <<pvars, cls, phase, prog, starts>>
      /\ expect' = IF Writes(th[t].op, th[t].key)
                   THEN [expect EXCEPT ![th[t].key] = {th[t].val}] ELSE expect
      /\ \A s \in Thread \ {t} : th'[s] = th[s]
  BY <1>1, BaseLeave
<1>3. th \in [Thread -> CallState] /\ th[t] \in CallState /\ th[t].pc = "in"
      /\ expect \in [Key -> SUBSET (Value \cup {Absent})]
  BY <1>1 DEF CallInv, CallTypeOK, Leave
<1>4. ASSUME starts = 0
      PROVE  \A k \in Key : expect'[k] \subseteq Val \cup {Absent}
  <2>1. Writes(th[t].op, th[t].key) => th[t].val \in Val
    BY <1>1, <1>3 DEF Writes, CallInv, Asked
  <2> QED BY <1>2, <1>3, <1>4, <2>1 DEF ReadsInv
<1>5. ASSUME starts = 0, th'[t].pc # "idle", th'[t].op = "read"
      PROVE  ReadTruly(t)'
  <2>1. th[t].op = "read"
    <3>1. CASE th[t].op = "scan" BY <1>3, <1>5, <3>1 DEF Leave, CallState
    <3>2. CASE th[t].op \notin {"read", "scan"} BY <1>3, <1>5, <3>2 DEF Leave, Idle
    <3> QED BY <3>1, <3>2
  <2>2. th' = [th EXCEPT ![t] = [th[t] EXCEPT !.pc = "copy"]]
    BY <2>1 DEF Leave
  <2>3. /\ th'[t].pc = "copy" /\ th'[t].ptr = th[t].ptr /\ th'[t].key = th[t].key
        /\ th'[t].legal = th[t].legal
    BY <1>3, <2>2 DEF CallState
  <2>4. ReadTruly(t) BY <1>3, <1>5, <2>1 DEF ReadsInv
  <2>5. ASSUME NEW o \in Node, FoundIn(o, t) PROVE FoundIn(o, t)'
    BY <1>2, <2>3, <2>5 DEF FoundIn, pvars
  <2> QED BY <1>3, <2>3, <2>4, <2>5, Zenon DEF ReadTruly
<1> QED BY <1>2, <1>4, <1>5, SameReads DEF pvars

\* main runs while no thread is in a call.
LEMMA MainReads ==
  ASSUME IInv, IInv', ReadsInv, phase' # "serve" \/ phase = "init",
         starts' = 0 => starts = 0 /\ \A k \in Key : \/ expect'[k] = expect[k]
                                       \/ expect'[k] = expect[k] \cup {Absent}
                                       \/ expect'[k] = {Absent},
         \A t \in Thread : th'[t] = th[t] \/ th'[t].pc = "idle"
  PROVE  ReadsInv'
<1>1. CallsServed /\ CallsServed' BY DEF IInv, BaseInv, CallInv
<1>2. \A t \in Thread : th'[t].pc = "idle" BY <1>1 DEF CallsServed, Quiet
<1>3. starts' = 0 => \A k \in Key : expect'[k] \subseteq Val \cup {Absent}
  BY DEF ReadsInv
<1> QED BY <1>2, <1>3, ReadsQuiet

LEMMA GoneReads ==
  ASSUME IInv, IInv', ReadsInv, Close \/ Crash \/ Dies PROVE ReadsInv'
<1>1. /\ phase' \in {"down", "closed"} /\ UNCHANGED <<expect, starts>>
      /\ \A t \in Thread : th'[t] = th[t] \/ th'[t].pc = "idle"
  BY DEF Close, Crash, Dies, Gone, Idle
<1> QED BY <1>1, MainReads

LEMMA InitDoneReads ==
  ASSUME IInv, IInv', ReadsInv, InitDone([k \in Key |-> Listed(k)])
  PROVE  ReadsInv'
<1>1. /\ UNCHANGED <<pvars, cls, th, prog, starts>>
      /\ phase = "init" /\ phase' = "serve" /\ prog[main] = <<>>
      /\ \A k \in Key : expect'[k] = {Listed(k)}
  BY BaseInitDone DEF IInv
<1>2. ASSUME starts = 0, NEW k \in Key PROVE Listed(k) = Absent
  <2>1. HoldsIn(mem, live, <<>>, NoRecords)
    BY <1>1, <1>2 DEF IInv, ListInv
  <2>2. PICK ns \in Seq(Node) :
          /\ Linked(mem, ns) /\ Ended(mem, ns) /\ Keyed(mem, ns)
          /\ Shown(mem, ns, NoRecords)
    BY <2>1, HeldNow
  <2>3. Listed(k) \in NoRecords[k] BY <2>2, ListedIs, HeldMet DEF Held
  <2> QED BY <2>3 DEF NoRecords
<1> QED BY <1>1, <1>2, MainReads

LEMMA InitReads == ListInit => ReadsInv
BY DEF ListInit, StoredsInit, ReadsInv, Idle

LEMMA StepReads == IInv /\ ReadsInv /\ [Next]_vars => ReadsInv'
<1> SUFFICES ASSUME IInv, ReadsInv, [Next]_vars PROVE ReadsInv' OBVIOUS
<1>0. IInv' BY StepIInv
<1>1. ASSUME NEW t \in Thread, NEW k \in Key,
             \/ CallRead(t, k)
             \/ \E n \in Version : CallInsert(t, k, n) \/ CallUpdate(t, k, n)
      PROVE  ReadsInv'
  BY <1>1, CallReads
<1>2. ASSUME Dies PROVE ReadsInv' BY <1>0, <1>2, GoneReads
<1>3. ASSUME NEW t \in Thread, ThreadStep(t) PROVE ReadsInv'
  <2>1. t \in Actor BY DEF Actor
  <2>2. CASE Insert(t) BY <2>2, InsertReads
  <2>3. CASE Update(t) BY <2>3, UpdateReads
  <2>4. CASE Read(t) BY <2>4, ReadReads
  <2>5. CASE Exec(t) BY <2>1, <2>5, ExecReads
  <2>6. CASE Leave(t) BY <2>6, LeaveReads
  <2>7. CASE CopyOut(t) \/ Return(t) BY <2>7, CallReads
  <2>8. CASE MissDies(t) \/ NotInitialised(t) \/ Derefs(t)
    BY <1>2, <2>8 DEF MissDies, NotInitialised, CheckFails, Derefs
  <2> QED BY <1>3, <2>2, <2>3, <2>4, <2>5, <2>6, <2>7, <2>8, Zenon
          DEF ThreadStep, ClientStep
<1>4. CASE MainStep
  <2>1. main \in Actor BY DEF Actor
  <2>2. CASE Exec(main) BY <2>1, <2>2, ExecReads
  <2>3. CASE DoubleFree(main) \/ DestroyDerefs
    BY <1>2, <2>3 DEF DoubleFree, DestroyDerefs
  <2>4. CASE InitDone([k \in Key |-> Listed(k)]) BY <1>0, <2>4, InitDoneReads
  <2>5. CASE CloseList BY <1>0, <2>5, GoneReads DEF CloseList
  <2> QED BY <1>4, <2>2, <2>3, <2>4, <2>5, Zenon DEF MainStep
<1>5. CASE DestroyList
  <2>1. Destroy(destroy) BY <1>5 DEF DestroyList
  <2>2. phase' = "destroy" /\ UNCHANGED <<th, starts>>
        /\ \A k \in Key : expect'[k] = expect[k] \cup {Absent}
    BY <2>1 DEF Destroy
  <2> QED BY <1>0, <2>2, MainReads
<1>6. CASE DestroyEmpty BY <1>2, <1>6 DEF DestroyEmpty
<1>7. CASE Crash BY <1>0, <1>7, GoneReads
<1>8. CASE Settling
  <2>1. phase' \notin {"init", "serve"} BY <1>8, BaseSettling DEF IInv
  <2>2. UNCHANGED <<th, starts, expect>> BY <1>8 DEF Settling, svars
  <2> QED BY <1>0, <2>1, <2>2, MainReads
<1>9. CASE Reopen(init)
  <2>1. starts' # 0 BY <1>9, BaseReopen DEF IInv
  <2> QED BY <2>1 DEF ReadsInv
<1>10. CASE UNCHANGED vars
  <2>1. UNCHANGED <<mem, live, prog, starts, th, expect>>
    BY <1>10 DEF vars, pvars, svars
  <2> QED BY <2>1 DEF ReadsInv, ReadTruly, FoundIn
<1>11. CASE Finished BY <1>10, <1>11 DEF Finished
<1> QED BY <1>1, <1>3, <1>4, <1>5, <1>6, <1>7, <1>8, <1>9, <1>10, <1>11, Zenon
        DEF Next

-----------------------------------------------------------------------------
(***************************************************************************)
(* What the pool of a tx class shows after a failure.                      *)
(***************************************************************************)
\* The steps of a transaction between TX_BEGIN and TX_END that free no head and
\* store only in B.
Inner(B) ==
  {u \in Step : /\ u.op \in {"store", "tx_add_range", "tx_alloc", "tx_free"}
                /\ u.op = "store" => u.c \in B
                /\ HeadCell \notin Releases(u)}

\* Steps of a transaction that store what they have logged, or the tail.
Body(p) ==
  /\ p \in Seq(Step) /\ \A L : LogsFirst(p, L \cup {TailCell})
  /\ \A j \in DOMAIN p : p[j].op # "tx_end" /\ HeadCell \notin Releases(p[j])

\* The whole of such a transaction.
Disciplined(p) ==
  /\ p \in Seq(Step) /\ p # <<>> /\ p[1].op = "tx_begin" /\ EndsTx(p)
  /\ \A L : LogsFirst(p, L \cup {TailCell})
  /\ \A j \in DOMAIN p : HeadCell \notin Releases(p[j])

LEMMA InnerSteps ==
  ASSUME NEW B
  PROVE  /\ \A C \in SUBSET Cell : /\ Sn(C) \in Inner(B) /\ TAl(C) \in Inner(B)
                                   /\ HeadCell \notin C => TFr(C) \in Inner(B)
         /\ \A c \in Cell, v \in Value : c \in B => St(c, v) \in Inner(B)
<1>1. ASSUME NEW C \in SUBSET Cell
      PROVE  /\ Sn(C) \in Inner(B) /\ TAl(C) \in Inner(B)
             /\ HeadCell \notin C => TFr(C) \in Inner(B)
  <2>1. Sn(C) \in Step /\ TAl(C) \in Step /\ TFr(C) \in Step BY StepKinds
  <2>2. /\ Sn(C).op = "tx_add_range" /\ TAl(C).op = "tx_alloc"
        /\ TFr(C).op = "tx_free" /\ TFr(C).C = C
    BY DEF Sn, TAl, TFr
  <2> QED BY <2>1, <2>2 DEF Inner, Releases
<1>2. ASSUME NEW c \in Cell, NEW v \in Value, c \in B PROVE St(c, v) \in Inner(B)
  <2>1. St(c, v) \in Step BY StepKinds
  <2>2. St(c, v).op = "store" /\ St(c, v).c = c BY DEF St
  <2> QED BY <1>2, <2>1, <2>2 DEF Inner, Releases
<1> QED BY <1>1, <1>2

\* A range is logged, and then nothing stored but in it or in the tail.
LEMMA BodyOne ==
  ASSUME NEW a \in Inner({}), NEW B, B \subseteq Logs(a),
         NEW b \in Seq(Inner(B \cup {TailCell}))
  PROVE  Body(<<a>> \o b)
<1> DEFINE y == <<a>>
<1>1. /\ \A j \in DOMAIN b : b[j] \in Inner(B \cup {TailCell})
      /\ b \in [1..Len(b) -> Step] /\ Len(b) \in Nat
  BY LenProperties DEF Inner
<1>2. y \in Seq(Step) /\ DOMAIN y = {1} /\ y[1] = a BY DEF Inner
<1>3. b \in Seq(Step) BY <1>1
<1>4. /\ a.op \in {"tx_add_range", "tx_alloc", "tx_free"}
      /\ HeadCell \notin Releases(a)
  BY DEF Inner
<1> HIDE DEF y
<1>5. B \subseteq ToLog(y) BY <1>2 DEF ToLog
<1>6. ASSUME NEW L PROVE LogsFirst(y \o b, L \cup {TailCell})
  <2>1. /\ LogsFirst(y, L \cup {TailCell})
        /\ \A j \in DOMAIN y : y[j].op # "tx_end"
    BY <1>2, <1>4, LogsFirstAll
  <2>2. \A j \in DOMAIN b :
          /\ b[j].op \in {"store", "tx_add_range", "tx_alloc", "tx_free"}
          /\ b[j].op = "store" => b[j].c \in (L \cup {TailCell}) \cup ToLog(y)
    BY <1>1, <1>5 DEF Inner
  <2>3. LogsFirst(b, (L \cup {TailCell}) \cup ToLog(y)) BY <2>2, LogsFirstAll
  <2> QED BY <1>2, <1>3, <2>1, <2>3, ToLogConcat
<1>7. /\ y \o b \in Seq(Step)
      /\ \A j \in DOMAIN (y \o b) : \/ \E i \in DOMAIN y : (y \o b)[j] = y[i]
                                    \/ \E i \in DOMAIN b : (y \o b)[j] = b[i]
  BY <1>2, <1>3, ConcatMembers
<1>8. /\ \A i \in DOMAIN y : y[i].op # "tx_end" /\ HeadCell \notin Releases(y[i])
      /\ \A i \in DOMAIN b : b[i].op # "tx_end" /\ HeadCell \notin Releases(b[i])
  BY <1>1, <1>2, <1>4 DEF Inner
<1>9. \A j \in DOMAIN (y \o b) : /\ (y \o b)[j].op # "tx_end"
                                 /\ HeadCell \notin Releases((y \o b)[j])
  BY <1>7, <1>8, Zenon
<1> QED BY <1>6, <1>7, <1>9 DEF Body, y

LEMMA BodyConcat ==
  ASSUME NEW p, NEW q, Body(p), Body(q) PROVE Body(p \o q)
<1>1. /\ p \in Seq(Step) /\ q \in Seq(Step)
      /\ \A j \in DOMAIN p : p[j].op # "tx_end" /\ HeadCell \notin Releases(p[j])
      /\ \A j \in DOMAIN q : q[j].op # "tx_end" /\ HeadCell \notin Releases(q[j])
  BY DEF Body
<1>2. ASSUME NEW L PROVE LogsFirst(p \o q, L \cup {TailCell})
  <2>1. LogsFirst(p, L \cup {TailCell}) BY DEF Body
  <2>2. LogsFirst(q, (L \cup ToLog(p)) \cup {TailCell}) BY Zenon DEF Body
  <2>3. (L \cup ToLog(p)) \cup {TailCell} = (L \cup {TailCell}) \cup ToLog(p)
    OBVIOUS
  <2>4. LogsFirst(q, (L \cup {TailCell}) \cup ToLog(p)) BY <2>2, <2>3
  <2> QED BY <1>1, <2>1, <2>4, ToLogConcat
<1>3. /\ p \o q \in Seq(Step)
      /\ \A j \in DOMAIN (p \o q) : \/ \E i \in DOMAIN p : (p \o q)[j] = p[i]
                                    \/ \E i \in DOMAIN q : (p \o q)[j] = q[i]
  BY <1>1, ConcatMembers
<1>4. \A j \in DOMAIN (p \o q) : /\ (p \o q)[j].op # "tx_end"
                                 /\ HeadCell \notin Releases((p \o q)[j])
  BY <1>1, <1>3, Zenon
<1> QED BY <1>2, <1>3, <1>4 DEF Body

LEMMA Transaction ==
  ASSUME NEW p, Body(p) PROVE Disciplined(<<Bg>> \o p \o <<Cm>>)
<1> DEFINE x == <<Bg>>  z == <<Cm>>  r == (x \o p) \o z
<1>1. Bg \in Step /\ Cm \in Step BY StepKinds
<1>2. /\ Bg.op = "tx_begin" /\ Cm.op = "tx_end"
      /\ Releases(Bg) = {} /\ Releases(Cm) = {} /\ Logs(Bg) = {}
  BY DEF Bg, Cm, Releases, Logs
<1>3. /\ x \in Seq(Step) /\ DOMAIN x = {1} /\ x[1] = Bg /\ Len(x) = 1
      /\ z \in Seq(Step) /\ DOMAIN z = {1} /\ z[1] = Cm /\ Len(z) = 1 /\ z # <<>>
  BY <1>1
<1> HIDE DEF x, z
<1>4. /\ p \in Seq(Step)
      /\ \A j \in DOMAIN p : p[j].op # "tx_end" /\ HeadCell \notin Releases(p[j])
  BY DEF Body
<1>5. /\ x \o p \in Seq(Step) /\ \A j \in DOMAIN (x \o p) : (x \o p)[j].op # "tx_end"
  BY <1>2, <1>3, <1>4, NoEndConcat
<1>6. ASSUME NEW L PROVE LogsFirst(r, L \cup {TailCell})
  <2>1. /\ LogsFirst(x, L \cup {TailCell})
        /\ \A j \in DOMAIN x : x[j].op # "tx_end"
    BY <1>2, <1>3, LogsFirstAll
  <2>2. LogsFirst(p, (L \cup ToLog(x)) \cup {TailCell}) BY Zenon DEF Body
  <2>3. (L \cup ToLog(x)) \cup {TailCell} = (L \cup {TailCell}) \cup ToLog(x)
    OBVIOUS
  <2>4. LogsFirst(p, (L \cup {TailCell}) \cup ToLog(x)) BY <2>2, <2>3
  <2>5. LogsFirst(x \o p, L \cup {TailCell})
    BY <1>3, <1>4, <2>1, <2>4, ToLogConcat
  <2>6. LogsFirst(z, (L \cup {TailCell}) \cup ToLog(x \o p))
    BY <1>2, <1>3 DEF LogsFirst
  <2> QED BY <1>3, <1>5, <2>5, <2>6, ToLogConcat
<1>7. EndsTx(r)
  <2>1. EndsTx(z) BY <1>2, <1>3 DEF EndsTx
  <2> QED BY <1>3, <1>5, <2>1, EndsTxConcat
<1>8. r # <<>> /\ r[1] = Bg
  <2>1. 1 \in DOMAIN (x \o p) /\ (x \o p)[1] = Bg BY <1>3, <1>4, ConcatIs
  <2>2. 1 \in DOMAIN r /\ r[1] = Bg BY <1>3, <1>5, <2>1, ConcatIs
  <2> HIDE DEF r
  <2> QED BY <2>2
<1>9. r \in Seq(Step) /\ \A j \in DOMAIN r : HeadCell \notin Releases(r[j])
  <2>1. /\ r \in Seq(Step)
        /\ \A j \in DOMAIN r : \/ \E i \in DOMAIN (x \o p) : r[j] = (x \o p)[i]
                               \/ \E i \in DOMAIN z : r[j] = z[i]
    BY <1>3, <1>5, ConcatMembers
  <2>2. \A j \in DOMAIN (x \o p) : \/ \E i \in DOMAIN x : (x \o p)[j] = x[i]
                                   \/ \E i \in DOMAIN p : (x \o p)[j] = p[i]
    BY <1>3, <1>4, ConcatMembers
  <2> HIDE DEF r
  <2>3. \A j \in DOMAIN (x \o p) : HeadCell \notin Releases((x \o p)[j])
    BY <1>2, <1>3, <1>4, <2>2
  <2> QED BY <1>2, <1>3, <2>1, <2>3
<1>10. Disciplined(r)
  <2>1. \A L : LogsFirst(r, L \cup {TailCell}) BY <1>6
  <2> HIDE DEF r
  <2> QED BY <1>2, <1>7, <1>8, <1>9, <2>1 DEF Disciplined
<1> QED BY <1>10 DEF x, z

\* insert logs the new node before it fills it, and the root or the last node
\* before it links the new one there, ...
LEMMA InsertTx ==
  ASSUME CallInv, cls.medium = "tx", HeadP # Zero => TailP \in Node,
         NewNode \in Node, NEW k \in Key, NEW v \in Val, NEW g
  PROVE  Disciplined(insert(k, v, g))
<1> DEFINE o == NewNode  A == NodeCells(o)  c == Cp(<<o, "value">>, v)
           s == St(<<o, "key">>, k)  y == St(Link, o)  z == St(TailCell, o)
           x == <<Bg>>  w == <<Cm>>  a == <<TAl(A)>>  n == <<Sn(Joint)>>
           b == <<s>> \o c  d == <<y>> \o <<z>>
<1>1. /\ insert(k, v, g) = <<Bg, TAl(A), s>> \o c \o <<Sn(Joint), y, z>> \o w
      /\ <<Bg, TAl(A), s>> = x \o a \o <<s>>
      /\ <<Sn(Joint), y, z>> = n \o <<y>> \o <<z>>
  <2>1. insert(k, v, g) = linkedlist_pmem_tx_insert(k, v) BY InsertIs
  <2>2. linkedlist_pmem_tx_insert(k, v)
          = <<Bg, TAl(A), s>> \o c \o <<Sn(Joint), y, z>> \o w
    BY InsertParts, Zenon
  <2>3. /\ \A e, f : <<e>> \o <<f>> = <<e, f>>
        /\ \A e, f, h : <<e, f>> \o <<h>> = <<e, f, h>>
    BY Join11, Join21
  <2> HIDE DEF A, c, s, y, z, o
  <2>4. <<Bg, TAl(A), s>> = x \o a \o <<s>>
    <3>1. x \o a = <<Bg, TAl(A)>> BY <2>3, Zenon
    <3>2. <<Bg, TAl(A)>> \o <<s>> = <<Bg, TAl(A), s>> BY <2>3, Zenon
    <3> QED BY <3>1, <3>2, Zenon
  <2>5. <<Sn(Joint), y, z>> = n \o <<y>> \o <<z>>
    <3>1. n \o <<y>> = <<Sn(Joint), y>> BY <2>3, Zenon
    <3>2. <<Sn(Joint), y>> \o <<z>> = <<Sn(Joint), y, z>> BY <2>3, Zenon
    <3> QED BY <3>1, <3>2, Zenon
  <2> QED BY <2>1, <2>2, <2>4, <2>5
<1>2. /\ A \in SUBSET Cell /\ <<o, "value">> \in Cell /\ <<o, "value">> \in A
      /\ <<o, "key">> \in Cell /\ <<o, "key">> \in A
      /\ TailCell \in Cell /\ k \in Value /\ v \in Value /\ o \in Value
      /\ Torn \in Value
  BY Cells, Contents
<1>3. Link \in Cell /\ Joint \in SUBSET Cell /\ Link \in Joint BY LinkIs
<1>4. /\ TAl(A) \in Inner({}) /\ Sn(Joint) \in Inner({})
      /\ Logs(TAl(A)) = A /\ Logs(Sn(Joint)) = Joint
  BY <1>2, <1>3, InnerSteps, StepLogs
<1>5. b \in Seq(Inner(A \cup {TailCell}))
  <2> DEFINE S == Inner(A \cup {TailCell})
  <2>1. /\ s \in S /\ St(<<o, "value">>, Torn) \in S
        /\ St(<<o, "value">>, v) \in S
    BY <1>2, InnerSteps
  <2> HIDE DEF S, s
  <2>2. c \in Seq(S) /\ <<s>> \in Seq(S) BY <2>1 DEF Cp
  <2> HIDE DEF c
  <2>3. <<s>> \o c \in Seq(S) BY <2>2, ConcatProperties
  <2> QED BY <2>3 DEF S
<1>6. d \in Seq(Inner(Joint \cup {TailCell}))
  <2> DEFINE S == Inner(Joint \cup {TailCell})
  <2>1. y \in S /\ z \in S BY <1>2, <1>3, InnerSteps
  <2> HIDE DEF S, y, z
  <2>2. <<y>> \in Seq(S) /\ <<z>> \in Seq(S) BY <2>1
  <2>3. <<y>> \o <<z>> \in Seq(S) BY <2>2, ConcatProperties
  <2> QED BY <2>3 DEF S
<1>7. /\ x \in Seq(Step) /\ w \in Seq(Step) /\ a \in Seq(Step) /\ n \in Seq(Step)
      /\ <<s>> \in Seq(Step) /\ <<y>> \in Seq(Step) /\ <<z>> \in Seq(Step)
  BY <1>2, <1>3, StepKinds
<1>8. c \in Seq(Step) BY <1>2, StepKinds DEF Cp
<1> HIDE DEF A, c, s, y, z, o
<1>9. Body(<<TAl(A)>> \o b) BY <1>4, <1>5, BodyOne
<1>10. Body(<<Sn(Joint)>> \o d) BY <1>4, <1>6, BodyOne
<1>11. Disciplined(x \o ((a \o b) \o (n \o d)) \o w)
  BY <1>9, <1>10, BodyConcat, Transaction
<1> HIDE DEF x, w, a, n
<1>12. (x \o a \o <<s>>) \o c \o (n \o <<y>> \o <<z>>)
         = x \o ((a \o b) \o (n \o d))
  <2> DEFINE e == <<s>>  f == <<y>>  h == <<z>>
  <2>1. e \in Seq(Step) /\ f \in Seq(Step) /\ h \in Seq(Step) BY <1>7
  <2> HIDE DEF e, f, h
  <2>2. b = e \o c /\ d = f \o h BY DEF e, f, h
  <2> HIDE DEF b, d
  <2>3. b \in Seq(Step) /\ d \in Seq(Step) BY <1>8, <2>1, <2>2, ConcatProperties
  <2> DEFINE i == x \o a  j == a \o b  m == n \o d
  <2>4. i \in Seq(Step) /\ j \in Seq(Step) /\ m \in Seq(Step)
    BY <1>7, <2>3, ConcatProperties
  <2>5. n \o f \o h = m
    <3>1. n \in Seq(Step) /\ f \in Seq(Step) /\ h \in Seq(Step) BY <1>7, <2>1
    <3>2. n \o f \o h = n \o (f \o h) BY <3>1, ConcatAssociative
    <3> QED BY <2>2, <3>2, Zenon
  <2>6. i \o b = x \o j
    <3>1. x \in Seq(Step) /\ a \in Seq(Step) /\ b \in Seq(Step) BY <1>7, <2>3
    <3> QED BY <3>1, ConcatAssociative
  <2> HIDE DEF i, j, m
  <2>7. i \o e \o c = i \o b
    <3>1. i \in Seq(Step) /\ e \in Seq(Step) /\ c \in Seq(Step)
      BY <1>8, <2>1, <2>4
    <3>2. i \o e \o c = i \o (e \o c) BY <3>1, ConcatAssociative
    <3> QED BY <2>2, <3>2, Zenon
  <2>8. x \o j \o m = x \o (j \o m)
    <3>1. x \in Seq(Step) /\ j \in Seq(Step) /\ m \in Seq(Step) BY <1>7, <2>4
    <3> QED BY <3>1, ConcatAssociative
  <2>9. i \o e \o c \o (n \o f \o h) = x \o (j \o m)
    BY <2>5, <2>6, <2>7, <2>8, Zenon
  <2> QED BY <2>9 DEF e, f, h, i, j, m
<1> HIDE DEF b, d
<1>13. insert(k, v, g) = x \o ((a \o b) \o (n \o d)) \o w
  BY <1>1, <1>12, Zenon
<1> QED BY <1>11, <1>13

\* ... and update the node before it changes its value.
LEMMA UpdateTx ==
  ASSUME CallInv, cls.medium = "tx", NEW o \in Node, NEW v \in Val
  PROVE  Disciplined(update(o, v))
<1> DEFINE A == NodeCells(o)  c == Cp(<<o, "value">>, v)
           x == <<Bg>>  w == <<Cm>>  a == <<Sn(A)>>
<1>1. update(o, v) = <<Bg, Sn(A)>> \o c \o w
  BY DEF update, Volatile, linkedlist_pmem_tx_update
<1>2. <<Bg, Sn(A)>> = x \o a BY Join11
<1>3. /\ A \in SUBSET Cell /\ <<o, "value">> \in Cell /\ <<o, "value">> \in A
      /\ v \in Value /\ Torn \in Value
  BY Cells, Contents
<1>4. Sn(A) \in Inner({}) /\ Logs(Sn(A)) = A BY <1>3, InnerSteps, StepLogs
<1>5. c \in Seq(Inner(A \cup {TailCell}))
  <2> DEFINE S == Inner(A \cup {TailCell})
  <2>1. St(<<o, "value">>, Torn) \in S /\ St(<<o, "value">>, v) \in S
    BY <1>3, InnerSteps
  <2> HIDE DEF S
  <2>2. c \in Seq(S) BY <2>1 DEF Cp
  <2> QED BY <2>2 DEF S
<1>6. /\ x \in Seq(Step) /\ a \in Seq(Step) /\ c \in Seq(Step)
  BY <1>3, StepKinds DEF Cp
<1> HIDE DEF A, c
<1>7. Body(<<Sn(A)>> \o c) BY <1>4, <1>5, BodyOne
<1>8. Disciplined(x \o (a \o c) \o w) BY <1>7, Transaction
<1> HIDE DEF x, a, w
<1>9. x \o a \o c = x \o (a \o c) BY <1>6, ConcatAssociative
<1> QED BY <1>1, <1>2, <1>8, <1>9

\* destroy logs the root before it follows the list with the head pointer; in
\* the end it clears the root.
LEMMA DestroyTx ==
  ASSUME CallInv, cls.medium = "tx", HoldOnly(Pointer, LeadsTo),
         TailP \in Node \cup {Zero}
  PROVE  /\ Disciplined(destroy)
         /\ \E F : Yields(destroy, mem, F) /\ F[HeadCell] = Zero
<1> DEFINE x == <<Bg>>  r == <<Sn(RootCells)>>  d == <<Bg, Sn(RootCells)>>
           g == FreeChain(LAMBDA C : TFr(C))  w == <<Cm>>  e == ClearRoot
           c == IF TailP # Zero THEN <<TFr(NodeCells(TailP))>> ELSE <<>>
           S == Inner(RootCells \cup {TailCell})
<1>1. destroy = d \o g \o c \o e \o w
  BY DEF destroy, Volatile, linkedlist_pmem_tx_destroy
<1>2. d = x \o r BY Join11
<1>3. /\ RootCells \in SUBSET Cell /\ HeadCell \in Cell /\ TailCell \in Cell
      /\ HeadCell \in RootCells /\ TailCell \in RootCells
  BY Cells
<1>4. \A o \in Node : NodeCells(o) \in SUBSET Cell /\ HeadCell \notin NodeCells(o)
  BY <1>3, Cells, Fields
<1>5. \A o \in Node : TFr(NodeCells(o)) \in S BY <1>4, InnerSteps
<1>6. \A v \in LeadsTo : St(HeadCell, v) \in S /\ St(TailCell, v) \in S
  BY <1>3, Leading, InnerSteps
<1>7. S \subseteq Step BY DEF Inner
<1>8. Sn(RootCells) \in Inner({}) /\ Logs(Sn(RootCells)) = RootCells
  BY <1>3, InnerSteps, StepLogs
<1> HIDE DEF S
<1>9. g \in Seq(S)
  <2> DEFINE n == Len(Chain)
             step(i) == St(HeadCell, mem[<<Chain[i], "next">>])
             f == [i \in 1..n |-> <<step(i), TFr(NodeCells(Chain[i]))>>]
  <2>1. n \in Nat /\ \A i \in 1..n : Chain[i] \in Node BY ChainTyped
  <2>2. ASSUME NEW i \in 1..n PROVE step(i) \in S /\ TFr(NodeCells(Chain[i])) \in S
    <3>1. Chain[i] \in Node BY <2>1
    <3>2. <<Chain[i], "next">> \in Pointer BY <3>1, Cells
    <3>3. mem[<<Chain[i], "next">>] \in LeadsTo BY <3>2 DEF HoldOnly
    <3> QED BY <1>5, <1>6, <3>1, <3>3
  <2>3. g = FlattenSeq(f) BY DEF FreeChain
  <2> HIDE DEF n, step
  <2>4. \A i \in 1..n : f[i] \in Seq(S) BY <2>2
  <2>5. f = [i \in 1..n |-> f[i]] OBVIOUS
  <2> HIDE DEF f, g
  <2>6. FlattenSeq(f) \in Seq(S) BY <2>1, <2>4, <2>5, FlattenSteps
  <2> QED BY <2>3, <2>6
<1>10. c \in Seq(S)
  <2>1. CASE TailP = Zero BY <2>1
  <2>2. CASE TailP # Zero BY <1>5, <2>2
  <2> QED BY <2>1, <2>2
<1>11. e \in Seq(S)
  <2>1. St(HeadCell, Zero) \in S /\ St(TailCell, Zero) \in S BY <1>6, Leading
  <2> QED BY <2>1 DEF ClearRoot
<1>12. g \in Seq(Step) /\ c \in Seq(Step) /\ e \in Seq(Step)
  BY <1>7, <1>9, <1>10, <1>11
<1>13. /\ x \in Seq(Step) /\ r \in Seq(Step) /\ w \in Seq(Step)
       /\ d \in Seq(Step)
  BY <1>3, StepKinds
<1> HIDE DEF g, c, e
<1> DEFINE i == g \o c
<1>14. i \in Seq(S) /\ i \in Seq(Step) BY <1>9, <1>10, <1>12, ConcatProperties
<1> DEFINE j == i \o e
<1>15. j \in Seq(S) /\ j \in Seq(Step) BY <1>11, <1>12, <1>14, ConcatProperties
<1>16. Body(<<Sn(RootCells)>> \o j) BY <1>8, <1>15, BodyOne DEF S
<1>17. Disciplined(x \o (r \o j) \o w) BY <1>16, Transaction
<1> HIDE DEF x, r, w, d
<1>18. d \o g \o c = d \o i
  <2>1. d \in Seq(Step) /\ g \in Seq(Step) /\ c \in Seq(Step) BY <1>12, <1>13
  <2> QED BY <2>1, ConcatAssociative
<1> HIDE DEF i
<1>19. d \o i \o e = d \o j
  <2>1. d \in Seq(Step) /\ i \in Seq(Step) /\ e \in Seq(Step)
    BY <1>12, <1>13, <1>14
  <2> QED BY <2>1, ConcatAssociative
<1> HIDE DEF j
<1>20. x \o r \o j = x \o (r \o j)
  <2>1. x \in Seq(Step) /\ r \in Seq(Step) /\ j \in Seq(Step) BY <1>13, <1>15
  <2> QED BY <2>1, ConcatAssociative
<1>21. d \o g \o c \o e = x \o (r \o j) BY <1>2, <1>18, <1>19, <1>20, Zenon
<1>22. Disciplined(destroy) BY <1>1, <1>17, <1>21, Zenon
<1> DEFINE p == d \o g \o c
<1>23. p \in Seq(Step)
  <2>1. d \in Seq(Step) /\ i \in Seq(Step) BY <1>13, <1>14
  <2>2. d \o i \in Seq(Step) BY <2>1, ConcatProperties
  <2> QED BY <1>18, <2>2, Zenon
<1> HIDE DEF p
<1>24. p \o e \o w = p \o (e \o w)
  <2>1. p \in Seq(Step) /\ e \in Seq(Step) /\ w \in Seq(Step)
    BY <1>12, <1>13, <1>23
  <2> QED BY <2>1, ConcatAssociative
<1>25. PICK F : Yields(p, mem, F) BY <1>23, YieldsSome
<1> DEFINE G == [n \in Cell |-> IF n \in RootCells THEN Zero ELSE F[n]]
<1>26. Does(e, F, G, {})
  <2> DEFINE u == St(HeadCell, Zero)  v == St(TailCell, Zero)
  <2>1. /\ u \in Step /\ v \in Step /\ Releases(u) = {} /\ Releases(v) = {}
        /\ Allocates(u) = {} /\ Allocates(v) = {}
    <3>1. u \in Step /\ v \in Step BY <1>3, Contents, StepKinds
    <3>2. u.op = "store" /\ v.op = "store" BY DEF St
    <3> QED BY <3>1, <3>2 DEF Releases, Allocates
  <2>2. /\ Assigns(u) = {HeadCell} /\ Assigned(u, HeadCell) = Zero
        /\ Assigns(v) = {TailCell} /\ Assigned(v, TailCell) = Zero
    BY StepAssigns
  <2>3. e = <<u, v>> BY DEF e, ClearRoot
  <2> HIDE DEF u, v
  <2>4. \A n \in Cell : G[n] = After(v, n, After(u, n, F[n]))
    BY <2>2 DEF After, RootCells
  <2> HIDE DEF G
  <2>5. Does(<<u, v>>, F, G, Allocates(u) \cup Allocates(v))
    BY <2>1, <2>4, DoesTwo
  <2> QED BY <2>1, <2>3, <2>5
<1>27. Does(w, G, G, {})
  <2>1. {} \in SUBSET Cell OBVIOUS
  <2> HIDE DEF G
  <2> QED BY <2>1, Beginning DEF w
<1>28. G[HeadCell] = Zero BY <1>3
<1> HIDE DEF G
<1>29. e \o w \in Seq(Step) /\ Yields(e \o w, F, G)
  <2>1. Does(e \o w, F, G, {} \cup {}) BY <1>26, <1>27, DoesConcat
  <2> QED BY <2>1 DEF Does
<1>30. Yields(p \o (e \o w), mem, G) BY <1>23, <1>25, <1>29, YieldsConcat
<1>31. destroy = p \o (e \o w) BY <1>1, <1>24, Zenon DEF p
<1> QED BY <1>22, <1>28, <1>30, <1>31

\* What a program leaves for one expectation it leaves for one that allows more.
LEMMA HeldMore ==
  ASSUME NEW m, NEW A, NEW p, NEW want, HoldsIn(m, A, p, want),
         NEW now, \A k \in Key : want[k] \subseteq now[k]
  PROVE  HoldsIn(m, A, p, now)
<1>1. PICK F, ns :
        /\ ns \in Seq(Node) /\ Yields(p, m, F)
        /\ Linked(F, ns) /\ Ended(F, ns) /\ Keyed(F, ns) /\ Shown(F, ns, want)
        /\ KeptIn(ns, A \cup ToAllocate(p))
  BY Zenon DEF HoldsIn
<1>2. Shown(F, ns, now) BY <1>1 DEF Shown
<1> QED BY <1>1, <1>2, Zenon DEF HoldsIn

\* What the last TX_END left is what it was, if no less is expected of it.
LEMMA CommitStays ==
  ASSUME CommitShows, UNCHANGED <<stable, slive>>,
         \A k \in Key : expect[k] \subseteq expect'[k]
  PROVE  CommitShows'
<1>1. CASE HoldsIn(stable, slive, <<>>, expect)
  <2>1. HoldsIn(stable, slive, <<>>, expect') BY <1>1, HeldMore
  <2>2. HoldsIn(stable', slive', <<>>, expect') BY <2>1
  <2>3. HoldsIn(stable, slive, <<>>, expect)' BY <2>2, Zenon DEF HoldsIn
  <2> QED BY <2>3 DEF CommitShows
<1>2. CASE stable[HeadCell] = Zero /\ \A k \in Key : Absent \in expect[k]
  BY <1>2 DEF CommitShows
<1> QED BY <1>1, <1>2 DEF CommitShows

\* A step that changes neither the pool nor a program, and expects no less.
LEMMA ImageSame ==
  ASSUME TxImage, UNCHANGED <<pvars, phase, prog>>,
         \A k \in Key : expect[k] \subseteq expect'[k]
  PROVE  TxImage'
<1>1. UNCHANGED <<mem, may, vol, live, intx, undo, fresh, dying, power, stable,
                  slive>>
  BY DEF pvars
<1>2. PoolKept' BY <1>1 DEF TxImage, PoolKept
<1>3. Transacts' BY <1>1 DEF TxImage, Transacts, Logged
<1>4. HeadKept' BY <1>1 DEF TxImage, HeadKept
<1>5. CommitShows' BY <1>1, CommitStays DEF TxImage
<1> QED BY <1>2, <1>3, <1>4, <1>5 DEF TxImage

\* An actor is given a transaction, or nothing, to perform.
LEMMA ImageBegins ==
  ASSUME TxImage, UNCHANGED pvars, phase = "serve",
         \A b \in Actor : prog[b] = <<>>, prog = [b \in Actor |-> prog[b]],
         NEW a \in Actor, NEW p, p = <<>> \/ Disciplined(p),
         prog' = [prog EXCEPT ![a] = p],
         \A k \in Key : expect[k] \subseteq expect'[k],
         \/ phase' = "serve"
         \/ /\ phase' = "destroy" /\ a = main
            /\ \A k \in Key : Absent \in expect'[k]
            /\ \E F : Yields(p, mem, F) /\ F[HeadCell] = Zero
  PROVE  TxImage'
<1>1. UNCHANGED <<mem, may, vol, live, intx, undo, fresh, dying, power, stable,
                  slive>>
  BY DEF pvars
<1>2. prog'[a] = p /\ \A b \in Actor \ {a} : prog'[b] = <<>> OBVIOUS
<1>3. PoolKept' BY <1>1 DEF TxImage, PoolKept
<1>4. ~intx' BY <1>1 DEF TxImage, Transacts
<1>5. ASSUME NEW b \in Actor
      PROVE  /\ LogsFirst(prog'[b], Logged' \cup {TailCell}) /\ EndsTx(prog'[b])
             /\ prog'[b] # <<>> => prog'[b][1].op = "tx_begin"
             /\ \A j \in DOMAIN prog'[b] : HeadCell \notin Releases(prog'[b][j])
  <2>1. CASE prog'[b] = <<>>
    <3>1. \A j \in DOMAIN <<>> : FALSE OBVIOUS
    <3>2. LogsFirst(<<>>, Logged' \cup {TailCell}) BY <3>1, Zenon DEF LogsFirst
    <3> QED BY <2>1, <3>1, <3>2 DEF EndsTx
  <2>2. CASE prog'[b] # <<>>
    <3>1. prog'[b] = p /\ Disciplined(p) BY <1>2, <2>2
    <3> QED BY <3>1, Zenon DEF Disciplined
  <2> QED BY <2>1, <2>2
<1>6. Transacts' BY <1>4, <1>5 DEF Transacts
<1>7. HeadKept'
  <2>1. phase' = "destroy" =>
          /\ \A k \in Key : Absent \in expect'[k]
          /\ \E F : Yields(prog'[main], mem', F) /\ F[HeadCell] = Zero
    BY <1>1, <1>2
  <2>2. HeadCell \in slive' \ dying' BY <1>1 DEF TxImage, HeadKept
  <2> QED BY <1>5, <2>1, <2>2 DEF HeadKept
<1>8. CommitShows' BY <1>1, CommitStays DEF TxImage
<1> QED BY <1>3, <1>6, <1>7, <1>8 DEF TxImage

\* Nobody has a step to perform: the pool shows what the list holds.
LEMMA ImageRests ==
  ASSUME IInv, IInv', phase' = "serve", starts' = 0, PoolKept', ~intx',
         \A t \in Thread : ~Updating(t)'
  PROVE  CommitShows'
<1>1. BaseInv /\ BaseInv' /\ ListInv' BY DEF IInv
<1>2. HoldsIn(mem', live', <<>>, expect') BY <1>1, ListInvIs
<1>3. power' = "up" BY <1>1 DEF BaseInv, CallInv, CallsServed
<1>4. mem' = stable' /\ live' = slive' BY <1>3 DEF PoolKept
<1>5. HoldsIn(stable', slive', <<>>, expect') BY <1>2, <1>4
<1>6. HoldsIn(stable, slive, <<>>, expect)' BY <1>5, Zenon DEF HoldsIn
<1> QED BY <1>6 DEF CommitShows

\* What a step of a transaction that stores only in its log, or in the tail, makes
\* of the pool.
LEMMA StepKeepsPool ==
  ASSUME MemoryTypeOK, PoolKept, NEW u \in Step, MemoryStep(u),
         u.op \in {"store", "tx_begin", "tx_add_range", "tx_alloc",
                   "tx_zalloc", "tx_free", "tx_end"},
         u.op = "store" => u.c \in Logged \cup {TailCell},
         ~intx => u.op = "tx_begin",
         HeadCell \in slive \ dying, HeadCell \notin Releases(u)
  PROVE  /\ PoolKept' /\ HeadCell \in slive' \ dying'
         /\ u.op # "tx_end" => /\ UNCHANGED <<stable, slive>> /\ intx'
                               /\ Logged \cup Logs(u) \subseteq Logged'
         /\ u.op = "tx_end" => ~intx' /\ stable' = mem' /\ slive' = live'
<1> USE DEF MemoryStep
<1> DEFINE C == slive \ {TailCell}
           kept(c) == IF c \in DOMAIN undo THEN undo[c] = stable[c]
                      ELSE mem[c] = stable[c] /\ may[c] = {stable[c]}
<1>1. /\ vol = {} /\ live = slive \cup fresh /\ fresh \cap slive = {}
      /\ \A c \in C : kept(c) /\ c \in Cell
      /\ ~intx => undo = NoUndo /\ fresh = {} /\ dying = {}
      /\ live \subseteq Cell /\ HeadCell \in live
  BY DEF PoolKept, MemoryTypeOK
<1>2. DOMAIN NoUndo = {} BY NoUndoFacts
<1>3. CASE u.op = "store"
  <2>1. Store(u.c, u.v) /\ Logs(u) = {} /\ intx BY <1>3 DEF Logs
  <2>2. ASSUME NEW c \in C PROVE kept(c)'
    <3>1. CASE c \in DOMAIN undo BY <1>1, <2>1, <3>1 DEF Store
    <3>2. CASE c \notin DOMAIN undo
      <4>1. c # u.c BY <1>1, <1>3, <3>2 DEF Logged
      <4>2. mem'[c] = mem[c] /\ may'[c] = may[c]
        BY <1>1, <2>1, <4>1 DEF Store, MemoryTypeOK
      <4> QED BY <1>1, <2>1, <3>2, <4>2 DEF Store
    <3> QED BY <3>1, <3>2
  <2>3. PoolKept' BY <1>1, <2>1, <2>2 DEF Store, PoolKept
  <2> QED BY <1>3, <2>1, <2>3 DEF Store, Logged
<1>4. CASE u.op = "tx_begin"
  <2>1. TxBegin /\ Logs(u) = {} BY <1>4 DEF Logs
  <2>2. ASSUME NEW c \in C PROVE kept(c)' BY <1>1, <2>1 DEF TxBegin
  <2>3. PoolKept' BY <1>1, <2>1, <2>2 DEF TxBegin, PoolKept
  <2> QED BY <1>4, <2>1, <2>3 DEF TxBegin, Logged
<1>5. CASE u.op = "tx_add_range"
  <2>1. TxAddRange(u.C) /\ Logs(u) = u.C BY <1>5 DEF Logs
  <2>2. ASSUME NEW c \in C PROVE kept(c)' BY <1>1, <2>1 DEF TxAddRange
  <2>3. PoolKept' BY <1>1, <2>1, <2>2 DEF TxAddRange, PoolKept
  <2> QED BY <1>5, <2>1, <2>3 DEF TxAddRange, Logged
<1>6. CASE u.op = "tx_alloc"
  <2>1. TxAlloc(u.C) /\ Logs(u) = u.C BY <1>6 DEF Logs
  <2>2. ASSUME NEW c \in C PROVE kept(c)' BY <1>1, <2>1 DEF TxAlloc
  <2>3. PoolKept' BY <1>1, <2>1, <2>2 DEF TxAlloc, PoolKept
  <2> QED BY <1>6, <2>1, <2>3 DEF TxAlloc, Logged
<1>7. CASE u.op = "tx_zalloc"
  <2>1. TxZAlloc(u.C) /\ Logs(u) = u.C BY <1>7 DEF Logs
  <2>2. ASSUME NEW c \in C PROVE kept(c)'
    <3>1. c \notin u.C BY <1>1, <2>1 DEF TxZAlloc
    <3>2. mem'[c] = mem[c] /\ may'[c] = may[c] BY <1>1, <2>1, <3>1 DEF TxZAlloc
    <3> QED BY <1>1, <2>1, <3>2 DEF TxZAlloc
  <2>3. PoolKept' BY <1>1, <2>1, <2>2 DEF TxZAlloc, PoolKept
  <2> QED BY <1>7, <2>1, <2>3 DEF TxZAlloc, Logged
<1>8. CASE u.op = "tx_free"
  <2>1. TxFree(u.C) /\ Logs(u) = {} BY <1>8 DEF Logs
  <2>2. ASSUME NEW c \in C PROVE kept(c)' BY <1>1, <2>1 DEF TxFree
  <2>3. PoolKept' BY <1>1, <2>1, <2>2 DEF TxFree, PoolKept
  <2>4. HeadCell \notin u.C BY <1>8 DEF Releases
  <2> QED BY <1>8, <2>1, <2>3, <2>4 DEF TxFree, Logged
<1>9. CASE u.op = "tx_end"
  <2>1. TxCommit BY <1>9
  <2>2. /\ mem' = mem /\ vol' = vol /\ power' = power /\ ~intx' /\ undo' = NoUndo
        /\ fresh' = {} /\ dying' = {} /\ stable' = mem
        /\ live' = live \ dying /\ slive' = live'
        /\ may' = [c \in Cell |-> IF c \in DOMAIN undo \cup fresh THEN {mem[c]}
                                  ELSE may[c]]
    BY <2>1 DEF TxCommit
  <2>3. ASSUME NEW c \in slive' \ {TailCell}
        PROVE  mem'[c] = stable'[c] /\ may'[c] = {stable'[c]}
    <3>1. c \in Cell /\ (c \in C \/ c \in fresh) BY <1>1, <2>2
    <3>2. CASE c \in DOMAIN undo \cup fresh BY <2>2, <3>1, <3>2
    <3>3. CASE c \notin DOMAIN undo \cup fresh
      <4>1. may[c] = {mem[c]} BY <1>1, <3>1, <3>3
      <4> QED BY <2>2, <3>1, <3>3, <4>1
    <3> QED BY <3>2, <3>3
  <2>4. DOMAIN undo' = {} BY <1>2, <2>2
  <2>5. PoolKept' BY <1>1, <2>2, <2>3, <2>4 DEF PoolKept
  <2>6. HeadCell \in slive' \ dying' BY <1>1, <2>2
  <2> QED BY <1>9, <2>2, <2>5, <2>6
<1> QED BY <1>3, <1>4, <1>5, <1>6, <1>7, <1>8, <1>9

\* A memory step: the last one of a transaction commits what was wanted.
LEMMA ImageExec ==
  ASSUME IInv, IInv', TxImage, starts = 0, NEW a \in Actor, Exec(a)
  PROVE  TxImage'
<1> DEFINE p == prog[a]  u == p[1]
<1>1. BaseInv /\ BaseInv' /\ CallInv /\ CallInv' /\ MemoryTypeOK /\ ProgramsTyped
      /\ PoolKept /\ Transacts /\ HeadKept /\ CommitShows
  BY DEF IInv, BaseInv, TxImage
<1>2. /\ p \in Seq(Step) /\ p # <<>>
      /\ u \in Step /\ MemoryStep(u) /\ prog'[a] = Tail(p)
      /\ \A b \in Actor \ {a} : prog[b] = <<>> /\ prog'[b] = <<>>
      /\ \A F : Yields(p, mem, F) => Yields(prog'[a], mem', F)
  BY <1>1, ExecDoes, Zenon
<1>3. UNCHANGED <<cls, phase, th, rd, wr, expect, dirty, calls, fails, starts>>
  BY <1>1, ExecIs
<1>4. /\ LogsFirst(p, Logged \cup {TailCell}) /\ EndsTx(p)
      /\ ~intx => u.op = "tx_begin"
      /\ \A j \in DOMAIN p : HeadCell \notin Releases(p[j])
      /\ HeadCell \in slive \ dying
  BY <1>1, <1>2 DEF Transacts, HeadKept
<1>5. a = main => phase = "destroy"
  BY <1>1, <1>2 DEF CallInv, ProgramsOwned, Transacts
<1>6. a \in Thread => phase = "serve" /\ Updating(a)
  BY <1>1, <1>2 DEF CallInv, CallsServed, Quiet, ProgramsOwned, Updating
<1>7. a = main \/ a \in Thread BY DEF Actor
<1>8. /\ 1 \in DOMAIN p /\ Tail(p) \in Seq(Step)
      /\ \A j \in DOMAIN Tail(p) : \E i \in DOMAIN p : Tail(p)[j] = p[i]
  <2> HIDE DEF p
  <2>1. /\ Tail(p) \in Seq(Step) /\ Len(p) \in Nat \ {0} /\ DOMAIN p = 1..Len(p)
        /\ DOMAIN Tail(p) = 1..(Len(p) - 1)
        /\ \A j \in 1..(Len(p) - 1) : Tail(p)[j] = p[j + 1]
    BY <1>2, TailIs
  <2>2. \A j \in DOMAIN Tail(p) : j + 1 \in DOMAIN p /\ Tail(p)[j] = p[j + 1]
    BY <2>1
  <2> QED BY <2>1, <2>2
<1> HIDE DEF p
<1>9. /\ LogsFirst(Tail(p), (Logged \cup {TailCell}) \cup Logs(u))
      /\ u.op = "tx_end" => Tail(p) = <<>>
      /\ u.op = "store" => u.c \in Logged \cup {TailCell}
      /\ u.op \in {"store", "tx_begin", "tx_add_range", "tx_alloc",
                   "tx_zalloc", "tx_free", "tx_end"}
  BY <1>2, <1>4, LogsFirstTail
<1>10. ASSUME Tail(p) = <<>> PROVE u.op = "tx_end"
  <2>1. Len(p) \in Nat \ {0} /\ Len(Tail(p)) = Len(p) - 1 BY <1>2, TailIs
  <2>2. Len(<<>>) = 0 BY EmptySeq
  <2>3. Len(Tail(p)) = 0 BY <1>10, <2>2, Zenon
  <2>4. ASSUME NEW n \in Nat \ {0}, NEW m, m = n - 1, m = 0 PROVE n = 1
    BY <2>4
  <2>5. Len(p) = 1 BY <2>1, <2>3, <2>4, Zenon
  <2> QED BY <1>2, <1>4, <2>5 DEF EndsTx
<1>11. HeadCell \notin Releases(u) BY <1>4, <1>8
<1> HIDE DEF u
<1>12. /\ PoolKept' /\ HeadCell \in slive' \ dying'
       /\ u.op # "tx_end" => /\ UNCHANGED <<stable, slive>> /\ intx'
                             /\ Logged \cup Logs(u) \subseteq Logged'
       /\ u.op = "tx_end" => ~intx' /\ stable' = mem' /\ slive' = live'
  BY <1>1, <1>2, <1>4, <1>9, <1>11, StepKeepsPool, Zenon
<1>13. LogsFirst(prog'[a], Logged' \cup {TailCell})
  <2>1. CASE u.op = "tx_end"
    <3>1. \A j \in DOMAIN <<>> : FALSE OBVIOUS
    <3> QED BY <1>2, <1>9, <2>1, <3>1, Zenon DEF LogsFirst
  <2>2. CASE u.op # "tx_end"
    <3>1. (Logged \cup {TailCell}) \cup Logs(u) \subseteq Logged' \cup {TailCell}
      BY <1>12, <2>2
    <3>2. \A D : (Logged \cup {TailCell}) \cup Logs(u) \subseteq D
                   => LogsFirst(Tail(p), D)
      BY <1>9, Zenon DEF LogsFirst
    <3> QED BY <1>2, <3>1, <3>2
  <2> QED BY <2>1, <2>2
<1>14. Transacts'
  <2>1. EndsTx(prog'[a]) BY <1>2, <1>4, EndsTxTail
  <2>2. \A b \in Actor : LogsFirst(prog'[b], Logged' \cup {TailCell})
                         /\ EndsTx(prog'[b])
    <3>1. \A j \in DOMAIN <<>> : FALSE OBVIOUS
    <3>2. LogsFirst(<<>>, Logged' \cup {TailCell}) /\ EndsTx(<<>>)
      BY <3>1, Zenon DEF LogsFirst, EndsTx
    <3> QED BY <1>2, <1>13, <2>1, <3>2
  <2>3. \A b \in Actor : prog'[b] # <<>> => intx'
    BY <1>2, <1>9, <1>12
  <2>4. intx' => prog'[a] # <<>> BY <1>2, <1>10, <1>12
  <2>5. phase' # "init" BY <1>3, <1>5, <1>6, <1>7
  <2> QED BY <2>2, <2>3, <2>4, <2>5 DEF Transacts
<1>15. HeadKept'
  <2>1. ASSUME NEW b \in Actor
        PROVE  \A j \in DOMAIN prog'[b] : HeadCell \notin Releases(prog'[b][j])
    <3>1. CASE b = a
      <4>1. \A j \in DOMAIN Tail(p) : HeadCell \notin Releases(Tail(p)[j])
        BY <1>4, <1>8
      <4> QED BY <1>2, <3>1, <4>1
    <3>2. CASE b # a
      <4>1. \A j \in DOMAIN <<>> : FALSE OBVIOUS
      <4> QED BY <1>2, <3>2, <4>1
    <3> QED BY <3>1, <3>2
  <2>2. ASSUME phase' = "destroy"
        PROVE  /\ \A k \in Key : Absent \in expect'[k]
               /\ \E F : Yields(prog'[main], mem', F) /\ F[HeadCell] = Zero
    <3>1. a = main BY <1>3, <1>6, <1>7, <2>2
    <3>2. \E F : Yields(p, mem, F) /\ F[HeadCell] = Zero
      BY <1>1, <1>3, <2>2, <3>1 DEF HeadKept, p
    <3> QED BY <1>1, <1>2, <1>3, <2>2, <3>1, <3>2 DEF HeadKept
  <2> QED BY <1>12, <2>1, <2>2 DEF HeadKept
<1>16. CommitShows'
  <2>1. CASE u.op # "tx_end"
    <3>1. \A k \in Key : expect[k] \subseteq expect'[k] BY <1>3
    <3> QED BY <1>1, <1>12, <2>1, <3>1, CommitStays
  <2>2. CASE u.op = "tx_end" /\ phase = "serve"
    <3> DEFINE k == th'[a].key  v == th'[a].val  want == Wants(expect', th'[a])
    <3>1. a \in Thread /\ Updating(a)' BY <1>3, <1>5, <1>6, <1>7, <2>2 DEF Updating
    <3>2. HoldsIn(mem', live', <<>>, want)
      BY <1>1, <1>2, <1>3, <1>9, <2>2, <3>1, ListInvIs DEF IInv
    <3>3. \A l \in Key : want[l] \subseteq expect'[l]
      <4>1. expect' \in [Key -> SUBSET (Value \cup {Absent})] /\ ~cls'.upsert
        BY <1>1 DEF BaseInv, CallInv, CallTypeOK
      <4>2. Writes(th[a].op, th[a].key)' => v \in expect'[k]
        BY <1>1, <3>1 DEF CallInv, WritesExpected
      <4> QED BY <4>1, <4>2 DEF Wants, Writes
    <3> HIDE DEF want
    <3>4. HoldsIn(mem', live', <<>>, expect') BY <3>2, <3>3, HeldMore
    <3>5. HoldsIn(stable', slive', <<>>, expect') BY <1>12, <2>2, <3>4
    <3>6. HoldsIn(stable, slive, <<>>, expect)' BY <3>5, Zenon DEF HoldsIn
    <3> QED BY <3>6 DEF CommitShows
  <2>3. CASE u.op = "tx_end" /\ phase = "destroy"
    <3>1. a = main BY <1>6, <1>7, <2>3
    <3>2. PICK F : Yields(<<>>, mem', F) /\ F[HeadCell] = Zero
      BY <1>2, <1>3, <1>9, <1>15, <2>3, <3>1 DEF HeadKept
    <3>3. mem'[HeadCell] = Zero BY <3>2, Cells DEF Yields
    <3>4. stable'[HeadCell] = Zero BY <1>12, <2>3, <3>3
    <3> QED BY <1>3, <1>15, <2>3, <3>4 DEF CommitShows, HeadKept
  <2> QED BY <1>5, <1>6, <1>7, <2>1, <2>2, <2>3
<1> QED BY <1>12, <1>14, <1>15, <1>16 DEF TxImage

\* The process or the power fails: the log is applied.
LEMMA ImageFails ==
  ASSUME MemoryTypeOK, TxImage, NEW how \in {"failed", "exited"}, Fail(how),
         phase' \in {"down", "closed"}, \A a \in Actor : prog'[a] = <<>>,
         UNCHANGED expect
  PROVE  TxImage'
<1>1. PoolKept /\ Transacts /\ HeadKept /\ CommitShows BY DEF TxImage
<1>2. /\ UNCHANGED <<vol, stable, slive>> /\ ~intx' /\ undo' = NoUndo
      /\ fresh' = {} /\ dying' = {} /\ power' # "up"
      /\ live' = (live \ fresh) \ vol
      /\ \A c \in Cell : mem'[c] = AfterExit(c) /\ may'[c] = AfterFailure(c)
  BY DEF Fail
<1>3. vol = {} /\ live = slive \cup fresh /\ fresh \cap slive = {}
  BY <1>1 DEF PoolKept
<1>4. ASSUME NEW c \in slive \ {TailCell}
      PROVE  mem'[c] = stable[c] /\ may'[c] = {stable[c]}
  <2>1. c \in Cell BY <1>3 DEF MemoryTypeOK
  <2>2. IF c \in DOMAIN undo THEN undo[c] = stable[c]
        ELSE mem[c] = stable[c] /\ may[c] = {stable[c]}
    BY <1>1 DEF PoolKept
  <2>3. mem'[c] = AfterExit(c) /\ may'[c] = AfterFailure(c) BY <1>2, <2>1
  <2> QED BY <1>3, <2>2, <2>3 DEF AfterExit, AfterFailure
<1>5. PoolKept' BY <1>2, <1>3, <1>4, NoUndoFacts DEF PoolKept
<1>6. \A j \in DOMAIN <<>> : FALSE OBVIOUS
<1>7. ASSUME NEW a \in Actor
      PROVE  /\ LogsFirst(prog'[a], Logged' \cup {TailCell}) /\ EndsTx(prog'[a])
             /\ \A j \in DOMAIN prog'[a] : HeadCell \notin Releases(prog'[a][j])
  <2>1. prog'[a] = <<>> OBVIOUS
  <2>2. LogsFirst(<<>>, Logged' \cup {TailCell}) /\ EndsTx(<<>>)
    BY <1>6, Zenon DEF LogsFirst, EndsTx
  <2> QED BY <1>6, <2>1, <2>2
<1>8. Transacts' BY <1>2, <1>7 DEF Transacts
<1>9. HeadKept' BY <1>1, <1>2, <1>7 DEF HeadKept
<1>10. CommitShows' BY <1>1, <1>2, CommitStays
<1> QED BY <1>5, <1>8, <1>9, <1>10 DEF TxImage

\* The medium settles: nothing of the committed pool but the tail is unsettled.
LEMMA ImageSettling ==
  ASSUME BaseInv, TxImage, Settling PROVE TxImage'
<1>1. PoolKept /\ Transacts /\ HeadKept /\ CommitShows /\ CallInv /\ MemoryTypeOK
  BY DEF TxImage, BaseInv
<1>2. PICK d, v : Settle(d, v) BY Zenon DEF Settling, SettleNext
<1>3. /\ UNCHANGED <<vol, live, intx, undo, fresh, dying, power, stable, slive,
                     phase, prog, expect>>
      /\ power = "failed" /\ mem' = [mem EXCEPT ![d] = v]
      /\ may' = [may EXCEPT ![d] = {v}] /\ d \in Unsettled
  BY <1>2 DEF Settle, Settling, svars
<1>4. ASSUME NEW c \in slive \ {TailCell}
      PROVE  IF c \in DOMAIN undo' THEN undo'[c] = stable'[c]
             ELSE mem'[c] = stable'[c] /\ may'[c] = {stable'[c]}
  <2>1. c \in Cell BY <1>1 DEF PoolKept, MemoryTypeOK
  <2>2. /\ mem[c] = stable[c] /\ may[c] = {stable[c]} /\ c \notin DOMAIN undo
    BY <1>1, <1>3, NoUndoFacts DEF PoolKept
  <2>3. c # d BY <1>3, <2>2 DEF Unsettled
  <2>4. mem'[c] = mem[c] /\ may'[c] = may[c]
    BY <1>1, <1>3, <2>1, <2>3 DEF MemoryTypeOK
  <2> QED BY <1>3, <2>2, <2>4
<1>5. PoolKept' BY <1>1, <1>3, <1>4 DEF PoolKept
<1>6. Transacts' BY <1>1, <1>3 DEF Transacts, Logged
<1>7. HeadKept'
  <2>1. phase # "destroy" BY <1>1, <1>3 DEF CallInv, CallsServed
  <2> QED BY <1>1, <1>3, <2>1 DEF HeadKept
<1>8. CommitShows' BY <1>1, <1>3, CommitStays
<1> QED BY <1>5, <1>6, <1>7, <1>8 DEF TxImage

\* Whoever takes the lock finds no program under way.
LEMMA ImageEnter ==
  ASSUME IInv, TxImage, NEW t \in Thread, NEW p, NEW ptr,
         p = <<>> \/ Disciplined(p), Enter(t, p, ptr)
  PROVE  TxImage'
<1>1. BaseInv /\ CallInv BY DEF IInv, BaseInv
<1>2. /\ phase = "serve" /\ th[t].key \in Key
      /\ \A s \in Thread : ~Updating(s)
  BY <1>1, EnterFinds
<1>3. \A b \in Actor : prog[b] = <<>>
  BY <1>1, <1>2 DEF CallInv, ProgramsOwned, Actor
<1>4. /\ UNCHANGED <<pvars, phase>> /\ prog' = [prog EXCEPT ![t] = p]
      /\ \/ expect' = expect
         \/ expect' = [expect EXCEPT ![th[t].key] = @ \cup {th[t].val}]
  BY DEF Enter
<1>5. expect \in [Key -> SUBSET (Value \cup {Absent})]
      /\ prog = [b \in Actor |-> prog[b]]
  BY <1>1 DEF CallInv, CallTypeOK
<1>6. \A k \in Key : expect[k] \subseteq expect'[k] BY <1>2, <1>4, <1>5
<1>7. t \in Actor /\ phase' = "serve" BY <1>2, <1>4 DEF Actor
<1> QED BY <1>2, <1>3, <1>4, <1>5, <1>6, <1>7, ImageBegins, Zenon

LEMMA ImageInsert ==
  ASSUME IInv, cls.medium = "tx", TxImage, NEW t \in Thread, Insert(t)
  PROVE  TxImage'
<1> DEFINE k == th[t].key  v == th[t].val
<1>1. PICK g \in Garbage : Enter(t, insert(k, v, g), None) BY DEF Insert
<1>2. th[t].op = "insert" /\ ~BrokenTail /\ HasRoom BY DEF Insert
<1>3. CallInv /\ BaseInv BY DEF IInv, BaseInv
<1>4. k \in Key /\ v \in Val /\ TailP \in Node \cup {Zero}
  BY <1>1, <1>2, <1>3, EnterFinds
<1>5. HeadP # Zero => TailP \in Node BY <1>2, <1>4 DEF BrokenTail
<1>6. NewNode \in Node BY <1>2, NewNodeIs
<1> DEFINE p == insert(k, v, g)
<1>7. Disciplined(p) BY <1>3, <1>4, <1>5, <1>6, InsertTx
<1> HIDE DEF p
<1>8. Enter(t, p, None) BY <1>1 DEF p
<1> QED BY <1>7, <1>8, ImageEnter

LEMMA ImageUpdate ==
  ASSUME IInv, cls.medium = "tx", TxImage, NEW t \in Thread, Update(t)
  PROVE  TxImage'
<1> DEFINE k == th[t].key  v == th[t].val  o == FindNode(k)
<1>1. th[t].op = "update" BY DEF Update
<1>2. CallInv /\ BaseInv BY DEF IInv, BaseInv
<1> HIDE DEF o
<1>3. CASE o \in Node /\ Enter(t, update(o, v), None)
  <2> DEFINE p == update(o, v)
  <2>1. v \in Val BY <1>1, <1>2, <1>3, EnterFinds
  <2>2. Disciplined(p) BY <1>2, <1>3, <2>1, UpdateTx
  <2> HIDE DEF p
  <2>3. Enter(t, p, None) BY <1>3 DEF p
  <2> QED BY <2>2, <2>3, ImageEnter
<1>4. CASE o = Zero /\ Enter(t, <<>>, None) BY <1>4, ImageEnter
<1> QED BY <1>3, <1>4 DEF Update, o

LEMMA ImageRead ==
  ASSUME IInv, TxImage, NEW t \in Thread, Read(t) PROVE TxImage'
<1>1. PICK ptr : Enter(t, <<>>, ptr) BY DEF Read
<1> QED BY <1>1, ImageEnter

\* The operation returns: the pool shows what it has written.
LEMMA ImageLeave ==
  ASSUME IInv, TxImage, starts = 0, NEW t \in Thread, Leave(t)
  PROVE  TxImage'
<1>1. IInv' /\ BaseInv /\ CallInv BY LeaveKeeps DEF IInv, BaseInv
<1>2. /\ UNCHANGED <<pvars, cls, phase, prog, starts>>
      /\ th[t].pc = "in" /\ prog[t] = <<>> /\ phase = "serve"
      /\ expect' = IF Writes(th[t].op, th[t].key)
                   THEN [expect EXCEPT ![th[t].key] = {th[t].val}] ELSE expect
      /\ th'[t].pc # "in" /\ \A s \in Thread \ {t} : th'[s] = th[s]
  BY <1>1, BaseLeave
<1>3. CASE ~Updating(t)
  <2>1. expect' = expect BY <1>2, <1>3 DEF Updating, Writes
  <2> QED BY <1>2, <2>1, ImageSame
<1>4. CASE Updating(t)
  <2>1. \A s \in Thread \ {t} : ~Updating(s)
    BY <1>1, <1>2, <1>4 DEF CallInv, Excluded, Updating
  <2>2. \A s \in Thread : ~Updating(s)' BY <1>2, <2>1 DEF Updating
  <2>3. \A b \in Actor : prog[b] = <<>>
    BY <1>1, <1>2, <2>1 DEF CallInv, ProgramsOwned, Actor
  <2>4. UNCHANGED <<mem, may, vol, live, intx, undo, fresh, dying, power, stable,
                    slive>>
    BY <1>2 DEF pvars
  <2>5. PoolKept' BY <2>4 DEF TxImage, PoolKept
  <2>6. Transacts' /\ ~intx'
    BY <1>2, <2>3, <2>4 DEF TxImage, Transacts, Logged
  <2>7. HeadKept' BY <1>2, <2>4 DEF TxImage, HeadKept
  <2>8. phase' = "serve" /\ starts' = 0 BY <1>2
  <2>9. CommitShows' BY <1>1, <2>2, <2>5, <2>6, <2>8, ImageRests
  <2> QED BY <2>5, <2>6, <2>7, <2>9 DEF TxImage
<1> QED BY <1>3, <1>4

\* init has returned: the pool shows an empty list.
LEMMA ImageInitDone ==
  ASSUME IInv, TxImage, starts = 0, InitDone([k \in Key |-> Listed(k)])
  PROVE  TxImage'
<1>1. IInv' /\ BaseInv /\ CallInv BY InitDoneKeeps DEF IInv, BaseInv
<1>2. /\ UNCHANGED <<pvars, cls, th, prog, starts>>
      /\ phase = "init" /\ phase' = "serve" /\ prog[main] = <<>>
      /\ \A t \in Thread : th'[t].pc = "idle"
  BY <1>1, BaseInitDone
<1>3. \A s \in Thread : ~Updating(s)' BY <1>2 DEF Updating
<1>4. \A b \in Actor : prog[b] = <<>>
  BY <1>1, <1>2, QuietPrograms DEF CallInv, CallsServed, Actor
<1>5. UNCHANGED <<mem, may, vol, live, intx, undo, fresh, dying, power, stable,
                  slive>>
  BY <1>2 DEF pvars
<1>6. PoolKept' BY <1>5 DEF TxImage, PoolKept
<1>7. Transacts' /\ ~intx'
  BY <1>2, <1>4, <1>5 DEF TxImage, Transacts, Logged
<1>8. HeadKept' BY <1>2, <1>5 DEF TxImage, HeadKept
<1>9. starts' = 0 BY <1>2
<1>10. CommitShows' BY <1>1, <1>2, <1>3, <1>6, <1>7, <1>9, ImageRests
<1> QED BY <1>6, <1>7, <1>8, <1>10 DEF TxImage

\* destroy begins: from now on the records may be gone.
LEMMA ImageDestroy ==
  ASSUME IInv, cls.medium = "tx", TxImage, Destroy(destroy)
  PROVE  TxImage'
<1>1. BaseInv /\ CallInv BY DEF IInv, BaseInv
<1>2. /\ phase = "serve" /\ Quiet /\ phase' = "destroy" /\ UNCHANGED pvars
      /\ prog' = [prog EXCEPT ![main] = destroy]
      /\ expect' = [k \in Key |-> expect[k] \cup {Absent}]
  BY DEF Destroy
<1>3. TailP \in Node \cup {Zero} /\ HoldOnly(Pointer, LeadsTo)
  <2>1. HoldOnly(RootCells, Node \cup {Zero}) /\ HoldOnly(Pointer, LeadsTo)
    BY <1>1, <1>2 DEF BaseInv, RootTyped, PointersTyped
  <2>2. TailP \in Node \cup {Zero} BY <2>1, Cells DEF HoldOnly, TailP
  <2> QED BY <2>1, <2>2
<1> DEFINE p == destroy
<1>4. Disciplined(p) /\ \E F : Yields(p, mem, F) /\ F[HeadCell] = Zero
  BY <1>1, <1>3, DestroyTx
<1>5. \A b \in Actor : prog[b] = <<>>
  BY <1>1, <1>2, QuietPrograms DEF CallInv, ProgramsOwned, Actor
<1>6. prog = [b \in Actor |-> prog[b]] BY <1>1 DEF CallInv, CallTypeOK
<1>7. \A k \in Key : expect[k] \subseteq expect'[k] /\ Absent \in expect'[k]
  BY <1>2
<1>8. main \in Actor BY DEF Actor
<1>9. prog' = [prog EXCEPT ![main] = p] BY <1>2
<1> HIDE DEF p
<1> QED BY <1>2, <1>4, <1>5, <1>6, <1>7, <1>8, <1>9, ImageBegins, Zenon

\* The process ends or the power fails.
LEMMA ImageGone ==
  ASSUME IInv, TxImage, Close \/ Crash \/ Dies
  PROVE  TxImage'
<1>1. CallInv /\ MemoryTypeOK BY DEF IInv, BaseInv
<1>2. CASE Close
  <2>1. /\ phase = "destroy" /\ prog[main] = <<>> /\ Fail("exited")
        /\ phase' = "closed" /\ UNCHANGED <<prog, expect>>
    BY <1>2 DEF Close, ProcessExit
  <2>2. \A a \in Actor : prog'[a] = <<>>
    BY <1>1, <2>1, QuietPrograms DEF CallInv, CallsServed, Actor
  <2> QED BY <1>1, <2>1, <2>2, ImageFails
<1>3. CASE Crash \/ Dies
  <2>1. PICK how \in {"failed", "exited"} : Fail(how)
    BY <1>3 DEF Crash, Dies, PowerFail, ProcessExit
  <2>2. phase' = "down" /\ UNCHANGED expect /\ \A a \in Actor : prog'[a] = <<>>
    BY <1>3 DEF Crash, Dies, Gone, Actor
  <2> QED BY <1>1, <2>1, <2>2, ImageFails
<1> QED BY <1>2, <1>3

LEMMA ClassKept == [Next]_vars => cls' = cls
<1> SUFFICES ASSUME [Next]_vars PROVE cls' = cls OBVIOUS
<1>1. ASSUME NEW t \in Thread, NEW k \in Key,
             \/ CallRead(t, k)
             \/ \E n \in Version : CallInsert(t, k, n) \/ CallUpdate(t, k, n)
      PROVE  cls' = cls
  BY <1>1, Zenon DEF CallRead, CallInsert, CallUpdate, Call, StartCall
<1>2. Dies => cls' = cls BY DEF Dies, Gone
<1>3. ASSUME NEW t \in Thread, ThreadStep(t) PROVE cls' = cls
  <2>1. CASE Insert(t) \/ Update(t) \/ Read(t)
    BY <2>1, Zenon DEF Insert, Update, Read, Enter
  <2>2. CASE Exec(t) \/ Leave(t) \/ CopyOut(t) \/ Return(t)
    BY <2>2 DEF Exec, Leave, CopyOut, Return
  <2>3. CASE MissDies(t) \/ NotInitialised(t) \/ Derefs(t)
    BY <1>2, <2>3 DEF MissDies, NotInitialised, CheckFails, Derefs
  <2> QED BY <1>3, <2>1, <2>2, <2>3, Zenon DEF ThreadStep, ClientStep
<1>4. CASE MainStep
  BY <1>2, <1>4 DEF MainStep, Exec, DoubleFree, DestroyDerefs, InitDone,
                    CloseList, Close
<1>5. CASE DestroyList \/ DestroyEmpty \/ Crash
  BY <1>2, <1>5 DEF DestroyList, Destroy, DestroyEmpty, Crash, Gone
<1>6. CASE Settling \/ Reopen(init) \/ Finished \/ UNCHANGED vars
  BY <1>6 DEF Settling, Reopen, Finished, vars, svars
<1> QED BY <1>1, <1>3, <1>4, <1>5, <1>6, Zenon DEF Next

\* A new pool is zero-filled, and init of a tx class performs nothing.
LEMMA InitImage == ListInit => ImageInv
<1> SUFFICES ASSUME ListInit, cls.medium = "tx" PROVE TxImage BY DEF ImageInv
<1>1. /\ PoolInit({}, RootCells) /\ phase = "init"
      /\ prog = [t \in Thread \cup {main} |-> IF t = main THEN init ELSE <<>>]
      /\ expect = [k \in Key |-> {Absent}]
  BY DEF ListInit, StoredsInit, Volatile
<1>2. init = <<>> BY DEF init, Volatile
<1>3. \A a \in Actor : prog[a] = <<>> BY <1>1, <1>2 DEF Actor
<1>4. /\ vol = {} /\ ~intx /\ undo = NoUndo /\ fresh = {} /\ dying = {}
      /\ power = "up" /\ live = RootCells /\ slive = RootCells
      /\ \A c \in Cell : mem[c] = Zero /\ stable[c] = Zero /\ may[c] = {Zero}
      /\ mem = stable
  BY <1>1 DEF PoolInit
<1>5. PoolKept BY <1>4, Cells, NoUndoFacts DEF PoolKept
<1>6. \A j \in DOMAIN <<>> : FALSE OBVIOUS
<1>7. LogsFirst(<<>>, Logged \cup {TailCell}) /\ EndsTx(<<>>)
  BY <1>6, Zenon DEF LogsFirst, EndsTx
<1>8. main \in Actor BY DEF Actor
<1>9. Transacts BY <1>3, <1>4, <1>7, <1>8 DEF Transacts
<1>10. HeadKept BY <1>1, <1>3, <1>4, <1>6, Cells DEF HeadKept
<1>11. CommitShows BY <1>1, <1>4, Cells DEF CommitShows
<1> QED BY <1>5, <1>9, <1>10, <1>11 DEF TxImage

LEMMA StepImage == IInv /\ ImageInv /\ [Next]_vars => ImageInv'
<1> SUFFICES ASSUME IInv, ImageInv, [Next]_vars, cls'.medium = "tx", starts' = 0
             PROVE  TxImage'
  BY DEF ImageInv
<1>1. IInv' /\ cls.medium = "tx" BY StepIInv, ClassKept
<1>2. starts = 0 => TxImage BY <1>1 DEF ImageInv
<1>3. BaseInv /\ starts \in Nat BY DEF IInv, BaseInv, CallInv, CallTypeOK
<1>4. ASSUME UNCHANGED <<pvars, phase, prog, expect, starts>> PROVE TxImage'
  BY <1>2, <1>4, ImageSame
<1>5. ASSUME NEW t \in Thread, NEW k \in Key,
             \/ CallRead(t, k)
             \/ \E n \in Version : CallInsert(t, k, n) \/ CallUpdate(t, k, n)
      PROVE  TxImage'
  <2>1. UNCHANGED <<pvars, phase, prog, expect, starts>>
    BY <1>3, <1>5, BaseCalls
  <2> QED BY <1>4, <2>1
<1>6. ASSUME Close \/ Crash \/ Dies PROVE TxImage'
  <2>1. starts = 0 BY <1>6 DEF Close, Crash, Dies, Gone
  <2> QED BY <1>2, <1>6, <2>1, ImageGone
<1>7. ASSUME NEW a \in Actor, Exec(a) PROVE TxImage'
  <2>1. starts = 0 BY <1>7 DEF Exec
  <2> QED BY <1>1, <1>2, <1>7, <2>1, ImageExec
<1>8. ASSUME NEW t \in Thread, ThreadStep(t) PROVE TxImage'
  <2>1. t \in Actor BY DEF Actor
  <2>2. CASE Insert(t)
    <3>1. starts = 0 BY <2>2, Zenon DEF Insert, Enter
    <3> QED BY <1>1, <1>2, <2>2, <3>1, ImageInsert
  <2>3. CASE Update(t)
    <3>1. starts = 0 BY <2>3, Zenon DEF Update, Enter
    <3> QED BY <1>1, <1>2, <2>3, <3>1, ImageUpdate
  <2>4. CASE Read(t)
    <3>1. starts = 0 BY <2>4, Zenon DEF Read, Enter
    <3> QED BY <1>2, <2>4, <3>1, ImageRead
  <2>5. CASE Exec(t) BY <1>7, <2>1, <2>5
  <2>6. CASE Leave(t)
    <3>1. starts = 0 BY <2>6 DEF Leave
    <3> QED BY <1>2, <2>6, <3>1, ImageLeave
  <2>7. CASE CopyOut(t) \/ Return(t) BY <1>4, <2>7 DEF CopyOut, Return
  <2>8. CASE MissDies(t) \/ NotInitialised(t) \/ Derefs(t)
    BY <1>6, <2>8 DEF MissDies, NotInitialised, CheckFails, Derefs
  <2> QED BY <1>8, <2>2, <2>3, <2>4, <2>5, <2>6, <2>7, <2>8, Zenon
          DEF ThreadStep, ClientStep
<1>9. CASE MainStep
  <2>1. main \in Actor BY DEF Actor
  <2>2. CASE Exec(main) BY <1>7, <2>1, <2>2
  <2>3. CASE DoubleFree(main) \/ DestroyDerefs \/ CloseList
    BY <1>6, <2>3 DEF DoubleFree, DestroyDerefs, CloseList
  <2>4. CASE InitDone([k \in Key |-> Listed(k)])
    <3>1. starts = 0 BY <2>4 DEF InitDone
    <3> QED BY <1>2, <2>4, <3>1, ImageInitDone
  <2> QED BY <1>9, <2>2, <2>3, <2>4, Zenon DEF MainStep
<1>10. CASE DestroyList
  <2>1. Destroy(destroy) BY <1>10 DEF DestroyList
  <2>2. starts = 0 BY <2>1 DEF Destroy
  <2> QED BY <1>1, <1>2, <2>1, <2>2, ImageDestroy
<1>11. CASE DestroyEmpty \/ Crash BY <1>6, <1>11 DEF DestroyEmpty
<1>12. CASE Settling
  <2>1. starts = 0 BY <1>12 DEF Settling, svars
  <2> QED BY <1>2, <1>3, <1>12, <2>1, ImageSettling
<1>13. CASE Reopen(init) BY <1>3, <1>13 DEF Reopen
<1>14. CASE Finished \/ UNCHANGED vars BY <1>4, <1>14 DEF Finished, vars, svars
<1> QED BY <1>5, <1>8, <1>9, <1>10, <1>11, <1>12, <1>13, <1>14, Zenon DEF Next

\* After a failure the memory is, but for the tail pointer, the pool of the last
\* TX_END: a lookup, which starts at the head, shows what that shows.
LEMMA ImageShowsDurable == IInv /\ ImageInv => ImageDurable
<1> SUFFICES ASSUME IInv, ImageInv, Recovered, cls.medium = "tx", starts = 0,
                    NEW k \in Key
             PROVE  Listed(k) \in expect[k]
  BY DEF ImageDurable, Shows
<1>1. PoolKept /\ HeadKept /\ CommitShows BY DEF ImageInv, TxImage
<1>2. \A c \in slive \ {TailCell} : mem[c] = stable[c]
  <2>1. power # "up" BY DEF Recovered
  <2>2. undo = NoUndo BY <1>1, <2>1 DEF PoolKept
  <2> QED BY <1>1, <2>2, NoUndoFacts DEF PoolKept
<1>3. HeadP = stable[HeadCell]
  BY <1>1, <1>2, Fields DEF HeadKept, HeadP
<1>4. CASE HoldsIn(stable, slive, <<>>, expect)
  <2>1. PICK ns \in Seq(Node) :
          /\ Linked(stable, ns) /\ Ended(stable, ns) /\ Keyed(stable, ns)
          /\ Shown(stable, ns, expect) /\ KeptIn(ns, slive)
    BY <1>4, HeldNow, Zenon
  <2>2. \A n \in DOMAIN ns : ns[n] \in Node BY <2>1, Distinct
  <2>3. \A n \in DOMAIN ns : \A c \in NodeCells(ns[n]) : stable[c] = mem[c]
    <3> TAKE n \in DOMAIN ns
    <3>1. /\ ns[n] \in Node /\ NodeCells(ns[n]) \subseteq slive
          /\ TailCell \notin NodeCells(ns[n])
      BY <2>1, <2>2, Cells, Fields DEF KeptIn
    <3> QED BY <1>2, <3>1
  <2>4. Met(ns) BY <1>3, <2>1, <2>3, ListMet
  <2>5. \A n \in DOMAIN ns : /\ KeyIn(mem, ns[n]) = KeyIn(stable, ns[n])
                             /\ mem[<<ns[n], "value">>] = stable[<<ns[n], "value">>]
    BY <2>2, <2>3, Cells DEF KeyIn
  <2>6. Shown(mem, ns, expect) BY <2>1, <2>5, Zenon DEF Shown
  <2> QED BY <2>4, <2>6, ListedIs
<1>5. CASE stable[HeadCell] = Zero /\ \A j \in Key : Absent \in expect[j]
  <2> DEFINE ns == <<>>
  <2>1. ns \in Seq(Node) /\ DOMAIN ns = {} OBVIOUS
  <2>2. Met(ns) BY <1>3, <1>5, <2>1 DEF Met, Keyed
  <2>3. Shown(mem, ns, expect) BY <1>5, <2>1 DEF Shown
  <2> HIDE DEF ns
  <2> QED BY <2>2, <2>3, ListedIs
<1> QED BY <1>1, <1>4, <1>5 DEF CommitShows

-----------------------------------------------------------------------------
(***************************************************************************)
(* The list only grows while it serves.                                    *)
(***************************************************************************)
\* No pointer that leads to a node is changed.
Kept == \A c \in LinkCell : mem[c] \in Node => mem'[c] = mem[c]

\* The steps that leave the pointers as they are in G.
Settled(G) ==
  {u \in Step : \A c \in LinkCell \cap Assigns(u) : Assigned(u, c) = G[c]}

LEMMA Links ==
  /\ LinkCell \subseteq Cell /\ HeadCell \in LinkCell /\ TailCell \notin LinkCell
  /\ \A o \in Node : <<o, "next">> \in LinkCell
  /\ \A o : <<o, "key">> \notin LinkCell /\ <<o, "value">> \notin LinkCell
BY Cells, Fields DEF LinkCell, HeadCell, TailCell

LEMMA SettledGrows ==
  ASSUME NEW G, NEW p \in Seq(Settled(G)),
         \A c \in LinkCell : G[c] \in Value /\ (mem[c] \in Node => G[c] = mem[c])
  PROVE  Growing(p)
<1>1. \A j \in DOMAIN p : p[j] \in Settled(G) BY LenProperties
<1>2. \A c \in LinkCell : StoresOnly(p, {c}, {G[c]})
  BY <1>1 DEF Settled, StoresOnly
<1> QED BY <1>2 DEF Growing

LEMMA NothingGrows ==
  ASSUME mem \in [Cell -> Value] PROVE Growing(<<>>)
<1>1. \A c \in LinkCell : mem[c] \in Value BY Links
<1>2. \A j \in DOMAIN <<>> : FALSE OBVIOUS
<1>3. \A c \in LinkCell : StoresOnly(<<>>, {c}, {mem[c]})
  BY <1>2, Zenon DEF StoresOnly
<1> QED BY <1>1, <1>3 DEF Growing

LEMMA SettledSteps ==
  ASSUME NEW G
  PROVE  /\ \A C \in SUBSET Cell :
              /\ Fl(C) \in Settled(G) /\ Al(C) \in Settled(G)
              /\ Sn(C) \in Settled(G) /\ TAl(C) \in Settled(G)
         /\ Bg \in Settled(G) /\ Cm \in Settled(G)
         /\ \A c \in Cell, v \in Value :
              (c \in LinkCell => v = G[c]) => St(c, v) \in Settled(G)
<1>1. ASSUME NEW C \in SUBSET Cell
      PROVE  /\ Fl(C) \in Settled(G) /\ Al(C) \in Settled(G)
             /\ Sn(C) \in Settled(G) /\ TAl(C) \in Settled(G)
  <2>1. /\ Fl(C) \in Step /\ Al(C) \in Step /\ Sn(C) \in Step /\ TAl(C) \in Step
    BY StepKinds
  <2>2. /\ Assigns(Fl(C)) = {} /\ Assigns(Al(C)) = {} /\ Assigns(Sn(C)) = {}
        /\ Assigns(TAl(C)) = {}
    BY StepAssigns
  <2> HIDE DEF Step, Fl, Al, Sn, TAl
  <2> QED BY <2>1, <2>2 DEF Settled
<1>2. Bg \in Settled(G) /\ Cm \in Settled(G)
  <2>1. Bg \in Step /\ Cm \in Step BY StepKinds
  <2>2. Assigns(Bg) = {} /\ Assigns(Cm) = {} BY StepAssigns
  <2> QED BY <2>1, <2>2 DEF Settled
<1>3. ASSUME NEW c \in Cell, NEW v \in Value, c \in LinkCell => v = G[c]
      PROVE  St(c, v) \in Settled(G)
  <2>1. St(c, v) \in Step /\ Assigns(St(c, v)) = {c} /\ Assigned(St(c, v), c) = v
    BY StepKinds, StepAssigns
  <2> QED BY <1>3, <2>1 DEF Settled
<1> QED BY <1>1, <1>2, <1>3

\* An insert sets the last pointer of the list, and that of its new node, ...
LEMMA InsertSettles ==
  ASSUME CallInv, HeadP # Zero => TailP \in Node, NewNode \in Node,
         NEW k \in Key, NEW v \in Val, NEW g \in Garbage,
         NEW G, G[Link] = NewNode, G[<<NewNode, "next">>] = g
  PROVE  insert(k, v, g) \in Seq(Settled(G))
<1> DEFINE o == NewNode  c == Cp(<<o, "value">>, v)  s == St(<<o, "key">>, k)
           n == St(<<o, "next">>, g)
           y == St(Link, o)  z == St(TailCell, o)  A == NodeCells(o)
           a1 == <<Al(A), n, s>>  b1 == <<y, z>>
           a2 == <<Al(A), s>>  b2 == <<y, z, Fl(Flushed)>>
           a3 == <<Bg, TAl(A), s>>  b3 == <<Sn(Joint), y, z>>  d == <<Cm>>
           M == Settled(G)
<1>1. /\ A \in SUBSET Cell /\ <<o, "key">> \in Cell /\ <<o, "value">> \in Cell
      /\ <<o, "next">> \in Cell /\ TailCell \in Cell /\ k \in Value /\ v \in Value
      /\ g \in Value /\ o \in Value /\ Torn \in Value
  BY Cells, Contents, Leading
<1>2. c \in Seq(M)
  <2>1. St(<<o, "value">>, Torn) \in M /\ St(<<o, "value">>, v) \in M
    BY <1>1, Links, SettledSteps
  <2> QED BY <2>1 DEF Cp
<1>3. /\ Al(A) \in M /\ TAl(A) \in M /\ Bg \in M /\ Cm \in M
      /\ s \in M /\ n \in M /\ z \in M
  BY <1>1, Links, SettledSteps
<1>4. y \in M /\ Sn(Joint) \in M /\ Fl(Flushed) \in M
  <2>1. Link \in Cell /\ Joint \in SUBSET Cell /\ Flushed \in SUBSET Cell
    BY LinkIs
  <2> QED BY <1>1, <2>1, SettledSteps
<1>5. /\ linkedlist_dram_insert(k, v, g) = a1 \o c \o b1
      /\ linkedlist_pmem_insert(k, v) = a2 \o c \o b2
      /\ linkedlist_pmem_tx_insert(k, v) = a3 \o c \o b3 \o d
  BY ONLY InsertParts, Zenon
<1> HIDE DEF o, c, s, n, y, z, A, M
<1>6. /\ a1 \in Seq(M) /\ b1 \in Seq(M) /\ a2 \in Seq(M)
      /\ b2 \in Seq(M) /\ a3 \in Seq(M) /\ b3 \in Seq(M) /\ d \in Seq(M)
  BY <1>3, <1>4
<1> HIDE DEF a1, b1, a2, b2, a3, b3, d
<1>7. /\ a1 \o c \o b1 \in Seq(M) /\ a2 \o c \o b2 \in Seq(M)
      /\ a3 \o c \o b3 \o d \in Seq(M)
  BY <1>2, <1>6, ConcatProperties
<1>8. insert(k, v, g) \in Seq(M) BY <1>5, <1>7, InsertIs, Media
<1> QED BY <1>8 DEF M

\* ... and an update none.
LEMMA UpdateSettles ==
  ASSUME CallInv, NEW o \in Node, NEW v \in Val, NEW G
  PROVE  update(o, v) \in Seq(Settled(G))
<1> DEFINE c == Cp(<<o, "value">>, v)  M == Settled(G)
<1>1. c \in Seq(M)
  <2>1. <<o, "value">> \in Cell /\ Torn \in Value /\ v \in Value BY Cells, Contents
  <2>2. St(<<o, "value">>, Torn) \in M /\ St(<<o, "value">>, v) \in M
    BY <2>1, Links, SettledSteps
  <2> QED BY <2>2 DEF Cp
<1>2. <<Fl({<<o, "value">>})>> \in Seq(M) /\ <<Cm>> \in Seq(M)
      /\ <<Bg, Sn(NodeCells(o))>> \in Seq(M)
  <2>1. {<<o, "value">>} \in SUBSET Cell /\ NodeCells(o) \in SUBSET Cell BY Cells
  <2>2. /\ Fl({<<o, "value">>}) \in M /\ Cm \in M
        /\ Bg \in M /\ Sn(NodeCells(o)) \in M
    BY <2>1, SettledSteps
  <2> QED BY <2>2
<1> HIDE DEF c, M
<1>3. /\ c \o <<Fl({<<o, "value">>})>> \in Seq(M)
      /\ <<Bg, Sn(NodeCells(o))>> \o c \o <<Cm>> \in Seq(M)
  BY <1>1, <1>2, ConcatProperties
<1>4. /\ Volatile(cls) => update(o, v) = c
      /\ cls.medium = "pmem" => update(o, v) = c \o <<Fl({<<o, "value">>})>>
      /\ cls.medium = "tx" => update(o, v) = <<Bg, Sn(NodeCells(o))>> \o c \o <<Cm>>
  BY DEF c, update, linkedlist_dram_update, linkedlist_pmem_update,
         linkedlist_pmem_tx_update, CpFl, Volatile
<1>5. update(o, v) \in Seq(M) BY <1>1, <1>3, <1>4, Media
<1> QED BY <1>5 DEF M

LEMMA ExecGrows ==
  ASSUME IInv, GrowthInv, NEW a \in Actor, Exec(a), phase = "serve", starts = 0
  PROVE  GrowthInv' /\ Kept
<1> DEFINE u == prog[a][1]
<1>1. BaseInv /\ CallInv /\ MemoryTypeOK /\ ProgramsTyped BY DEF IInv, BaseInv
<1>2. /\ prog[a] \in Seq(Step) /\ prog[a] # <<>>
      /\ u \in Step /\ MemoryStep(u) /\ prog'[a] = Tail(prog[a])
      /\ \A b \in Actor \ {a} : prog[b] = <<>> /\ prog'[b] = <<>>
  BY <1>1, ExecDoes, Zenon
<1>3. \A c \in Cell : mem'[c] = IF c \in Assigns(u) THEN Assigned(u, c) ELSE mem[c]
  BY <1>1, <1>2, StepDoes
<1>4. mem' \in [Cell -> Value]
  <2>1. IInv' BY ExecKeeps
  <2> QED BY <2>1 DEF IInv, BaseInv, MemoryTypeOK
<1>5. Growing(prog[a]) BY DEF GrowthInv
<1>6. ASSUME NEW c \in LinkCell
      PROVE  /\ \E v \in Value : /\ StoresOnly(Tail(prog[a]), {c}, {v})
                                 /\ mem'[c] \in Node => v = mem'[c]
             /\ mem[c] \in Node => mem'[c] = mem[c]
  <2>1. PICK v \in Value : StoresOnly(prog[a], {c}, {v})
                           /\ (mem[c] \in Node => v = mem[c])
    BY <1>5 DEF Growing
  <2>2. /\ \A d \in {c} \cap Assigns(u) : Assigned(u, d) \in {v}
        /\ StoresOnly(Tail(prog[a]), {c}, {v})
    BY <1>2, <2>1, StoresOnlyTail DEF u
  <2>3. c \in Cell BY Links
  <2> HIDE DEF u
  <2>4. mem'[c] = v \/ mem'[c] = mem[c] BY <1>3, <2>2, <2>3
  <2>5. mem[c] \in Node => mem'[c] = mem[c] BY <2>1, <2>4
  <2>6. mem'[c] \in Node => v = mem'[c] BY <2>1, <2>4
  <2> QED BY <2>2, <2>5, <2>6
<1>7. Growing(prog[a])' BY <1>2, <1>6, Zenon DEF Growing
<1>8. ASSUME NEW b \in Actor, b # a PROVE Growing(prog[b])'
  <2>1. prog'[b] = <<>> BY <1>2, <1>8
  <2>2. \A j \in DOMAIN <<>> : FALSE OBVIOUS
  <2>3. \A c \in LinkCell : mem'[c] \in Value BY <1>4, Links
  <2>4. \A c \in LinkCell : StoresOnly(<<>>, {c}, {mem'[c]})
    BY <2>2, Zenon DEF StoresOnly
  <2> QED BY <2>1, <2>3, <2>4, Zenon DEF Growing
<1>9. GrowthInv' BY <1>7, <1>8, Zenon DEF GrowthInv
<1> QED BY <1>6, <1>9 DEF Kept

\* Whoever takes the lock changes no pointer itself, and is given to do nothing
\* that would change one that leads to a node.
LEMMA EnterGrows ==
  ASSUME IInv, GrowthInv, NEW t \in Thread, NEW p, NEW ptr, Enter(t, p, ptr),
         starts = 0 => Growing(p)
  PROVE  GrowthInv' /\ Kept
<1>1. UNCHANGED <<mem, phase, starts>> /\ prog' = [prog EXCEPT ![t] = p]
  BY DEF Enter, pvars
<1>2. prog = [b \in Actor |-> prog[b]] BY DEF IInv, BaseInv, CallInv, CallTypeOK
<1>3. \A b \in Actor : prog'[b] = p \/ prog'[b] = prog[b] BY <1>1, <1>2
<1>4. ASSUME phase = "serve", starts = 0, NEW b \in Actor
      PROVE  Growing(prog[b])'
  <2>1. Growing(prog'[b]) BY <1>3, <1>4 DEF GrowthInv
  <2> QED BY <1>1, <2>1, Zenon DEF Growing
<1>5. GrowthInv' BY <1>1, <1>4 DEF GrowthInv
<1> QED BY <1>1, <1>5 DEF Kept

\* The pointer an insert links its node with is the last one of the list, and
\* the node was in no list before.
LEMMA InsertGrows ==
  ASSUME IInv, GrowthInv, NEW t \in Thread, Insert(t) PROVE GrowthInv' /\ Kept
<1> DEFINE k == th[t].key  v == th[t].val  o == NewNode  next == <<o, "next">>
<1>1. PICK g \in Garbage : Enter(t, insert(k, v, g), None) BY DEF Insert
<1>2. th[t].op = "insert" /\ ~BrokenTail /\ HasRoom BY DEF Insert
<1>3. CallInv /\ BaseInv /\ mem \in [Cell -> Value]
  BY DEF IInv, BaseInv, MemoryTypeOK
<1>4. /\ phase = "serve" /\ k \in Key /\ v \in Val /\ TailP \in Node \cup {Zero}
      /\ \A u \in Thread : ~Updating(u)
  BY <1>1, <1>2, <1>3, EnterFinds
<1>5. HeadP # Zero => TailP \in Node BY <1>2, <1>4 DEF BrokenTail
<1>6. o \in Node /\ NodeCells(o) \cap live = {} BY <1>2, NewNodeIs
<1> DEFINE p == insert(k, v, g)
<1>7. ASSUME starts = 0 PROVE Growing(p)
  <2>1. PICK ns : Serves(ns) BY <1>4, <1>7, Serving
  <2>2. \A n \in DOMAIN ns : ns[n] # o BY <1>6, <2>1, NotInList
  <2>3. mem[next] \notin Node
    BY <1>6, <2>1, <2>2, Zenon DEF Serves, Held, Ended, NextIn
  <2>4. mem[Link] \notin Node /\ Link # next
    <3>1. CASE HeadP = Zero
      <4>1. Link = HeadCell BY <3>1 DEF Link
      <4>2. HeadCell # next BY DEF HeadCell
      <4> QED BY <3>1, <4>1, <4>2, Contents DEF HeadP
    <3>2. CASE HeadP # Zero
      <4>1. Link = <<TailP, "next">> BY <3>2 DEF Link
      <4>2. /\ ns # <<>> /\ TailP = ns[Len(ns)] /\ TailP \in Node
            /\ Len(ns) \in DOMAIN ns
        BY <2>1, <3>2, RootIs DEF Serves
      <4>3. \A n \in DOMAIN ns : n < Len(ns) => ns[n] # TailP
        <5>1. /\ Len(ns) \in Nat /\ DOMAIN ns = 1..Len(ns)
              /\ \A m, n \in DOMAIN ns : ns[m] = ns[n] => m = n
          BY <2>1, Distinct DEF Serves, Held
        <5> QED BY <4>2, <5>1
      <4>4. mem[<<TailP, "next">>] \notin Node
        BY <2>1, <4>2, <4>3, Zenon DEF Serves, Held, Ended, NextIn
      <4>5. TailP # o BY <2>2, <4>2
      <4> QED BY <4>1, <4>4, <4>5
    <3> QED BY <3>1, <3>2
  <2> DEFINE G == [c \in LinkCell |-> IF c = Link THEN o
                                      ELSE IF c = next THEN g ELSE mem[c]]
  <2>5. Link \in LinkCell /\ next \in LinkCell
    BY <1>5, <1>6, Links DEF Link
  <2>6. G[Link] = o /\ G[next] = g BY <2>4, <2>5
  <2>7. \A c \in LinkCell : G[c] \in Value /\ (mem[c] \in Node => G[c] = mem[c])
    BY <1>3, <1>6, <2>3, <2>4, Links, Contents, Leading
  <2> HIDE DEF G
  <2>8. p \in Seq(Settled(G)) BY <1>3, <1>4, <1>5, <1>6, <2>6, InsertSettles
  <2> HIDE DEF p
  <2> QED BY <2>7, <2>8, SettledGrows
<1> HIDE DEF p
<1>8. Enter(t, p, None) BY <1>1 DEF p
<1> QED BY <1>7, <1>8, EnterGrows

LEMMA UpdateGrows ==
  ASSUME IInv, GrowthInv, NEW t \in Thread, Update(t) PROVE GrowthInv' /\ Kept
<1> DEFINE f == FindNode(th[t].key)
<1>1. CallInv /\ BaseInv /\ mem \in [Cell -> Value] /\ th[t].op = "update"
  BY DEF IInv, BaseInv, MemoryTypeOK, Update
<1> HIDE DEF f
<1>2. CASE f \in Node /\ Enter(t, update(f, th[t].val), None)
  <2> DEFINE p == update(f, th[t].val)
  <2>1. th[t].val \in Val BY <1>1, <1>2, EnterFinds
  <2>2. p \in Seq(Settled(mem)) BY <1>1, <1>2, <2>1, UpdateSettles
  <2>3. \A c \in LinkCell : mem[c] \in Value BY <1>1, Links
  <2> HIDE DEF p
  <2>4. Growing(p) BY <2>2, <2>3, SettledGrows
  <2>5. Enter(t, p, None) BY <1>2 DEF p
  <2> QED BY <2>4, <2>5, EnterGrows
<1>3. CASE f = Zero /\ Enter(t, <<>>, None)
  BY <1>1, <1>3, NothingGrows, EnterGrows
<1> QED BY <1>2, <1>3 DEF Update, f

LEMMA ReadGrows ==
  ASSUME IInv, GrowthInv, NEW t \in Thread, Read(t) PROVE GrowthInv' /\ Kept
<1>1. mem \in [Cell -> Value] BY DEF IInv, BaseInv, MemoryTypeOK
<1>2. PICK ptr : Enter(t, <<>>, ptr) BY Zenon DEF Read
<1> QED BY <1>1, <1>2, NothingGrows, EnterGrows

LEMMA InitGrowth == ListInit => GrowthInv
BY DEF ListInit, StoredsInit, GrowthInv

\* init has returned, and nobody has steps to perform.
LEMMA InitDoneGrows ==
  ASSUME IInv, InitDone([k \in Key |-> Listed(k)]) PROVE GrowthInv'
<1>1. BaseInv /\ CallInv /\ mem \in [Cell -> Value]
  BY DEF IInv, BaseInv, MemoryTypeOK
<1>2. /\ UNCHANGED <<pvars, prog>> /\ phase = "init" /\ prog[main] = <<>>
  BY <1>1, BaseInitDone
<1>3. UNCHANGED mem BY <1>2 DEF pvars
<1>4. \A b \in Actor : prog[b] = <<>>
  BY <1>1, <1>2, QuietPrograms DEF CallInv, CallsServed, Actor
<1>5. Growing(<<>>) BY <1>1, NothingGrows
<1>6. ASSUME NEW b \in Actor PROVE Growing(prog[b])'
  <2>1. prog'[b] = <<>> BY <1>2, <1>4
  <2> QED BY <1>3, <1>5, <2>1, Zenon DEF Growing
<1> QED BY <1>6 DEF GrowthInv

LEMMA StepGrows ==
  ASSUME IInv, GrowthInv, [Next]_vars
  PROVE  /\ GrowthInv'
         /\ starts = 0 /\ phase = "serve" /\ phase' = "serve" => Kept
<1> DEFINE Grows ==
             /\ GrowthInv'
             /\ starts = 0 /\ phase = "serve" /\ phase' = "serve" => Kept
<1>1. BaseInv /\ CallInv /\ starts \in Nat
  BY DEF IInv, BaseInv, CallInv, CallTypeOK
<1>2. ASSUME UNCHANGED <<mem, phase, prog, starts>> PROVE Grows
  BY <1>2, Zenon DEF GrowthInv, Growing, Kept
<1>3. ASSUME phase' # "serve" PROVE Grows BY <1>3 DEF GrowthInv
<1>4. Close \/ Crash \/ Dies => Grows BY <1>3 DEF Close, Crash, Dies, Gone
<1>5. ASSUME NEW t \in Thread,
             \/ \E k \in Key : \/ CallRead(t, k)
                               \/ \E n \in Version : CallInsert(t, k, n) \/ CallUpdate(t, k, n)
             \/ CopyOut(t) \/ Return(t)
      PROVE  Grows
  <2>1. UNCHANGED <<pvars, phase, prog, starts>> BY <1>1, <1>5, BaseCalls
  <2> QED BY <1>2, <2>1 DEF pvars
<1>6. ASSUME NEW a \in Actor, Exec(a) PROVE Grows
  <2>1. UNCHANGED <<phase, starts>> BY <1>6 DEF Exec
  <2> QED BY <1>6, <2>1, ExecGrows DEF GrowthInv
<1>7. ASSUME NEW t \in Thread, ThreadStep(t) PROVE Grows
  <2>1. t \in Actor BY DEF Actor
  <2>2. CASE Insert(t) BY <2>2, InsertGrows
  <2>3. CASE Update(t) BY <2>3, UpdateGrows
  <2>4. CASE Read(t) BY <2>4, ReadGrows
  <2>5. CASE Exec(t) BY <1>6, <2>1, <2>5
  <2>6. CASE Leave(t)
    <3>1. UNCHANGED <<pvars, phase, prog, starts>> BY <2>6 DEF Leave
    <3> QED BY <1>2, <3>1 DEF pvars
  <2>7. CASE CopyOut(t) \/ Return(t) BY <1>5, <2>7
  <2>8. CASE MissDies(t) \/ NotInitialised(t) \/ Derefs(t)
    BY <1>4, <2>8 DEF MissDies, NotInitialised, CheckFails, Derefs
  <2> HIDE DEF Grows
  <2> QED BY <1>7, <2>2, <2>3, <2>4, <2>5, <2>6, <2>7, <2>8, Zenon
          DEF ThreadStep, ClientStep
<1>8. ASSUME MainStep PROVE Grows
  <2>1. main \in Actor BY DEF Actor
  <2>2. CASE Exec(main) BY <1>6, <2>1, <2>2
  <2>3. CASE DoubleFree(main) \/ DestroyDerefs \/ CloseList
    BY <1>4, <2>3 DEF DoubleFree, DestroyDerefs, CloseList
  <2>4. CASE InitDone([k \in Key |-> Listed(k)])
    <3>1. phase = "init" BY <2>4 DEF InitDone
    <3> QED BY <2>4, <3>1, InitDoneGrows
  <2> HIDE DEF Grows
  <2> QED BY <1>8, <2>2, <2>3, <2>4, Zenon DEF MainStep
<1>9. ASSUME DestroyList PROVE Grows BY <1>3, <1>9 DEF DestroyList, Destroy
<1>10. ASSUME DestroyEmpty \/ Crash PROVE Grows BY <1>4, <1>10 DEF DestroyEmpty
<1>11. ASSUME Settling PROVE Grows
  <2>1. phase' # "serve" BY <1>1, <1>11, BaseSettling
  <2> QED BY <1>3, <2>1
<1>12. ASSUME Reopen(init) PROVE Grows BY <1>3, <1>12 DEF Reopen
<1>13. ASSUME Finished \/ UNCHANGED vars PROVE Grows
  BY <1>2, <1>13 DEF Finished, vars, pvars, svars
<1> HIDE DEF Grows
<1>14. Grows
  BY <1>5, <1>7, <1>8, <1>9, <1>10, <1>11, <1>12, <1>13, Zenon DEF Next
<1> QED BY <1>14 DEF Grows

\* Where no pointer to a node is changed, a traversal meets what it met before.
LEMMA KeptReaches == ASSUME Kept PROVE Reachable \subseteq Reachable'
<1> DEFINE w == Visit  x == Visit'
           T == {i \in Nat : i \in 0..MaxNode /\ w[i] \in Node => x[i] = w[i]}
<1>1. /\ w[0] = mem[HeadCell]
      /\ \A i \in 1..MaxNode :
           w[i] = IF w[i - 1] \in Node THEN mem[<<w[i - 1], "next">>] ELSE w[i - 1]
  BY VisitIs DEF HeadP
<1>2. /\ x[0] = mem'[HeadCell]
      /\ \A i \in 1..MaxNode :
           x[i] = IF x[i - 1] \in Node THEN mem'[<<x[i - 1], "next">>] ELSE x[i - 1]
  <2>1. (/\ Visit[0] = HeadP
         /\ \A i \in 1..MaxNode :
              Visit[i] = IF Visit[i - 1] \in Node THEN mem[<<Visit[i - 1], "next">>]
                         ELSE Visit[i - 1])'
    BY VisitIs, PTL
  <2> QED BY <2>1 DEF HeadP
<1>3. \A c \in LinkCell : mem[c] \in Node => mem'[c] = mem[c] BY DEF Kept
<1>4. Reachable = {w[i] : i \in 0..MaxNode} \cap Node
      /\ Reachable' = {x[i] : i \in 0..MaxNode} \cap Node
  BY DEF Reachable
<1> HIDE DEF w, x
<1>5. 0 \in T BY <1>1, <1>2, <1>3, Links
<1>6. ASSUME NEW i \in T PROVE i + 1 \in T
  <2> SUFFICES ASSUME i + 1 \in 0..MaxNode, w[i + 1] \in Node
               PROVE  x[i + 1] = w[i + 1]
    OBVIOUS
  <2>1. i \in 0..MaxNode /\ i + 1 \in 1..MaxNode /\ (i + 1) - 1 = i BY Contents
  <2>2. w[i] \in Node /\ w[i + 1] = mem[<<w[i], "next">>] BY <1>1, <2>1
  <2>3. x[i] = w[i] BY <2>1, <2>2
  <2>4. x[i + 1] = mem'[<<w[i], "next">>] BY <1>2, <2>1, <2>2, <2>3
  <2> QED BY <1>3, <2>2, <2>4, Links
<1>7. T = Nat
  <2>1. T \subseteq Nat OBVIOUS
  <2> HIDE DEF T
  <2> QED BY <1>5, <1>6, <2>1, NumbersByInduction
<1>8. \A i \in 0..MaxNode : i \in T
  <2> HIDE DEF T
  <2> QED BY <1>7, Contents
<1> QED BY <1>4, <1>8

-----------------------------------------------------------------------------
(***************************************************************************)
(* What callers of a linked list can rely on.                              *)
(***************************************************************************)
\* The memory holds, after the steps an operation has still to perform, the
\* list its calls ask for, whatever the interleaving and the failures.
THEOREM LinkedInvariance == Spec => []IInv
BY InitIInv, StepIInv, PTL DEF Spec

LEMMA BetweenOperations ==
  ASSUME IInv, phase = "serve", Unlocked, starts = 0 PROVE \E ns : Serves(ns)
<1>1. \A t \in Thread : ~Updating(t) BY DEF Unlocked, Updating
<1> QED BY <1>1, Serving

\* Between operations a lookup shows the last value written under the key, or
\* nothing if none was: inserts append, updates change their own node.
THEOREM LinkedShowsWrites == Spec => []MapCorrect
<1>1. IInv => MapCorrect
  <2> SUFFICES ASSUME IInv, phase = "serve", Unlocked, starts = 0, NEW k \in Key
               PROVE  Listed(k) \in expect[k]
    BY DEF MapCorrect, Shows
  <2>1. PICK ns : Serves(ns) BY BetweenOperations
  <2> QED BY <2>1, ListedIs, HeldMet DEF Serves
<1> QED BY <1>1, LinkedInvariance, PTL

\* Between operations the tail pointer is the last node of the list: what is
\* appended through it can be reached from the head.
THEOREM LinkedTailIsLast == Spec => []TailIsLast
<1>1. IInv => TailIsLast
  <2> SUFFICES ASSUME IInv, phase = "serve", Unlocked, starts = 0, HeadP # Zero
               PROVE  TailP \in Reachable /\ mem[<<TailP, "next">>] \notin Node
    BY DEF TailIsLast
  <2>1. PICK ns : Serves(ns) BY BetweenOperations
  <2>2. /\ Held(ns) /\ TailP = ns[Len(ns)] /\ TailP \in Node
        /\ Len(ns) \in DOMAIN ns
    BY <2>1, RootIs DEF Serves
  <2>3. TailP \in Reachable BY <2>2, ReachableIs
  <2>4. \A n \in DOMAIN ns : n < Len(ns) => ns[n] # TailP
    <3>1. /\ Len(ns) \in Nat /\ DOMAIN ns = 1..Len(ns)
          /\ \A m, n \in DOMAIN ns : ns[m] = ns[n] => m = n
      BY <2>2, Distinct, Zenon DEF Held
    <3> QED BY <2>2, <3>1
  <2>5. NextIn(mem, TailP) \notin Node BY <2>2, <2>4, Zenon DEF Held, Ended
  <2> QED BY <2>3, <2>5 DEF NextIn
<1> QED BY <1>1, LinkedInvariance, PTL

\* In the first process what StoredsDB::Read copies out of the node, after the
\* class has given up its lock, is a value the key had during the call, or one
\* half overwritten by a concurrent update; never another key's, nor anything
\* of a node that was freed.
THEOREM LinkedReadsLegal == Spec => [](starts = 0 => ReadLegal)
<1>1. ReadsInv => (starts = 0 => ReadLegal)
  <2> SUFFICES ASSUME ReadsInv, starts = 0, NEW t \in Thread,
                      th[t].pc = "got", th[t].op = "read"
               PROVE  IF th[t].ptr = None \/ th[t].got = Zero
                      THEN Absent \in th[t].legal
                      ELSE th[t].got \in th[t].legal \cup {Torn}
    BY DEF ReadLegal
  <2>1. ReadTruly(t) BY DEF ReadsInv
  <2>2. CASE th[t].ptr = None BY <2>1, <2>2 DEF ReadTruly
  <2>3. CASE th[t].ptr # None
    <3>1. th[t].got \in th[t].legal \cup {Torn} BY <2>1, <2>3 DEF ReadTruly
    <3>2. th[t].legal \subseteq Val \cup {Absent} BY <2>1 DEF ReadTruly
    <3>3. Zero \notin Val /\ Zero # Torn /\ Zero # Absent
      BY ListAssumption, Contents
    <3> QED BY <2>3, <3>1, <3>2, <3>3
  <2> QED BY <2>2, <2>3
<1>2. IInv /\ ReadsInv /\ [Next]_vars => (IInv /\ ReadsInv)'
  BY StepIInv, StepReads
<1> QED BY <1>1, <1>2, InitIInv, InitReads, PTL DEF Spec

\* Whenever the process ends or the power fails before the first restart, the
\* list of a tx class shows every write that has returned, and of one that has
\* not the old value or the new one.  That insert stores the tail pointer without
\* having added it to the transaction costs no record: no lookup reads it.
THEOREM LinkedFailureLosesNoWrite == Spec => []ImageDurable
BY InitIInv, StepIInv, InitImage, StepImage, ImageShowsDurable, PTL DEF Spec

\* While the first process serves, a node that a walk from the head has met it
\* meets from then on, at every single step of every insert and update.
THEOREM LinkedAppendsOnly == Spec /\ [](starts = 0) => AppendOnly
<1>1. IInv /\ GrowthInv /\ [Next]_vars => GrowthInv' BY StepGrows
<1>2. ASSUME IInv, GrowthInv, starts = 0, [Next]_vars
      PROVE  [phase = "serve" /\ phase' = "serve"
                => Reachable \subseteq Reachable']_vars
  BY <1>2, StepGrows, KeptReaches
<1> QED BY <1>1, <1>2, InitIInv, StepIInv, InitGrowth, PTL DEF Spec, AppendOnly
=============================================================================
