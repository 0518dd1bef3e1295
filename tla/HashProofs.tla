------------------------------ MODULE HashProofs ------------------------------
(***************************************************************************)
(* The classes of storeds/hashmap, for every number of threads, keys,      *)
(* buckets, tables, entries, calls, failures and restarts and whatever     *)
(* coefficients init draws: HashTable's IInv is inductive, and what it     *)
(* means for the callers.                                                  *)
(***************************************************************************)
EXTENDS HashTable, ProgramProofs

-----------------------------------------------------------------------------
(***************************************************************************)
(* Where the cells are, and what can be in them.                           *)
(***************************************************************************)
LEMMA Objects ==
  /\ Table \subseteq Nat \ {0} /\ Entry \subseteq Nat \ {0}
  /\ Table \cap Entry = {} /\ Bucket \subseteq Nat /\ 0 \in Bucket
  /\ Zero \notin Table /\ Zero \notin Entry /\ Zero # INIT_BUCKETS_NUM
  /\ Bucket = 0..(INIT_BUCKETS_NUM - 1)
BY HashAssumption, ContentAssumption DEF Table, Entry, Bucket

LEMMA Cells ==
  /\ RootCells \subseteq Cell /\ <<0, "a">> \in RootCells
  /\ <<0, "b">> \in RootCells /\ <<0, "buckets">> \in RootCells
  /\ \A o \in Table :
       /\ TableCells(o) \subseteq Cell /\ <<o, "nbuckets">> \in TableCells(o)
       /\ \A i \in Bucket : <<o, "bucket", i>> \in TableCells(o)
  /\ \A e \in Entry :
       /\ EntryCells(e) \subseteq Cell /\ <<e, "key">> \in EntryCells(e)
       /\ <<e, "value">> \in EntryCells(e) /\ <<e, "next">> \in EntryCells(e)
<1>1. Cell = HashCell BY ContentAssumption
<1>2. RootCells \subseteq Cell BY <1>1, Zenon DEF HashCell
<1>3. \A o \in Table : TableCells(o) \subseteq Cell BY <1>1 DEF HashCell
<1>4. \A e \in Entry : EntryCells(e) \subseteq Cell BY <1>1 DEF HashCell
<1>5. /\ <<0, "a">> \in RootCells /\ <<0, "b">> \in RootCells
      /\ <<0, "buckets">> \in RootCells
  BY DEF RootCells
<1>6. \A o \in Table : /\ <<o, "nbuckets">> \in TableCells(o)
                       /\ \A i \in Bucket : <<o, "bucket", i>> \in TableCells(o)
  BY DEF TableCells
<1>7. \A e \in Entry :
        /\ <<e, "key">> \in EntryCells(e) /\ <<e, "value">> \in EntryCells(e)
        /\ <<e, "next">> \in EntryCells(e)
  BY DEF EntryCells
<1> QED BY <1>2, <1>3, <1>4, <1>5, <1>6, <1>7

\* No two fields share a cell.
LEMMA Fields ==
  /\ <<0, "a">> # <<0, "b">> /\ <<0, "a">> # <<0, "buckets">>
  /\ <<0, "b">> # <<0, "buckets">>
  /\ \A o \in Table : /\ RootCells \cap TableCells(o) = {}
                      /\ \A i : <<o, "bucket", i>> # <<o, "nbuckets">>
  /\ \A e \in Entry : RootCells \cap EntryCells(e) = {}
  /\ \A o \in Table, e \in Entry : TableCells(o) \cap EntryCells(e) = {}
  /\ \A o, q : \A i, j : <<o, "bucket", i>> = <<q, "bucket", j>> => o = q /\ i = j
  /\ \A o, q \in Table : o # q => TableCells(o) \cap TableCells(q) = {}
  /\ \A e : /\ <<e, "key">> # <<e, "value">> /\ <<e, "key">> # <<e, "next">>
            /\ <<e, "value">> # <<e, "next">>
  /\ \A e, f \in Entry : e # f => EntryCells(e) \cap EntryCells(f) = {}
BY Objects DEF RootCells, TableCells, EntryCells

LEMMA Contents ==
  /\ Zero \in Value /\ Torn \in Value /\ Table \subseteq Value
  /\ Entry \subseteq Value /\ Key \subseteq Value /\ Val \subseteq Value
  /\ INIT_BUCKETS_NUM \in Value
  /\ \A c \in Coeff : c[1] \in Value /\ c[2] \in Value
                      /\ c[1] \in Nat /\ c[2] \in Nat
BY ContentAssumption, HashAssumption DEF HashValue

\* A class is volatile, or pmem, or tx, and inserts what it is to update.
LEMMA Media ==
  ASSUME CallInv
  PROVE  /\ \/ Volatile(cls) /\ cls.medium \notin {"pmem", "tx"}
            \/ ~Volatile(cls) /\ cls.medium = "pmem"
            \/ ~Volatile(cls) /\ cls.medium = "tx"
         /\ cls.upsert /\ cls.bound.restarts < MaxTable
         /\ cls.bound.restarts \in Nat
BY StoredsAssumption, ClassAssumption, BoundAssumption
   DEF CallInv, CallTypeOK, Volatile

-----------------------------------------------------------------------------
(***************************************************************************)
(* What a walk through a bucket meets.                                     *)
(***************************************************************************)

\* The lists ch are those of the table in memory.
Chained(ch) ==
  /\ ch \in [Bucket -> Seq(Entry)]
  /\ TableMade(mem) /\ Linked(mem, ch) /\ Keyed(mem, ch)

LEMMA Hashes ==
  ASSUME NEW F, TableMade(F), NEW k \in Key PROVE HashOf(F, k) \in Bucket
<1> DEFINE n == k * F[<<0, "a">>] + F[<<0, "b">>]  m == n % HASH_FUNC_COEFF_P
<1>1. k \in Nat BY StoredsAssumption
<1>2. n \in Nat BY <1>1 DEF TableMade
<1> HIDE DEF n
<1>3. m \in Nat BY <1>2, HashAssumption
<1> HIDE DEF m
<1>4. m % INIT_BUCKETS_NUM \in Bucket BY <1>3, HashAssumption DEF Bucket
<1> QED BY <1>4 DEF HashOf, m, n

LEMMA HashIs ==
  ASSUME TableMade(mem), NEW k PROVE hash_function(k) = HashOf(mem, k)
BY DEF TableMade, hash_function, HashOf, TableP, TableOf

\* Only so many entries fit the heap.
LEMMA DistinctFit ==
  ASSUME NEW s \in Seq(Entry), \A m, n \in DOMAIN s : s[m] = s[n] => m = n
  PROVE  Len(s) <= MaxEntry
<1>1. Len(s) \in Nat /\ DOMAIN s = 1..Len(s) /\ s \in [1..Len(s) -> Entry]
  BY LenProperties
<1>2. s \in Injection(1..Len(s), Entry) BY <1>1 DEF Injection, IsInjective
<1> DEFINE a == MaxTable + 1  b == MaxTable + MaxEntry
<1>3. /\ a \in Int /\ b \in Int
      /\ (IF a > b THEN 0 ELSE b - a + 1) = MaxEntry
  BY HashAssumption
<1>4. IsFiniteSet(Entry) /\ Cardinality(Entry) = MaxEntry
  <2>1. Entry = a..b BY DEF Entry
  <2> HIDE DEF a, b
  <2> QED BY <1>3, <2>1, FS_Interval
<1>5. Cardinality(1..Len(s)) = Len(s)
  <2>1. Cardinality(1..Len(s)) = IF 1 > Len(s) THEN 0 ELSE Len(s) - 1 + 1
    BY <1>1, FS_Interval
  <2> QED BY <1>1, <2>1
<1>6. Cardinality(1..Len(s)) <= Cardinality(Entry)
  BY <1>2, <1>4, FS_Injection, Zenon
<1> QED BY <1>4, <1>5, <1>6

LEMMA ChainFits ==
  ASSUME NEW ch, Chained(ch), NEW i \in Bucket
  PROVE  /\ ch[i] \in Seq(Entry) /\ Len(ch[i]) \in Nat
         /\ DOMAIN ch[i] = 1..Len(ch[i]) /\ Len(ch[i]) <= MaxEntry
         /\ \A m, n \in DOMAIN ch[i] : ch[i][m] = ch[i][n] => m = n
<1>1. ch[i] \in Seq(Entry) BY DEF Chained
<1>2. \A m, n \in DOMAIN ch[i] : ch[i][m] = ch[i][n] => m = n
  <2> SUFFICES ASSUME NEW m \in DOMAIN ch[i], NEW n \in DOMAIN ch[i],
                      ch[i][m] = ch[i][n]
               PROVE  m = n
    OBVIOUS
  <2> DEFINE k == mem[<<ch[i][n], "key">>]
  <2>1. mem[<<ch[i][m], "key">>] = k OBVIOUS
  <2> QED BY <2>1, Zenon DEF Chained, Keyed
<1> QED BY <1>1, <1>2, DistinctFit, LenProperties

\* The walk through bucket i meets the list of the bucket, and then Zero.
LEMMA WalkIs ==
  ASSUME NEW ch, Chained(ch), NEW i \in Bucket, NEW n \in 0..MaxEntry
  PROVE  Walk(i)[n] = Ref(ch[i], n + 1)
<1> DEFINE c == ch[i]
           Next_(r) == IF r \in Entry THEN mem[<<r, "next">>] ELSE r
           Def(f) == f = [m \in 0..MaxEntry |->
                            IF m = 0 THEN mem[BucketCell(i)]
                            ELSE IF f[m - 1] \in Entry
                                 THEN mem[<<f[m - 1], "next">>]
                                 ELSE f[m - 1]]
           w == [m \in 0..MaxEntry |-> Ref(c, m + 1)]
<1>1. /\ c \in Seq(Entry) /\ Len(c) \in Nat /\ DOMAIN c = 1..Len(c)
  BY ChainFits
<1>2. mem[BucketCell(i)] = Ref(c, 1)
  BY DEF Chained, Linked, BucketCell, TableP, TableOf
<1>3. \A m \in DOMAIN c : mem[<<c[m], "next">>] = Ref(c, m + 1)
  BY DEF Chained, Linked
<1> HIDE DEF c
<1>4. ASSUME NEW m \in Nat
      PROVE  Ref(c, m + 2) = Next_(Ref(c, m + 1))
  <2>1. CASE m + 1 \in DOMAIN c
    <3>1. Ref(c, m + 1) = c[m + 1] /\ c[m + 1] \in Entry
      BY <1>1, <2>1 DEF Ref
    <3>2. (m + 1) + 1 = m + 2 OBVIOUS
    <3> QED BY <1>3, <2>1, <3>1, <3>2
  <2>2. CASE m + 1 \notin DOMAIN c
    <3>1. m + 2 \notin DOMAIN c BY <1>1, <2>2
    <3> QED BY <2>2, <3>1, Objects DEF Ref
  <2> QED BY <2>1, <2>2
<1>5. ASSUME NEW m \in 0..MaxEntry, m # 0
      PROVE  Ref(c, m + 1) = Next_(Ref(c, (m - 1) + 1)) /\ m - 1 \in 0..MaxEntry
  <2>1. m - 1 \in Nat /\ (m - 1) + 2 = m + 1 /\ m - 1 \in 0..MaxEntry
    BY <1>5, HashAssumption
  <2> HIDE DEF Next_
  <2> QED BY <1>4, <2>1
<1>6. Def(w)
  <2> DEFINE v == [m \in 0..MaxEntry |->
                     IF m = 0 THEN mem[BucketCell(i)]
                     ELSE IF w[m - 1] \in Entry THEN mem[<<w[m - 1], "next">>]
                          ELSE w[m - 1]]
  <2>1. ASSUME NEW m \in 0..MaxEntry PROVE w[m] = v[m]
    <3>1. CASE m = 0 BY <1>2, <3>1
    <3>2. CASE m # 0 BY <1>5, <3>2
    <3> QED BY <3>1, <3>2
  <2>2. w = v BY <2>1
  <2> QED BY <2>2
<1> DEFINE f == CHOOSE g : Def(g)
<1>7. Def(f)
  <2> HIDE DEF Def, w
  <2> QED BY <1>6
<1>8. Walk(i) = f BY DEF Walk
<1> HIDE DEF f
<1>9. \A m \in 0..MaxEntry :
        f[m] = IF m = 0 THEN mem[BucketCell(i)] ELSE Next_(f[m - 1])
  BY <1>7, Zenon
<1> HIDE DEF Def, Next_, w
<1> DEFINE T == {m \in Nat : m \in 0..MaxEntry => f[m] = Ref(c, m + 1)}
<1>10. 0 \in T BY <1>2, <1>9
<1>11. ASSUME NEW m \in T PROVE m + 1 \in T
  <2> SUFFICES ASSUME m + 1 \in 0..MaxEntry PROVE f[m + 1] = Ref(c, (m + 1) + 1)
    OBVIOUS
  <2>1. m \in 0..MaxEntry /\ (m + 1) - 1 = m /\ m + 1 # 0 /\ m \in Nat
    BY HashAssumption
  <2>2. f[m] = Ref(c, m + 1) BY <2>1
  <2>3. f[m + 1] = Next_(f[m]) BY <1>9, <2>1
  <2>4. Ref(c, (m + 1) + 1) = Next_(Ref(c, m + 1)) BY <1>5, <2>1
  <2> QED BY <2>2, <2>3, <2>4
<1>12. T = Nat
  <2>1. T \subseteq Nat OBVIOUS
  <2> HIDE DEF T
  <2> QED BY <1>10, <1>11, <2>1, NumbersByInduction
<1>13. n \in T BY <1>12, HashAssumption
<1> QED BY <1>8, <1>13 DEF c

LEMMA ChainIs ==
  ASSUME NEW ch, Chained(ch), NEW i \in Bucket
  PROVE  Chain(i) = ch[i]
<1> DEFINE c == ch[i]  w == Walk(i)
           n == Cardinality({m \in 0..MaxEntry : w[m] \in Entry})
<1>1. /\ c \in Seq(Entry) /\ Len(c) \in Nat /\ DOMAIN c = 1..Len(c)
      /\ Len(c) <= MaxEntry
  BY ChainFits
<1>2. \A m \in 0..MaxEntry : w[m] = Ref(c, m + 1) BY WalkIs
<1>3. Chain(i) = [m \in 1..n |-> w[m - 1]] BY DEF Chain
<1> HIDE DEF c, w
<1>4. \A m \in 0..MaxEntry : w[m] \in Entry <=> m \in 0..(Len(c) - 1)
  BY <1>1, <1>2, Objects DEF Ref
<1>5. n = Len(c)
  <2>1. {m \in 0..MaxEntry : w[m] \in Entry} = 0..(Len(c) - 1)
    BY <1>1, <1>4, HashAssumption
  <2>2. Cardinality(0..(Len(c) - 1)) =
          IF 0 > Len(c) - 1 THEN 0 ELSE (Len(c) - 1) - 0 + 1
    BY <1>1, FS_Interval
  <2>3. (IF 0 > Len(c) - 1 THEN 0 ELSE (Len(c) - 1) - 0 + 1) = Len(c)
    BY <1>1
  <2> QED BY <2>1, <2>2, <2>3, Zenon
<1> HIDE DEF n
<1>6. \A m \in 1..Len(c) : w[m - 1] = c[m]
  BY <1>1, <1>2, HashAssumption DEF Ref
<1>7. c = [m \in 1..Len(c) |-> c[m]] BY <1>1
<1>8. Chain(i) = c BY <1>3, <1>5, <1>6, <1>7
<1> QED BY <1>8 DEF c

-----------------------------------------------------------------------------
(***************************************************************************)
(* What a lookup finds.                                                    *)
(***************************************************************************)

\* A key has one place in the chain of its bucket, or none.
LEMMA HitIs ==
  ASSUME NEW ch, Chained(ch), NEW k \in Key
  PROVE  LET i == HashOf(mem, k)  c == ch[i] IN
         /\ i \in Bucket /\ hash_function(k) = i
         /\ Hits(k) = {n \in DOMAIN c : mem[<<c[n], "key">>] = k}
         /\ Hits(k) # {} => \E n \in DOMAIN c :
              /\ Hits(k) = {n} /\ FirstHit(k) = c[n] /\ ReadHit(k) = c[n]
              /\ c[n] \in Entry /\ mem[<<c[n], "key">>] = k
<1> DEFINE i == HashOf(mem, k)  c == ch[i]
<1>1. i \in Bucket /\ hash_function(k) = i
  BY Hashes, HashIs DEF Chained
<1>2. Chain(i) = c BY <1>1, ChainIs
<1>3. c \in Seq(Entry) /\ Len(c) \in Nat /\ DOMAIN c = 1..Len(c)
  BY <1>1, ChainFits
<1>4. Hits(k) = {n \in DOMAIN c : mem[<<c[n], "key">>] = k}
  BY <1>1, <1>2 DEF Hits
<1>5. \A m, n \in DOMAIN c :
        mem[<<c[m], "key">>] = k /\ mem[<<c[n], "key">>] = k => m = n
  BY <1>1, Zenon DEF Chained, Keyed
<1> HIDE DEF i, c
<1>6. ASSUME Hits(k) # {}
      PROVE  \E n \in DOMAIN c :
               /\ Hits(k) = {n} /\ FirstHit(k) = c[n] /\ ReadHit(k) = c[n]
               /\ c[n] \in Entry /\ mem[<<c[n], "key">>] = k
  <2>1. PICK n \in DOMAIN c : mem[<<c[n], "key">>] = k BY <1>4, <1>6
  <2>2. Hits(k) = {n} BY <1>4, <1>5, <2>1
  <2>3. n \in Nat /\ n \in 0..Len(c) /\ c[n] \in Entry BY <1>3, <2>1
  <2>4. Min({n}) = n BY <2>3, MinIs
  <2>5. Max({n}) = n
    <3>1. {n} \in SUBSET (0..Len(c)) /\ {n} # {} BY <2>3
    <3>2. Max({n}) \in {n} BY <1>3, <3>1, MaxIs
    <3> QED BY <3>2
  <2>6. FirstHit(k) = c[n] /\ LastHit(k) = c[n]
    BY <1>1, <1>2, <2>2, <2>4, <2>5 DEF FirstHit, LastHit
  <2> QED BY <2>1, <2>2, <2>3, <2>6 DEF ReadHit
<1> QED BY <1>1, <1>4, <1>6 DEF i, c

\* Which memory is looked at matters only in the root, the table and the lists.
LEMMA SameTable ==
  ASSUME NEW F, NEW G, NEW A, \A c \in A : F[c] = G[c], TableMade(F),
         RootCells \subseteq A, TableCells(TableOf(F)) \subseteq A
  PROVE  /\ TableMade(G) /\ TableOf(G) = TableOf(F)
         /\ \A k : HashOf(G, k) = HashOf(F, k)
<1>1. TableOf(G) = TableOf(F) BY Cells DEF TableOf
<1>2. G[<<0, "a">>] = F[<<0, "a">>] /\ G[<<0, "b">>] = F[<<0, "b">>]
  BY Cells
<1>3. G[<<TableOf(F), "nbuckets">>] = F[<<TableOf(F), "nbuckets">>]
  BY Cells DEF TableMade
<1> QED BY <1>1, <1>2, <1>3 DEF TableMade, HashOf

LEMMA SameLists ==
  ASSUME NEW F, NEW G, NEW A, \A c \in A : F[c] = G[c], TableMade(F),
         NEW ch \in [Bucket -> Seq(Entry)], Linked(F, ch), Keyed(F, ch),
         NEW want, Wanted(F, ch, want), RootCells \subseteq A,
         KeptIn(F, ch, A)
  PROVE  /\ TableMade(G) /\ Linked(G, ch) /\ Keyed(G, ch)
         /\ Wanted(G, ch, want) /\ KeptIn(G, ch, A)
<1>0. /\ TableCells(TableOf(F)) \subseteq A
      /\ \A i \in Bucket : \A n \in DOMAIN ch[i] : EntryCells(ch[i][n]) \subseteq A
  BY DEF KeptIn
<1>1. /\ TableOf(G) = TableOf(F) /\ TableOf(F) \in Table /\ TableMade(G)
      /\ \A k : HashOf(G, k) = HashOf(F, k)
  BY <1>0, SameTable DEF TableMade
<1>2. \A i \in Bucket : G[<<TableOf(F), "bucket", i>>]
                          = F[<<TableOf(F), "bucket", i>>]
  BY <1>0, <1>1, Cells
<1>3. \A i \in Bucket : \A n \in DOMAIN ch[i] :
        /\ G[<<ch[i][n], "key">>] = F[<<ch[i][n], "key">>]
        /\ G[<<ch[i][n], "value">>] = F[<<ch[i][n], "value">>]
        /\ G[<<ch[i][n], "next">>] = F[<<ch[i][n], "next">>]
  <2> TAKE i \in Bucket
  <2> TAKE n \in DOMAIN ch[i]
  <2>1. ch[i] \in Seq(Entry) OBVIOUS
  <2>2. ch[i][n] \in Entry BY <2>1, LenProperties
  <2> QED BY <1>0, <2>2, Cells
<1>4. Linked(G, ch)
  <2> SUFFICES ASSUME NEW i \in Bucket
               PROVE  /\ G[<<TableOf(F), "bucket", i>>] = Ref(ch[i], 1)
                      /\ \A n \in DOMAIN ch[i] :
                           G[<<ch[i][n], "next">>] = Ref(ch[i], n + 1)
    BY <1>1 DEF Linked
  <2>1. F[<<TableOf(F), "bucket", i>>] = Ref(ch[i], 1) BY DEF Linked
  <2>2. \A n \in DOMAIN ch[i] : F[<<ch[i][n], "next">>] = Ref(ch[i], n + 1)
    BY DEF Linked
  <2> QED BY <1>2, <1>3, <2>1, <2>2
<1>5. Keyed(G, ch)
  <2> SUFFICES ASSUME NEW i \in Bucket, NEW n \in DOMAIN ch[i]
               PROVE  LET k == G[<<ch[i][n], "key">>] IN
                      /\ k \in Key /\ HashOf(G, k) = i
                      /\ \A m \in DOMAIN ch[i] :
                           G[<<ch[i][m], "key">>] = k => m = n
    BY DEF Keyed
  <2> DEFINE k == F[<<ch[i][n], "key">>]
  <2>1. /\ k \in Key /\ HashOf(F, k) = i
        /\ \A m \in DOMAIN ch[i] : F[<<ch[i][m], "key">>] = k => m = n
    BY Zenon DEF Keyed
  <2>2. G[<<ch[i][n], "key">>] = k BY <1>3
  <2>3. \A m \in DOMAIN ch[i] : G[<<ch[i][m], "key">>] = F[<<ch[i][m], "key">>]
    BY <1>3
  <2> HIDE DEF k
  <2> QED BY <1>1, <2>1, <2>2, <2>3
<1>6. Wanted(G, ch, want)
  <2>1. ASSUME NEW k \in Key
        PROVE  LET c == ch[HashOf(G, k)]
                   hits == {n \in DOMAIN c : G[<<c[n], "key">>] = k}
               IN /\ hits = {} => Absent \in want[k]
                  /\ \A n \in hits : G[<<c[n], "value">>] \in want[k]
    <3> DEFINE c == ch[HashOf(F, k)]
               hits == {n \in DOMAIN c : F[<<c[n], "key">>] = k}
    <3>1. HashOf(F, k) \in Bucket BY Hashes
    <3>2. \A n \in DOMAIN c : /\ G[<<c[n], "value">>] = F[<<c[n], "value">>]
                              /\ G[<<c[n], "key">>] = F[<<c[n], "key">>]
      BY <1>3, <3>1
    <3>3. /\ hits = {} => Absent \in want[k]
          /\ \A n \in hits : F[<<c[n], "value">>] \in want[k]
      BY Zenon DEF Wanted
    <3>4. ch[HashOf(G, k)] = c BY <1>1
    <3> HIDE DEF c
    <3>5. hits = {n \in DOMAIN c : G[<<c[n], "key">>] = k} BY <3>2
    <3> QED BY <3>2, <3>3, <3>4, <3>5
  <2> QED BY <2>1, Zenon DEF Wanted
<1>7. KeptIn(G, ch, A) BY <1>0, <1>1 DEF KeptIn
<1> QED BY <1>1, <1>4, <1>5, <1>6, <1>7

\* With no program to perform, what is wanted is there.
LEMMA HeldNow ==
  ASSUME NEW want, WillHold(<<>>, want)
  PROVE  \E ch : /\ Chained(ch) /\ Wanted(mem, ch, want)
                 /\ KeptIn(mem, ch, live)
<1>1. PICK F, ch : ch \in [Bucket -> Seq(Entry)] /\ Holds(<<>>, want, F, ch)
  BY DEF WillHold
<1>2. \A c \in Cell : F[c] = mem[c] BY <1>1 DEF Holds, Yields
<1>3. KeptIn(F, ch, Cell)
  <2>1. \A i \in Bucket : \A n \in DOMAIN ch[i] : ch[i][n] \in Entry
    BY <1>1, LenProperties
  <2> QED BY <1>1, <2>1, Cells DEF Holds, KeptIn, TableMade
<1>4. /\ TableMade(mem) /\ Linked(mem, ch) /\ Keyed(mem, ch)
      /\ Wanted(mem, ch, want)
  BY <1>1, <1>2, <1>3, Cells, SameLists, Zenon DEF Holds
<1>5. ToAllocate(<<>>) = {} BY DEF ToAllocate
<1>6. KeptIn(F, ch, live \cup {}) BY <1>1, <1>5 DEF Holds
<1>7. KeptIn(mem, ch, live) BY <1>2, <1>6, Cells DEF KeptIn, TableOf
<1> QED BY <1>1, <1>4, <1>7, Zenon DEF Chained

\* read() shows what is wanted.
LEMMA FindIs ==
  ASSUME NEW ch, Chained(ch), NEW want, Wanted(mem, ch, want), NEW k \in Key
  PROVE  Find(k) \in want[k]
<1> DEFINE c == ch[HashOf(mem, k)]
           hits == {n \in DOMAIN c : mem[<<c[n], "key">>] = k}
<1>1. TableP \in Table /\ mem[<<TableP, "nbuckets">>] = INIT_BUCKETS_NUM
  BY DEF Chained, TableMade, TableP, TableOf
<1>2. TableP # Zero /\ mem[<<TableP, "nbuckets">>] # Zero
  BY <1>1, Objects
<1>3. /\ hits = {} => Absent \in want[k]
      /\ \A n \in hits : mem[<<c[n], "value">>] \in want[k]
  BY Zenon DEF Wanted
<1>4. /\ Hits(k) = hits
      /\ Hits(k) # {} => \E n \in DOMAIN c :
           /\ Hits(k) = {n} /\ FirstHit(k) = c[n] /\ ReadHit(k) = c[n]
           /\ c[n] \in Entry /\ mem[<<c[n], "key">>] = k
  BY HitIs, Zenon
<1> HIDE DEF c, hits
<1>5. CASE Hits(k) = {} BY <1>3, <1>4, <1>5 DEF Find
<1>6. CASE Hits(k) # {}
  <2>1. PICK n \in DOMAIN c : Hits(k) = {n} /\ ReadHit(k) = c[n] BY <1>4, <1>6
  <2>2. n \in hits BY <1>4, <2>1
  <2>3. mem[<<ReadHit(k), "value">>] \in want[k] BY <1>3, <2>1, <2>2
  <2> QED BY <1>2, <1>6, <2>3, Zenon DEF Find
<1> QED BY <1>5, <1>6

LEMMA EntriesAre ==
  ASSUME NEW ch, Chained(ch)
  PROVE  /\ AllEntries \in Seq(Entry)
         /\ \A m \in DOMAIN AllEntries : \E i \in Bucket : \E n \in DOMAIN ch[i] :
              AllEntries[m] = ch[i][n]
         /\ \A m, n \in DOMAIN AllEntries :
              mem[<<AllEntries[m], "key">>] = mem[<<AllEntries[n], "key">>]
                => m = n
<1> DEFINE ss == [i \in 1..INIT_BUCKETS_NUM |-> Chain(i - 1)]
<1>1. INIT_BUCKETS_NUM \in Nat \ {0} BY HashAssumption
<1>2. \A i \in 1..INIT_BUCKETS_NUM : i - 1 \in Bucket /\ ss[i] = ch[i - 1]
  <2> TAKE i \in 1..INIT_BUCKETS_NUM
  <2>1. i - 1 \in Bucket BY <1>1 DEF Bucket
  <2>2. Chain(i - 1) = ch[i - 1] BY <2>1, ChainIs
  <2> QED BY <2>1, <2>2
<1>3. \A i \in 1..INIT_BUCKETS_NUM : ss[i] \in Seq(Entry)
  BY <1>2, ChainFits
<1>4. Len(ss) = INIT_BUCKETS_NUM /\ Len(ss) \in Nat \ {0} BY <1>1
<1>5. AllEntries = FlattenSeq(ss) BY DEF AllEntries
<1> HIDE DEF ss
<1>6. ASSUME NEW i \in Bucket, NEW n \in DOMAIN ch[i],
             NEW j \in Bucket, NEW m \in DOMAIN ch[j],
             mem[<<ch[i][n], "key">>] = mem[<<ch[j][m], "key">>]
      PROVE  i = j /\ n = m
  <2> DEFINE k == mem[<<ch[j][m], "key">>]
  <2>1. HashOf(mem, k) = i /\ HashOf(mem, k) = j
    BY <1>6, Zenon DEF Chained, Keyed
  <2>2. i = j BY <2>1
  <2>3. \A x \in DOMAIN ch[j] : mem[<<ch[j][x], "key">>] = k => x = m
    BY Zenon DEF Chained, Keyed
  <2> QED BY <1>6, <2>2, <2>3
<1>7. \A n, l \in 1..Len(ss) : \A i \in DOMAIN ss[n], j \in DOMAIN ss[l] :
        ss[n][i] = ss[l][j] => n = l /\ i = j
  <2> TAKE n, l \in 1..Len(ss)
  <2> TAKE i \in DOMAIN ss[n], j \in DOMAIN ss[l]
  <2> HAVE ss[n][i] = ss[l][j]
  <2>1. /\ n - 1 \in Bucket /\ l - 1 \in Bucket
        /\ ss[n] = ch[n - 1] /\ ss[l] = ch[l - 1]
    BY <1>2, <1>4
  <2>2. mem[<<ch[n - 1][i], "key">>] = mem[<<ch[l - 1][j], "key">>]
    BY <2>1
  <2>3. n - 1 = l - 1 /\ i = j
    <3> DEFINE a == n - 1  b == l - 1
    <3>1. /\ i \in DOMAIN ch[a] /\ j \in DOMAIN ch[b]
          /\ a \in Bucket /\ b \in Bucket
          /\ mem[<<ch[a][i], "key">>] = mem[<<ch[b][j], "key">>]
      BY <2>1, <2>2
    <3> HIDE DEF a, b
    <3>2. a = b /\ i = j BY <1>6, <3>1
    <3> QED BY <3>2 DEF a, b
  <2> QED BY <1>1, <1>4, <2>3
<1> DEFINE r == FlattenSeq(ss)
<1>8. /\ r \in Seq(Entry)
      /\ \A m \in DOMAIN r : \E n \in 1..Len(ss) : \E i \in DOMAIN ss[n] :
           r[m] = ss[n][i]
      /\ \A m, l \in DOMAIN r : r[m] = r[l] => m = l
  BY <1>3, <1>4, <1>7, FlattenIs
<1> HIDE DEF r
<1>9. \A m \in DOMAIN r : \E i \in Bucket : \E n \in DOMAIN ch[i] :
        r[m] = ch[i][n]
  <2> TAKE m \in DOMAIN r
  <2>1. PICK n \in 1..Len(ss) : \E i \in DOMAIN ss[n] : r[m] = ss[n][i]
    BY <1>8
  <2>2. n - 1 \in Bucket /\ ss[n] = ch[n - 1] BY <1>2, <1>4
  <2> QED BY <2>1, <2>2
<1>10. \A m, l \in DOMAIN r :
         mem[<<r[m], "key">>] = mem[<<r[l], "key">>] => m = l
  <2> TAKE m, l \in DOMAIN r
  <2> HAVE mem[<<r[m], "key">>] = mem[<<r[l], "key">>]
  <2>1. PICK i \in Bucket : \E n \in DOMAIN ch[i] : r[m] = ch[i][n] BY <1>9
  <2>2. PICK n \in DOMAIN ch[i] : r[m] = ch[i][n] BY <2>1
  <2>3. PICK j \in Bucket : \E x \in DOMAIN ch[j] : r[l] = ch[j][x] BY <1>9
  <2>4. PICK x \in DOMAIN ch[j] : r[l] = ch[j][x] BY <2>3
  <2>5. i = j /\ n = x BY <1>6, <2>2, <2>4
  <2> QED BY <1>8, <2>2, <2>4, <2>5
<1>11. AllEntries = r BY <1>5 DEF r
<1> QED BY <1>8, <1>9, <1>10, <1>11

\* Nobody is updating between operations: the table shows what is expected.
LEMMA IInvServing ==
  ASSUME IInv, phase = "serve", \A t \in Thread : ~Updating(t)
  PROVE  \E ch : /\ Chained(ch) /\ Wanted(mem, ch, expect)
                 /\ KeptIn(mem, ch, live)
<1>1. WillHold(<<>>, expect) BY DEF IInv, TableInv
<1> QED BY <1>1, HeldNow

LEMMA IInvMapCorrect == IInv => MapCorrect
<1> SUFFICES ASSUME IInv, phase = "serve", Unlocked, NEW k \in Key
             PROVE  Find(k) \in expect[k]
  BY DEF MapCorrect, Shows
<1>1. \A t \in Thread : ~Updating(t) BY DEF Unlocked, Updating
<1>2. PICK ch : Chained(ch) /\ Wanted(mem, ch, expect) BY <1>1, IInvServing
<1> QED BY <1>2, FindIs

LEMMA IInvKeysUnique == IInv => KeysUnique
<1> SUFFICES ASSUME IInv, phase = "serve", Unlocked PROVE KeysUnique
  BY DEF KeysUnique
<1>1. \A t \in Thread : ~Updating(t) BY DEF Unlocked, Updating
<1>2. PICK ch : Chained(ch) BY <1>1, IInvServing
<1>3. \A m, n \in DOMAIN AllEntries :
        mem[<<AllEntries[m], "key">>] = mem[<<AllEntries[n], "key">>] => m = n
  BY <1>2, EntriesAre
<1>4. ASSUME NEW i \in Bucket, NEW n \in DOMAIN Chain(i)
      PROVE  hash_function(mem[<<Chain(i)[n], "key">>]) = i
  <2>1. Chain(i) = ch[i] BY <1>2, ChainIs
  <2>2. HashOf(mem, mem[<<ch[i][n], "key">>]) = i
    BY <1>2, <2>1, Zenon DEF Chained, Keyed
  <2> QED BY <1>2, <2>1, <2>2, HashIs DEF Chained
<1> QED BY <1>3, <1>4 DEF KeysUnique

-----------------------------------------------------------------------------
(***************************************************************************)
(* What init does.                                                         *)
(***************************************************************************)

\* The memory it makes, with the table at T.
Opened(c, T) ==
  [d \in Cell |->
     IF d = <<0, "a">> THEN c[1]
     ELSE IF d = <<0, "b">> THEN c[2]
     ELSE IF d = <<0, "buckets">> THEN T
     ELSE IF d = <<T, "nbuckets">> THEN INIT_BUCKETS_NUM
     ELSE IF d \in TableCells(T) THEN Zero
     ELSE mem[d]]

\* It once the coefficients are drawn.
Drawn(c) ==
  [d \in Cell |-> IF d = <<0, "a">> THEN c[1]
                  ELSE IF d = <<0, "b">> THEN c[2] ELSE mem[d]]

LEMMA CoefficientsDo ==
  ASSUME NEW c \in Coeff
  PROVE  Does(Coefficients(c), mem, Drawn(c), {})
<1> DEFINE u == St(<<0, "a">>, c[1])  v == St(<<0, "b">>, c[2])
<1>1. u \in Step /\ v \in Step BY StepKinds, Cells, Contents
<1>2. /\ Assigns(u) = {<<0, "a">>} /\ Assigned(u, <<0, "a">>) = c[1]
      /\ Assigns(v) = {<<0, "b">>} /\ Assigned(v, <<0, "b">>) = c[2]
      /\ Allocates(u) = {} /\ Allocates(v) = {}
  BY StepAssigns, StepLogs
<1>3. Releases(u) = {} /\ Releases(v) = {} BY DEF Releases, St
<1>4. Coefficients(c) = <<u, v>> BY DEF Coefficients
<1> HIDE DEF u, v
<1>5. \A d \in Cell : Drawn(c)[d] = After(v, d, After(u, d, mem[d]))
  BY <1>2, Fields DEF Drawn, After
<1>6. Does(<<u, v>>, mem, Drawn(c), Allocates(u) \cup Allocates(v))
  BY <1>1, <1>3, <1>5, DoesTwo
<1> QED BY <1>2, <1>4, <1>6

\* The last steps of each init, which make the table.
LEMMA TableMaking ==
  ASSUME NEW c \in Coeff, NEW T \in Table
  PROVE  LET bk == <<0, "buckets">>  nb == <<T, "nbuckets">>
             TC == TableCells(T)  N == INIT_BUCKETS_NUM IN
         /\ Does(<<TZAl(TC), St(bk, T), St(nb, N), Cm>>,
                 Drawn(c), Opened(c, T), TC)
         /\ Does(<<ZAlTo(TC, bk, T), St(nb, N), Fl(RootCells)>>,
                 Drawn(c), Opened(c, T), TC)
         /\ Does(<<Al(TC), St(bk, T), St(nb, N)>>
                 \o SetToSeq({St(<<T, "bucket", i>>, Zero) : i \in Bucket}),
                 Drawn(c), Opened(c, T), TC)
         /\ <<Al(TC), St(bk, T), St(nb, N)>> \in Seq(Step)
         /\ SetToSeq({St(<<T, "bucket", i>>, Zero) : i \in Bucket}) \in Seq(Step)
<1> DEFINE bk == <<0, "buckets">>  nb == <<T, "nbuckets">>
           TC == TableCells(T)  N == INIT_BUCKETS_NUM
           s == St(bk, T)  n == St(nb, N)  z == ZAlTo(TC, bk, T)
           cell == [i \in Bucket |-> <<T, "bucket", i>>]
           H == [d \in Cell |-> IF d = bk THEN T ELSE IF d = nb THEN N
                                ELSE Drawn(c)[d]]
<1>1. /\ TC \in SUBSET Cell /\ bk \in Cell /\ nb \in TC /\ nb \in Cell
      /\ T \in Value /\ N \in Value /\ RootCells \in SUBSET Cell
      /\ bk \notin TC /\ bk # nb /\ <<0, "a">> \notin TC /\ <<0, "b">> \notin TC
      /\ bk # <<0, "a">> /\ bk # <<0, "b">>
  BY Cells, Fields, Contents
<1>2. /\ cell \in [Bucket -> Cell] /\ \A i, j \in Bucket : cell[i] = cell[j] => i = j
      /\ TC = {cell[i] : i \in Bucket} \cup {nb}
      /\ \A i \in Bucket : cell[i] # nb
  BY Cells, Fields DEF TableCells
<1>3. Opened(c, T) = [d \in Cell |->
        IF d = bk THEN T ELSE IF d = nb THEN N
        ELSE IF d \in TC THEN Zero ELSE Drawn(c)[d]]
  BY <1>1 DEF Opened, Drawn
<1>4. {St(<<T, "bucket", i>>, Zero) : i \in Bucket}
        = {St(cell[i], Zero) : i \in Bucket}
  BY DEF St
<1> DEFINE O == Opened(c, T)  D == Drawn(c)
<1> HIDE DEF bk, nb, TC, N, cell, O, D
<1>5. \A d \in Cell : O[d] = IF d = bk THEN T ELSE IF d = nb THEN N
                             ELSE IF d \in TC THEN Zero ELSE D[d]
  BY <1>3 DEF O, D
<1>6. /\ s \in Step /\ n \in Step /\ z \in Step /\ TZAl(TC) \in Step
      /\ Al(TC) \in Step /\ Cm \in Step /\ Fl(RootCells) \in Step
  BY <1>1, StepKinds
<1>7. /\ Releases(s) = {} /\ Releases(n) = {} /\ Releases(z) = {}
      /\ Releases(TZAl(TC)) = {} /\ Releases(Al(TC)) = {} /\ Releases(Cm) = {}
      /\ Releases(Fl(RootCells)) = {}
  BY DEF Releases, St, ZAlTo, TZAl, Al, Cm, Fl
<1>8. /\ Allocates(s) = {} /\ Allocates(n) = {} /\ Allocates(z) = TC
      /\ Allocates(TZAl(TC)) = TC /\ Allocates(Al(TC)) = TC
      /\ Allocates(Cm) = {} /\ Allocates(Fl(RootCells)) = {}
  BY StepLogs
<1>9. \A d, x : /\ After(s, d, x) = IF d = bk THEN T ELSE x
                /\ After(n, d, x) = IF d = nb THEN N ELSE x
                /\ After(z, d, x) = IF d = bk THEN T
                                    ELSE IF d \in TC THEN Zero ELSE x
                /\ After(TZAl(TC), d, x) = IF d \in TC THEN Zero ELSE x
                /\ After(Al(TC), d, x) = x
                /\ After(Cm, d, x) = x /\ After(Fl(RootCells), d, x) = x
  BY StepAssigns DEF After
<1> HIDE DEF s, n, z
<1>10. Does(<<TZAl(TC), s, n, Cm>>, D, O, TC)
  <2>1. \A d \in Cell : O[d] =
          After(Cm, d, After(n, d, After(s, d, After(TZAl(TC), d, D[d]))))
    BY <1>1, <1>5, <1>9
  <2>2. Does(<<TZAl(TC), s, n, Cm>>, D, O,
             Allocates(TZAl(TC)) \cup Allocates(s)
               \cup (Allocates(n) \cup Allocates(Cm)))
    BY <1>6, <1>7, <2>1, DoesFour
  <2> QED BY <1>8, <2>2
<1>11. Does(<<z, n, Fl(RootCells)>>, D, O, TC)
  <2>1. \A d \in Cell : O[d] =
          After(Fl(RootCells), d, After(n, d, After(z, d, D[d])))
    BY <1>1, <1>5, <1>9
  <2>2. Does(<<z, n, Fl(RootCells)>>, D, O,
             Allocates(z) \cup Allocates(n) \cup Allocates(Fl(RootCells)))
    BY <1>6, <1>7, <2>1, DoesThree
  <2> QED BY <1>8, <2>2
<1> DEFINE q == SetToSeq({St(<<T, "bucket", i>>, Zero) : i \in Bucket})
<1>12. /\ Does(<<Al(TC), s, n>> \o q, D, O, TC)
       /\ <<Al(TC), s, n>> \in Seq(Step) /\ q \in Seq(Step)
  <2>1. \A d \in Cell : H[d] = IF d = bk THEN T ELSE IF d = nb THEN N ELSE D[d]
    BY DEF D
  <2> HIDE DEF H
  <2>2. \A d \in Cell : H[d] = After(n, d, After(s, d, After(Al(TC), d, D[d])))
    BY <1>1, <1>9, <2>1
  <2>3. Does(<<Al(TC), s, n>>, D, H,
             Allocates(Al(TC)) \cup Allocates(s) \cup Allocates(n))
    BY <1>6, <1>7, <2>2, DoesThree
  <2>4. \A d \in Cell : O[d] = IF \E i \in Bucket : d = cell[i] THEN Zero
                               ELSE H[d]
    BY <1>1, <1>2, <1>5, <2>1
  <2>5. IsFiniteSet(Bucket)
    <3>1. 0 \in Int /\ INIT_BUCKETS_NUM - 1 \in Int BY HashAssumption
    <3> QED BY <3>1, FS_Interval DEF Bucket
  <2>6. Does(q, H, O, {})
    <3>1. Does(SetToSeq({St(cell[i], Zero) : i \in Bucket}), H, O, {})
      BY <1>2, <2>4, <2>5, DoesStores, ZeroAssumption
    <3> QED BY <1>4, <3>1
  <2> HIDE DEF q
  <2>7. Does(<<Al(TC), s, n>> \o q, D, O,
             Allocates(Al(TC)) \cup Allocates(s) \cup Allocates(n) \cup {})
    BY <2>3, <2>6, DoesConcat
  <2>8. q \in Seq(Step) BY <2>6 DEF Does
  <2>9. <<Al(TC), s, n>> \in Seq(Step) BY <1>6
  <2> QED BY <1>8, <2>7, <2>8, <2>9
<1> QED BY <1>10, <1>11, <1>12 DEF O, D, s, n, z, bk, nb, TC, N, q

\* The parts of a transaction.
LEMMA TxParts ==
  ASSUME NEW C \in SUBSET Cell, NEW D \in SUBSET Cell
  PROVE  /\ <<Bg, Sn(C)>> \in Seq(Step) /\ <<Bg, Sn(C), TAl(D)>> \in Seq(Step)
         /\ <<Cm>> \in Seq(Step) /\ \A A : LogsFirst(<<Cm>>, A)
         /\ \A p \in Seq(Step) : EndsTx(p \o <<Cm>>)
         /\ C \subseteq ToLog(<<Bg, Sn(C)>>)
         /\ C \cup D \subseteq ToLog(<<Bg, Sn(C), TAl(D)>>)
         /\ \A j \in DOMAIN <<Bg, Sn(C)>> :
              <<Bg, Sn(C)>>[j].op \in {"tx_begin", "tx_add_range", "tx_alloc"}
         /\ \A j \in DOMAIN <<Bg, Sn(C), TAl(D)>> :
              <<Bg, Sn(C), TAl(D)>>[j].op
                \in {"tx_begin", "tx_add_range", "tx_alloc"}
<1> DEFINE p == <<Bg, Sn(C)>>  q == <<Bg, Sn(C), TAl(D)>>  r == <<Cm>>
<1>1. /\ Bg \in Step /\ Sn(C) \in Step /\ TAl(D) \in Step /\ Cm \in Step
  BY StepKinds
<1>2. /\ Logs(Sn(C)) = C /\ Logs(TAl(D)) = D BY StepLogs
<1>3. /\ Bg.op = "tx_begin" /\ Sn(C).op = "tx_add_range"
      /\ TAl(D).op = "tx_alloc" /\ Cm.op = "tx_end"
  BY DEF Bg, Sn, TAl, Cm
<1>4. /\ p \in Seq(Step) /\ DOMAIN p = 1..2 /\ p[1] = Bg /\ p[2] = Sn(C)
  BY <1>1
<1>5. /\ q \in Seq(Step) /\ DOMAIN q = 1..3 /\ q[1] = Bg /\ q[2] = Sn(C)
      /\ q[3] = TAl(D)
  BY <1>1
<1>6. r \in Seq(Step) /\ DOMAIN r = {1} /\ r[1] = Cm /\ Len(r) = 1
  BY <1>1
<1> HIDE DEF p, q, r
<1>7. /\ C \subseteq ToLog(p)
      /\ \A j \in DOMAIN p : p[j].op \in {"tx_begin", "tx_add_range", "tx_alloc"}
  <2>1. 2 \in DOMAIN p BY <1>4
  <2> QED BY <1>2, <1>3, <1>4, <2>1 DEF ToLog
<1>8. /\ C \cup D \subseteq ToLog(q)
      /\ \A j \in DOMAIN q : q[j].op \in {"tx_begin", "tx_add_range", "tx_alloc"}
  <2>1. 2 \in DOMAIN q /\ 3 \in DOMAIN q BY <1>5
  <2> QED BY <1>2, <1>3, <1>5, <2>1 DEF ToLog
<1>9. \A A : LogsFirst(r, A) BY <1>3, <1>6 DEF LogsFirst
<1>10. /\ p \in Seq(Step) /\ q \in Seq(Step) /\ r \in Seq(Step)
  BY <1>4, <1>5, <1>6
<1>11. \A l \in Seq(Step) : EndsTx(l \o r)
  <2>1. r # <<>> /\ EndsTx(r) BY <1>3, <1>6 DEF EndsTx
  <2> QED BY <1>10, <2>1, EndsTxConcat
<1> QED BY <1>7, <1>8, <1>9, <1>10, <1>11, Zenon DEF p, q, r

\* A new table: its programs, and that they keep to their transaction.
LEMMA InitDoes ==
  ASSUME CallInv, NEW c \in Coeff, NewTable \in Table
  PROVE  /\ \E A \in SUBSET (RootCells \cup TableCells(NewTable)) :
              /\ Does(init(c), mem, Opened(c, NewTable), A)
              /\ TableCells(NewTable) \subseteq A
         /\ cls.medium = "tx" =>
              EndsTx(init(c)) /\ \A L : LogsFirst(init(c), L)
<1> DEFINE T == NewTable  TC == TableCells(T)  D == Drawn(c)  O == Opened(c, T)
           a == <<Bg, Sn(RootCells)>>  b == Coefficients(c)
           x == <<TZAl(TC), St(<<0, "buckets">>, T),
                  St(<<T, "nbuckets">>, INIT_BUCKETS_NUM), Cm>>
           y == <<ZAlTo(TC, <<0, "buckets">>, T),
                  St(<<T, "nbuckets">>, INIT_BUCKETS_NUM), Fl(RootCells)>>
           z == <<Al(TC), St(<<0, "buckets">>, T),
                  St(<<T, "nbuckets">>, INIT_BUCKETS_NUM)>>
           w == SetToSeq({St(<<T, "bucket", i>>, Zero) : i \in Bucket})
           l == <<Al(RootCells)>>
<1>1. /\ Does(a, mem, mem, {}) /\ Does(l, mem, mem, RootCells)
      /\ a \in Seq(Step)
  BY Beginning, TxParts, Cells
<1>2. Does(b, mem, D, {}) BY CoefficientsDo
<1>3. /\ Does(x, D, O, TC) /\ Does(y, D, O, TC) /\ Does(z \o w, D, O, TC)
      /\ z \in Seq(Step) /\ w \in Seq(Step)
  BY TableMaking
<1>4. /\ ht_pmem_tx_init(c) = a \o b \o x /\ ht_pmem_init(c) = b \o y
      /\ ht_dram_init(c) = l \o b \o z \o w
  BY DEF ht_pmem_tx_init, ht_pmem_init, ht_dram_init
<1>5. \A A : LogsFirst(a \o b \o x, A)
  <2>1. /\ RootCells \subseteq ToLog(a)
        /\ \A j \in DOMAIN a : a[j].op \in {"tx_begin", "tx_add_range", "tx_alloc"}
    BY TxParts, Cells
  <2>2. \A j \in DOMAIN b : /\ b[j].op \in {"store", "tx_free"}
                            /\ b[j].op = "store" => b[j].c \in RootCells
    <3>1. DOMAIN b = 1..2 /\ b[1].op = "store" /\ b[2].op = "store"
          /\ b[1].c = <<0, "a">> /\ b[2].c = <<0, "b">>
      BY DEF Coefficients, St
    <3> HIDE DEF b
    <3> QED BY <3>1, Cells
  <2>3. LogsFirst(x, RootCells)
    <3> DEFINE u == TZAl(TC)  s == St(<<0, "buckets">>, T)
               n == St(<<T, "nbuckets">>, INIT_BUCKETS_NUM)
    <3>1. /\ u.op = "tx_zalloc" /\ s.op = "store" /\ n.op = "store"
          /\ Cm.op = "tx_end" /\ s.c \in RootCells /\ n.c \in Logs(u)
      BY Cells, StepLogs DEF TZAl, St, Cm
    <3>2. DOMAIN x = 1..4 /\ Len(x) = 4 /\ x[1] = u /\ x[2] = s /\ x[3] = n
          /\ x[4] = Cm
      OBVIOUS
    <3> HIDE DEF x, u, s, n
    <3>3. 1 \in DOMAIN x BY <3>2
    <3> QED BY <3>1, <3>2, <3>3 DEF LogsFirst
  <2>4. b \in Seq(Step) /\ x \in Seq(Step) BY <1>2, <1>3 DEF Does
  <2> HIDE DEF a, b, x
  <2> QED BY <1>1, <2>1, <2>2, <2>3, <2>4, TransactionIs
<1>6. x # <<>> /\ EndsTx(x)
  <2>1. x # <<>> /\ x[Len(x)] = Cm OBVIOUS
  <2>2. Cm.op = "tx_end" BY DEF Cm
  <2> QED BY <2>1, <2>2 DEF EndsTx
<1> HIDE DEF a, b, x, y, z, w, l, D, O, TC
<1>7. EndsTx(a \o b \o x)
  <2>1. /\ a \in Seq(Step) /\ b \in Seq(Step) /\ x \in Seq(Step)
    BY <1>1, <1>2, <1>3 DEF Does
  <2>2. a \o b \in Seq(Step) BY <2>1, ConcatMembers
  <2> QED BY <1>6, <2>1, <2>2, EndsTxConcat
<1>8. /\ Does(a \o b \o x, mem, O, {} \cup {} \cup TC)
      /\ Does(b \o y, mem, O, {} \cup TC)
      /\ Does((l \o b) \o (z \o w), mem, O, RootCells \cup {} \cup TC)
  BY <1>1, <1>2, <1>3, DoesConcat
<1>9. l \o b \o z \o w = (l \o b) \o (z \o w)
  <2>1. /\ l \in Seq(Step) /\ b \in Seq(Step) /\ z \in Seq(Step)
        /\ w \in Seq(Step)
    BY <1>1, <1>2, <1>3 DEF Does
  <2>2. l \o b \in Seq(Step) BY <2>1, ConcatMembers
  <2> QED BY <2>1, <2>2, ConcatAssociative
<1>10. /\ Volatile(cls) => init(c) = ht_dram_init(c)
       /\ cls.medium = "pmem" => init(c) = ht_pmem_init(c)
       /\ cls.medium = "tx" => init(c) = ht_pmem_tx_init(c)
  BY Media DEF init, Volatile
<1>11. \E A \in SUBSET (RootCells \cup TC) :
         Does(init(c), mem, O, A) /\ TC \subseteq A
  <2>1. TC \in SUBSET (RootCells \cup TC)
        /\ RootCells \cup TC \in SUBSET (RootCells \cup TC)
        /\ {} \cup {} \cup TC = TC /\ {} \cup TC = TC
        /\ RootCells \cup {} \cup TC = RootCells \cup TC
        /\ TC \subseteq TC /\ TC \subseteq RootCells \cup TC
    OBVIOUS
  <2> QED BY <1>4, <1>8, <1>9, <1>10, <2>1, Media, Zenon
<1> QED BY <1>4, <1>5, <1>10, <1>11, <1>7 DEF TC, O

\* The table init makes is empty.
NoLists == [i \in Bucket |-> <<>>]

LEMMA OpenedIsEmpty ==
  ASSUME NEW c \in Coeff, NEW T \in Table
  PROVE  LET F == Opened(c, T) IN
         /\ NoLists \in [Bucket -> Seq(Entry)]
         /\ TableMade(F) /\ Linked(F, NoLists) /\ Keyed(F, NoLists)
         /\ Wanted(F, NoLists, [k \in Key |-> {Absent}])
<1> DEFINE F == Opened(c, T)
<1>1. /\ F[<<0, "a">>] = c[1] /\ F[<<0, "b">>] = c[2]
      /\ F[<<0, "buckets">>] = T
  BY Cells, Fields DEF Opened
<1>2. F[<<T, "nbuckets">>] = INIT_BUCKETS_NUM
  BY Cells, Fields DEF Opened
<1>3. ASSUME NEW i \in Bucket PROVE F[<<T, "bucket", i>>] = Zero
  <2>1. /\ <<T, "bucket", i>> \in TableCells(T) /\ TableCells(T) \subseteq Cell
        /\ <<T, "bucket", i>> # <<T, "nbuckets">>
        /\ <<T, "bucket", i>> \notin RootCells
    <3>1. <<T, "bucket", i>> \in TableCells(T) /\ TableCells(T) \subseteq Cell
      BY Cells, Zenon
    <3>2. RootCells \cap TableCells(T) = {} BY Fields, Zenon
    <3>3. <<T, "bucket", i>> # <<T, "nbuckets">> BY Fields, Zenon
    <3> QED BY <3>1, <3>2, <3>3, Zenon
  <2>2. /\ <<T, "bucket", i>> # <<0, "a">> /\ <<T, "bucket", i>> # <<0, "b">>
        /\ <<T, "bucket", i>> # <<0, "buckets">>
    BY <2>1, Cells
  <2> QED BY <2>1, <2>2, Zenon DEF Opened
<1> HIDE DEF F
<1>4. TableMade(F) /\ TableOf(F) = T
  BY <1>1, <1>2, Contents DEF TableMade, TableOf
<1>5. NoLists \in [Bucket -> Seq(Entry)] BY DEF NoLists
<1>6. \A i \in Bucket : NoLists[i] = <<>> /\ DOMAIN NoLists[i] = {}
  BY DEF NoLists
<1>7. Linked(F, NoLists) BY <1>3, <1>4, <1>6 DEF Linked, Ref
<1>8. Keyed(F, NoLists) BY <1>6 DEF Keyed
<1>9. Wanted(F, NoLists, [k \in Key |-> {Absent}])
  <2> SUFFICES ASSUME NEW k \in Key
               PROVE  LET l == NoLists[HashOf(F, k)]
                          hits == {n \in DOMAIN l : F[<<l[n], "key">>] = k}
                      IN /\ hits = {} => Absent \in {Absent}
                         /\ \A n \in hits : F[<<l[n], "value">>] \in {Absent}
    BY DEF Wanted
  <2>1. HashOf(F, k) \in Bucket BY <1>4, Hashes
  <2> QED BY <1>6, <2>1
<1> QED BY <1>4, <1>5, <1>7, <1>8, <1>9 DEF F

\* So is what the process that has started init will have.
LEMMA InitHolds ==
  ASSUME CallInv, NEW c \in Coeff, NewTable \in Table
  PROVE  WillHold(init(c), [k \in Key |-> {Absent}])
<1> DEFINE F == Opened(c, NewTable)  p == init(c)
<1>1. /\ NoLists \in [Bucket -> Seq(Entry)]
      /\ TableMade(F) /\ Linked(F, NoLists) /\ Keyed(F, NoLists)
      /\ Wanted(F, NoLists, [k \in Key |-> {Absent}])
  BY OpenedIsEmpty, Zenon
<1>2. /\ Yields(p, mem, F) /\ TableCells(NewTable) \subseteq ToAllocate(p)
  BY InitDoes DEF Does
<1>3. TableOf(F) = NewTable BY Cells, Fields DEF Opened, TableOf
<1>4. KeptIn(F, NoLists, live \cup ToAllocate(p))
  BY <1>2, <1>3 DEF KeptIn, NoLists
<1> HIDE DEF F, p
<1>5. WillHold(p, [k \in Key |-> {Absent}])
  BY <1>1, <1>2, <1>4, Zenon DEF WillHold, Holds
<1> QED BY <1>5 DEF p

-----------------------------------------------------------------------------
(***************************************************************************)
(* What insert does to the lists.                                          *)
(***************************************************************************)

\* The fields of an entry are no part of the root, of a table or of another.
LEMMA EntryFields ==
  /\ \A e \in Entry, x \in {"key", "value", "next"} :
       /\ <<e, x>> \in Cell /\ <<e, x>> \in EntryCells(e)
       /\ <<e, x>> # <<0, "a">> /\ <<e, x>> # <<0, "b">>
       /\ <<e, x>> # <<0, "buckets">>
       /\ \A o \in Table : /\ <<e, x>> # <<o, "nbuckets">>
                           /\ \A i \in Bucket : <<e, x>> # <<o, "bucket", i>>
  /\ \A e, f : \A x, y : <<e, x>> = <<f, y>> => e = f /\ x = y
<1>1. ASSUME NEW e \in Entry, NEW x \in {"key", "value", "next"}
      PROVE  /\ <<e, x>> \in Cell /\ <<e, x>> \in EntryCells(e)
             /\ <<e, x>> # <<0, "a">> /\ <<e, x>> # <<0, "b">>
             /\ <<e, x>> # <<0, "buckets">>
             /\ \A o \in Table :
                  /\ <<e, x>> # <<o, "nbuckets">>
                  /\ \A i \in Bucket : <<e, x>> # <<o, "bucket", i>>
  <2>1. <<e, x>> \in EntryCells(e) BY DEF EntryCells
  <2>2. EntryCells(e) \subseteq Cell BY Cells, Zenon
  <2>3. RootCells \cap EntryCells(e) = {} BY Fields, Zenon
  <2>4. <<0, "a">> \in RootCells /\ <<0, "b">> \in RootCells
        /\ <<0, "buckets">> \in RootCells
    BY Cells, Zenon
  <2>5. \A o \in Table :
          /\ <<o, "nbuckets">> \in TableCells(o)
          /\ \A i \in Bucket : <<o, "bucket", i>> \in TableCells(o)
          /\ TableCells(o) \cap EntryCells(e) = {}
    BY Cells, Fields, Zenon
  <2> QED BY <2>1, <2>2, <2>3, <2>4, <2>5, Zenon
<1>2. \A e, f : \A x, y : <<e, x>> = <<f, y>> => e = f /\ x = y OBVIOUS
<1> QED BY <1>1, <1>2, Zenon

\* What is wanted once v is written under k.
Rewritten(want, k, v, now) ==
  now[k] = {v} /\ \A l \in Key : l # k => now[l] = want[l]

\* F is the memory with v as the value of the entry e.
Overwrites(F, e, v) ==
  \A d \in Cell : F[d] = IF d = <<e, "value">> THEN v ELSE mem[d]

\* An entry's new value is shown under its key.
LEMMA Overwritten ==
  ASSUME NEW ch, Chained(ch), NEW want, Wanted(mem, ch, want), NEW k \in Key,
         NEW n \in DOMAIN ch[HashOf(mem, k)],
         mem[<<ch[HashOf(mem, k)][n], "key">>] = k, NEW v, NEW F,
         Overwrites(F, ch[HashOf(mem, k)][n], v),
         NEW now, Rewritten(want, k, v, now)
  PROVE  /\ TableMade(F) /\ Linked(F, ch) /\ Keyed(F, ch)
         /\ Wanted(F, ch, now) /\ TableOf(F) = TableOf(mem)
<1> USE DEF Overwrites, Rewritten
<1> DEFINE h == HashOf(mem, k)  e == ch[h][n]
<1>1. h \in Bucket /\ ch[h] \in Seq(Entry) /\ e \in Entry
  BY Hashes, ChainFits DEF Chained
<1>2. TableOf(mem) \in Table BY DEF Chained, TableMade
<1>3. \A d \in Cell : d # <<e, "value">> => F[d] = mem[d] OBVIOUS
<1>4. F[<<e, "value">>] = v BY <1>1, EntryFields
<1> HIDE DEF e, h
<1>5. /\ F[<<0, "a">>] = mem[<<0, "a">>] /\ F[<<0, "b">>] = mem[<<0, "b">>]
      /\ F[<<0, "buckets">>] = mem[<<0, "buckets">>]
  BY <1>1, <1>3, EntryFields, Cells
<1>6. /\ F[<<TableOf(mem), "nbuckets">>] = mem[<<TableOf(mem), "nbuckets">>]
      /\ \A i \in Bucket : F[<<TableOf(mem), "bucket", i>>]
                             = mem[<<TableOf(mem), "bucket", i>>]
  BY <1>1, <1>2, <1>3, EntryFields, Cells
<1>7. \A f \in Entry : /\ F[<<f, "key">>] = mem[<<f, "key">>]
                       /\ F[<<f, "next">>] = mem[<<f, "next">>]
                       /\ f # e => F[<<f, "value">>] = mem[<<f, "value">>]
  BY <1>3, EntryFields
<1>8. TableOf(F) = TableOf(mem) /\ \A l : HashOf(F, l) = HashOf(mem, l)
  BY <1>5 DEF TableOf, HashOf
<1>9. TableMade(F) BY <1>5, <1>6, <1>8 DEF TableMade, Chained
<1>10. \A i \in Bucket : \A m \in DOMAIN ch[i] : ch[i][m] \in Entry
  BY ChainFits
<1>11. Linked(F, ch) BY <1>6, <1>7, <1>8, <1>10 DEF Linked, Chained
<1>12. Keyed(F, ch)
  <2>1. ASSUME NEW i \in Bucket, NEW m \in DOMAIN ch[i]
        PROVE  LET l == F[<<ch[i][m], "key">>] IN
               /\ l \in Key /\ HashOf(F, l) = i
               /\ \A x \in DOMAIN ch[i] : F[<<ch[i][x], "key">>] = l => x = m
    <3> DEFINE l == mem[<<ch[i][m], "key">>]
    <3>1. /\ l \in Key /\ HashOf(mem, l) = i
          /\ \A x \in DOMAIN ch[i] : mem[<<ch[i][x], "key">>] = l => x = m
      BY Zenon DEF Keyed, Chained
    <3>2. \A x \in DOMAIN ch[i] : F[<<ch[i][x], "key">>] = mem[<<ch[i][x], "key">>]
      BY <1>7, <1>10, Zenon
    <3> QED BY <1>8, <3>1, <3>2, Zenon
  <2> QED BY <2>1, Zenon DEF Keyed
<1>13. Wanted(F, ch, now)
  <2>1. ASSUME NEW l \in Key
        PROVE  LET c == ch[HashOf(F, l)]
                   hits == {x \in DOMAIN c : F[<<c[x], "key">>] = l}
               IN /\ hits = {} => Absent \in now[l]
                  /\ \A x \in hits : F[<<c[x], "value">>] \in now[l]
    <3> DEFINE c == ch[HashOf(mem, l)]
               hits == {x \in DOMAIN c : mem[<<c[x], "key">>] = l}
    <3>1. HashOf(mem, l) \in Bucket BY Hashes DEF Chained
    <3>2. /\ hits = {} => Absent \in want[l]
          /\ \A x \in hits : mem[<<c[x], "value">>] \in want[l]
      BY Zenon DEF Wanted
    <3>3. \A x \in DOMAIN c : /\ c[x] \in Entry
                              /\ F[<<c[x], "key">>] = mem[<<c[x], "key">>]
      BY <1>7, <1>10, <3>1, Zenon
    <3>4. hits = {x \in DOMAIN c : F[<<c[x], "key">>] = l} BY <3>3
    <3>5. ch[HashOf(F, l)] = c BY <1>8
    <3>6. CASE l = k
      <4>1. c = ch[h] /\ n \in hits BY <3>6 DEF h
      <4>2. \A x \in hits : x = n
        <5>1. n \in DOMAIN ch[h] /\ mem[<<ch[h][n], "key">>] = k BY DEF h
        <5>2. \A x \in DOMAIN ch[h] : mem[<<ch[h][x], "key">>] = k => x = n
          BY <1>1, <5>1, Zenon DEF Chained, Keyed
        <5> QED BY <3>6, <4>1, <5>2
      <4>3. c[n] = e BY <4>1 DEF e
      <4> HIDE DEF c, hits
      <4>4. \A x \in hits : F[<<c[x], "value">>] \in now[l]
        BY <1>4, <3>6, <4>2, <4>3
      <4> QED BY <3>4, <3>5, <4>1, <4>4 DEF c
    <3>7. CASE l # k
      <4>1. \A x \in hits : c[x] # e
        <5> SUFFICES ASSUME NEW x \in hits, c[x] = e PROVE FALSE OBVIOUS
        <5>1. mem[<<e, "key">>] = l OBVIOUS
        <5>2. mem[<<e, "key">>] = k BY DEF e, h
        <5> QED BY <3>7, <5>1, <5>2
      <4>2. \A x \in hits : F[<<c[x], "value">>] = mem[<<c[x], "value">>]
        BY <1>7, <3>3, <4>1
      <4>3. now[l] = want[l] BY <3>7
      <4> HIDE DEF c, hits
      <4> QED BY <3>2, <3>4, <3>5, <4>2, <4>3 DEF c
    <3> QED BY <3>6, <3>7
  <2> QED BY <2>1, Zenon DEF Wanted
<1> QED BY <1>8, <1>9, <1>11, <1>12, <1>13

\* A new entry is in front of the list of its key's bucket.
Misses(ch, k) ==
  \A n \in DOMAIN ch[HashOf(mem, k)] : mem[<<ch[HashOf(mem, k)][n], "key">>] # k

Unused(ch, e) == \A j \in Bucket : \A n \in DOMAIN ch[j] : ch[j][n] # e

Grows(F, e, k, v, i) ==
  /\ F[<<e, "key">>] = k /\ F[<<e, "value">>] = v
  /\ F[<<e, "next">>] = mem[BucketCell(i)] /\ F[BucketCell(i)] = e
  /\ \A d \in Cell : d \notin EntryCells(e) /\ d # BucketCell(i)
                       => F[d] = mem[d]

LEMMA Inserted ==
  ASSUME NEW ch, Chained(ch), NEW want, Wanted(mem, ch, want), NEW k \in Key,
         Misses(ch, k), NEW e \in Entry, Unused(ch, e), NEW v, NEW F,
         Grows(F, e, k, v, HashOf(mem, k)),
         NEW now, Rewritten(want, k, v, now)
  PROVE  \E cn \in [Bucket -> Seq(Entry)] :
           /\ TableMade(F) /\ Linked(F, cn) /\ Keyed(F, cn)
           /\ Wanted(F, cn, now) /\ TableOf(F) = TableOf(mem)
           /\ \A j \in Bucket : \A n \in DOMAIN cn[j] :
                cn[j][n] = e \/ \E m \in DOMAIN ch[j] : cn[j][n] = ch[j][m]
<1> USE DEF Misses, Unused, Grows, Rewritten
<1> DEFINE h == HashOf(mem, k)  T == TableOf(mem)  c == ch[h]
           cn == [j \in Bucket |-> IF j = h THEN <<e>> \o c ELSE ch[j]]
<1>1. h \in Bucket /\ T \in Table /\ TableP = T
  BY Hashes DEF Chained, TableMade, TableP, TableOf
<1>2. \A j \in Bucket : /\ ch[j] \in Seq(Entry) /\ Len(ch[j]) \in Nat
                        /\ DOMAIN ch[j] = 1..Len(ch[j])
                        /\ \A n \in DOMAIN ch[j] : ch[j][n] \in Entry
  BY ChainFits
<1>3. BucketCell(h) = <<T, "bucket", h>> BY <1>1 DEF BucketCell
<1>4. \A f \in Entry, x \in {"key", "value", "next"} :
        f # e => F[<<f, x>>] = mem[<<f, x>>]
  <2> TAKE f \in Entry, x \in {"key", "value", "next"}
  <2> HAVE f # e
  <2>1. /\ <<f, x>> \in Cell /\ <<f, x>> # <<T, "bucket", h>>
        /\ <<f, x>> \in EntryCells(f)
    BY <1>1, EntryFields, Zenon
  <2>2. <<f, x>> \notin EntryCells(e) BY <2>1, Fields
  <2> QED BY <1>3, <2>1, <2>2
<1>5. \A d \in Cell : d \in RootCells \cup TableCells(T) /\ d # <<T, "bucket", h>>
                        => F[d] = mem[d]
  BY <1>1, <1>3, Fields
<1> HIDE DEF h, T, c
<1>6. /\ F[<<0, "a">>] = mem[<<0, "a">>] /\ F[<<0, "b">>] = mem[<<0, "b">>]
      /\ F[<<0, "buckets">>] = mem[<<0, "buckets">>]
  <2>1. RootCells \cap TableCells(T) = {} /\ <<T, "bucket", h>> \in TableCells(T)
    BY <1>1, Fields, Cells, Zenon
  <2> QED BY <1>1, <1>5, <2>1, Cells
<1>7. /\ F[<<T, "nbuckets">>] = mem[<<T, "nbuckets">>]
      /\ \A j \in Bucket : j # h => F[<<T, "bucket", j>>] = mem[<<T, "bucket", j>>]
  <2>1. <<T, "bucket", h>> # <<T, "nbuckets">> BY <1>1, Fields, Zenon
  <2>2. \A j : <<T, "bucket", j>> = <<T, "bucket", h>> => j = h OBVIOUS
  <2>3. /\ TableCells(T) \subseteq Cell /\ <<T, "nbuckets">> \in TableCells(T)
        /\ \A j \in Bucket : <<T, "bucket", j>> \in TableCells(T)
    BY <1>1, Cells, Zenon
  <2> QED BY <1>5, <2>1, <2>2, <2>3
<1>8. TableOf(F) = T /\ \A l : HashOf(F, l) = HashOf(mem, l)
  BY <1>6 DEF TableOf, HashOf, T
<1>9. TableMade(F)
  BY <1>6, <1>7, <1>8 DEF TableMade, Chained, T
<1>10. /\ cn \in [Bucket -> Seq(Entry)] /\ DOMAIN cn[h] = 1..(Len(c) + 1)
       /\ cn[h][1] = e
       /\ \A n \in DOMAIN c : n + 1 \in DOMAIN cn[h] /\ cn[h][n + 1] = c[n]
       /\ \A n \in DOMAIN cn[h] : n = 1 \/ (n # 1 /\ n - 1 \in DOMAIN c
                                                /\ cn[h][n] = c[n - 1])
       /\ \A j \in Bucket : j # h => cn[j] = ch[j]
  <2> DEFINE r == <<e>> \o c
  <2>2. c \in Seq(Entry) BY <1>1, <1>2 DEF c
  <2>5. /\ r \in Seq(Entry) /\ DOMAIN r = 1..(Len(c) + 1) /\ r[1] = e
        /\ \A n \in DOMAIN c : n + 1 \in DOMAIN r /\ r[n + 1] = c[n]
        /\ \A n \in DOMAIN r : n = 1 \/ (n # 1 /\ n - 1 \in DOMAIN c
                                             /\ r[n] = c[n - 1])
    BY <2>2, ConsIs
  <2> HIDE DEF r
  <2>6. cn[h] = r BY <1>1 DEF r
  <2>7. cn \in [Bucket -> Seq(Entry)] BY <1>2, <2>5 DEF r
  <2>8. \A j \in Bucket : j # h => cn[j] = ch[j] OBVIOUS
  <2> HIDE DEF cn
  <2> QED BY <2>5, <2>6, <2>7, <2>8
<1> HIDE DEF cn
<1>11. \A j \in Bucket : \A n \in DOMAIN cn[j] :
         cn[j][n] = e \/ \E m \in DOMAIN ch[j] : cn[j][n] = ch[j][m]
  <2> TAKE j \in Bucket
  <2> TAKE n \in DOMAIN cn[j]
  <2>1. CASE j # h BY <1>10, <2>1
  <2>2. CASE j = h BY <1>10, <2>2 DEF c
  <2> QED BY <2>1, <2>2
<1>12. \A j \in Bucket : \A n \in DOMAIN ch[j] :
         /\ ch[j][n] \in Entry /\ ch[j][n] # e
         /\ F[<<ch[j][n], "key">>] = mem[<<ch[j][n], "key">>]
         /\ F[<<ch[j][n], "value">>] = mem[<<ch[j][n], "value">>]
         /\ F[<<ch[j][n], "next">>] = mem[<<ch[j][n], "next">>]
  BY <1>2, <1>4
<1>13. /\ \A j \in Bucket : mem[<<T, "bucket", j>>] = Ref(ch[j], 1)
       /\ \A j \in Bucket : \A n \in DOMAIN ch[j] :
            mem[<<ch[j][n], "next">>] = Ref(ch[j], n + 1)
  BY DEF Chained, Linked, T
<1>14. Linked(F, cn)
  <2> SUFFICES ASSUME NEW j \in Bucket
               PROVE  /\ F[<<T, "bucket", j>>] = Ref(cn[j], 1)
                      /\ \A n \in DOMAIN cn[j] :
                           F[<<cn[j][n], "next">>] = Ref(cn[j], n + 1)
    BY <1>8 DEF Linked
  <2>1. CASE j # h
    <3>1. cn[j] = ch[j] BY <1>10, <2>1
    <3>2. F[<<T, "bucket", j>>] = Ref(ch[j], 1) BY <1>7, <1>13, <2>1
    <3>3. \A n \in DOMAIN ch[j] : F[<<ch[j][n], "next">>] = Ref(ch[j], n + 1)
      BY <1>12, <1>13, Zenon
    <3> QED BY <3>1, <3>2, <3>3
  <2>2. CASE j = h
    <3>1. F[<<T, "bucket", h>>] = e BY <1>3 DEF h
    <3>2. 1 \in DOMAIN cn[h] /\ Ref(cn[h], 1) = e BY <1>1, <1>2, <1>10 DEF Ref, c
    <3>3. \A n \in Nat : Ref(cn[h], n + 2) = Ref(c, n + 1)
      BY <1>1, <1>2, <1>10 DEF Ref, c
    <3>4. ASSUME NEW n \in DOMAIN cn[h]
          PROVE  F[<<cn[h][n], "next">>] = Ref(cn[h], n + 1)
      <4>1. CASE n = 1
        <5>1. F[<<e, "next">>] = Ref(c, 1)
          BY <1>1, <1>3, <1>13 DEF h, c
        <5>2. Ref(cn[h], 2) = Ref(c, 1)
          <6>1. 0 \in Nat /\ 0 + 2 = 2 /\ 0 + 1 = 1 OBVIOUS
          <6> QED BY <3>3, <6>1
        <5>3. cn[h][n] = e /\ n + 1 = 2 BY <1>10, <4>1
        <5> QED BY <5>1, <5>2, <5>3, Zenon
      <4>2. CASE n # 1
        <5> DEFINE m == n - 1
        <5>1. m \in DOMAIN c /\ cn[h][n] = c[m] BY <1>10, <4>2
        <5>2. m \in Nat /\ n \in Nat /\ m + 1 = n
          <6>1. Len(c) \in Nat BY <1>1, <1>2 DEF c
          <6> QED BY <1>10, <4>2, <6>1
        <5> HIDE DEF m
        <5>4. F[<<c[m], "next">>] = Ref(c, m + 1)
          BY <1>1, <1>12, <1>13, <5>1 DEF c
        <5>5. n + 1 = m + 2 BY <5>2
        <5>6. Ref(cn[h], n + 1) = Ref(c, m + 1) BY <3>3, <5>2, <5>5
        <5> QED BY <5>1, <5>4, <5>6
      <4> QED BY <4>1, <4>2
    <3> QED BY <2>2, <3>1, <3>2, <3>4
  <2> QED BY <2>1, <2>2
<1>15. \A j \in Bucket : \A n \in DOMAIN ch[j] :
         LET l == mem[<<ch[j][n], "key">>] IN
         /\ l \in Key /\ HashOf(mem, l) = j
         /\ \A m \in DOMAIN ch[j] : mem[<<ch[j][m], "key">>] = l => m = n
  BY Zenon DEF Chained, Keyed
<1>16. \A n \in DOMAIN c : mem[<<c[n], "key">>] # k BY DEF c, h
<1>17. F[<<e, "key">>] = k /\ F[<<e, "value">>] = v /\ k \in Key
       /\ HashOf(F, k) = h
  BY <1>8 DEF h
<1>18. Keyed(F, cn)
  <2>1. ASSUME NEW j \in Bucket, NEW n \in DOMAIN cn[j]
        PROVE  LET l == F[<<cn[j][n], "key">>] IN
               /\ l \in Key /\ HashOf(F, l) = j
               /\ \A m \in DOMAIN cn[j] : F[<<cn[j][m], "key">>] = l => m = n
    <3>1. CASE j # h
      <4>1. cn[j] = ch[j] BY <1>10, <3>1
      <4>2. \A m \in DOMAIN ch[j] : F[<<ch[j][m], "key">>] = mem[<<ch[j][m], "key">>]
        BY <1>12
      <4> DEFINE l == mem[<<ch[j][n], "key">>]
      <4>3. /\ l \in Key /\ HashOf(mem, l) = j
            /\ \A m \in DOMAIN ch[j] : mem[<<ch[j][m], "key">>] = l => m = n
        BY <1>15, <4>1, Zenon
      <4>4. F[<<cn[j][n], "key">>] = l BY <4>1, <4>2
      <4> HIDE DEF l
      <4> QED BY <1>8, <4>1, <4>2, <4>3, <4>4
    <3>2. CASE j = h
      <4>0. \A m \in DOMAIN c : F[<<c[m], "key">>] = mem[<<c[m], "key">>]
        BY <1>1, <1>12 DEF c
      <4>1. \A m \in DOMAIN cn[h] :
              \/ m = 1 /\ F[<<cn[h][m], "key">>] = k
              \/ /\ m # 1 /\ m - 1 \in DOMAIN c
                 /\ F[<<cn[h][m], "key">>] = mem[<<c[m - 1], "key">>]
                 /\ F[<<cn[h][m], "key">>] # k
        <5> TAKE m \in DOMAIN cn[h]
        <5>1. CASE m = 1 BY <1>10, <1>17, <5>1
        <5>2. CASE m # 1
          <6>1. m - 1 \in DOMAIN c /\ cn[h][m] = c[m - 1] BY <1>10, <5>2
          <6> QED BY <1>16, <4>0, <5>2, <6>1
        <5> QED BY <5>1, <5>2
      <4>2. CASE n = 1 BY <1>17, <3>2, <4>1, <4>2
      <4>3. CASE n # 1
        <5> DEFINE a == n - 1  l == mem[<<c[a], "key">>]
        <5>1. a \in DOMAIN c /\ F[<<cn[h][n], "key">>] = l /\ l # k
          BY <3>2, <4>1, <4>3
        <5> HIDE DEF a
        <5>2. /\ l \in Key /\ HashOf(mem, l) = h
              /\ \A m \in DOMAIN c : mem[<<c[m], "key">>] = l => m = a
          BY <1>1, <1>15, <5>1, Zenon DEF c
        <5> HIDE DEF l
        <5>3. ASSUME NEW m \in DOMAIN cn[h], F[<<cn[h][m], "key">>] = l
              PROVE  m = n
          <6> DEFINE b == m - 1
          <6>1. m # 1 /\ b \in DOMAIN c /\ mem[<<c[b], "key">>] = l
            BY <4>1, <5>1, <5>3
          <6> HIDE DEF b
          <6>2. b = a BY <5>2, <6>1
          <6>3. n \in Nat /\ m \in Nat BY <1>1, <1>2, <1>10, <3>2 DEF c
          <6> QED BY <6>2, <6>3 DEF a, b
        <5> QED BY <1>8, <3>2, <5>1, <5>2, <5>3
      <4> QED BY <4>2, <4>3
    <3> QED BY <3>1, <3>2
  <2> QED BY <2>1, Zenon DEF Keyed
<1>19. Wanted(F, cn, now)
  <2>1. ASSUME NEW l \in Key
        PROVE  LET s == cn[HashOf(F, l)]
                   hits == {x \in DOMAIN s : F[<<s[x], "key">>] = l}
               IN /\ hits = {} => Absent \in now[l]
                  /\ \A x \in hits : F[<<s[x], "value">>] \in now[l]
    <3> DEFINE g == HashOf(mem, l)  s == cn[g]
               old == {x \in DOMAIN ch[g] : mem[<<ch[g][x], "key">>] = l}
               hits == {x \in DOMAIN s : F[<<s[x], "key">>] = l}
    <3>1. g \in Bucket /\ HashOf(F, l) = g BY <1>8, Hashes DEF Chained
    <3>2. /\ old = {} => Absent \in want[l]
          /\ \A x \in old : mem[<<ch[g][x], "value">>] \in want[l]
      BY Zenon DEF Wanted
    <3> HIDE DEF g
    <3>3. CASE l = k
      <4>1. g = h BY <3>3 DEF g, h
      <4>2. 1 \in hits
        <5>1. Len(c) \in Nat BY <1>1, <1>2 DEF c
        <5>2. 1 \in DOMAIN cn[h] BY <1>10, <5>1
        <5> QED BY <1>10, <1>17, <3>3, <4>1, <5>2
      <4>3. \A x \in hits : s[x] = e
        <5> SUFFICES ASSUME NEW x \in hits, x # 1 PROVE FALSE
          BY <1>10, <4>1
        <5> DEFINE a == x - 1
        <5>1. x \in DOMAIN cn[h] /\ F[<<cn[h][x], "key">>] = k BY <3>3, <4>1
        <5>2. a \in DOMAIN c /\ cn[h][x] = c[a] BY <1>10, <5>1
        <5> HIDE DEF a
        <5>3. mem[<<ch[h][a], "key">>] # k BY <1>16, <5>2 DEF c
        <5>4. F[<<ch[h][a], "key">>] = mem[<<ch[h][a], "key">>]
          BY <1>1, <1>12, <5>2, Zenon DEF c
        <5> QED BY <5>1, <5>2, <5>3, <5>4 DEF c
      <4> QED BY <1>17, <3>1, <3>3, <4>2, <4>3
    <3>4. CASE l # k
      <4>1. now[l] = want[l] BY <3>4
      <4>2. CASE g # h
        <5>1. s = ch[g] BY <1>10, <3>1, <4>2
        <5>2. \A x \in DOMAIN ch[g] :
                /\ F[<<ch[g][x], "key">>] = mem[<<ch[g][x], "key">>]
                /\ F[<<ch[g][x], "value">>] = mem[<<ch[g][x], "value">>]
          BY <1>12, <3>1
        <5> HIDE DEF s
        <5>3. old = hits
          <6>1. hits = {x \in DOMAIN ch[g] : F[<<ch[g][x], "key">>] = l}
            BY <5>1
          <6> QED BY <5>2, <6>1
        <5>4. \A x \in old : F[<<ch[g][x], "value">>] = mem[<<ch[g][x], "value">>]
          BY <5>2
        <5>5. \A x \in hits : F[<<s[x], "value">>] \in now[l]
          BY <3>2, <4>1, <5>1, <5>3, <5>4
        <5> QED BY <3>1, <3>2, <4>1, <5>3, <5>5 DEF s
      <4>3. CASE g = h
        <5>0. \A y \in DOMAIN c :
                /\ F[<<c[y], "key">>] = mem[<<c[y], "key">>]
                /\ F[<<c[y], "value">>] = mem[<<c[y], "value">>]
          BY <1>1, <1>12 DEF c
        <5>1. ASSUME NEW x \in hits
              PROVE  \E y \in old : F[<<s[x], "value">>] = mem[<<c[y], "value">>]
          <6> DEFINE a == x - 1
          <6>1. x \in DOMAIN cn[h] /\ F[<<cn[h][x], "key">>] = l BY <4>3
          <6>2. x # 1 BY <1>10, <1>17, <3>4, <6>1
          <6>3. a \in DOMAIN c /\ cn[h][x] = c[a] BY <1>10, <6>1, <6>2
          <6> HIDE DEF a
          <6>4. a \in old BY <4>3, <5>0, <6>1, <6>3 DEF c
          <6> QED BY <4>3, <5>0, <6>3, <6>4
        <5>2. \A y \in old : \E x \in hits : TRUE
          <6> TAKE y \in old
          <6>1. y \in DOMAIN c /\ mem[<<c[y], "key">>] = l BY <4>3 DEF c
          <6>2. y + 1 \in DOMAIN cn[h] /\ cn[h][y + 1] = c[y] BY <1>10, <6>1
          <6>3. y + 1 \in hits BY <4>3, <5>0, <6>1, <6>2
          <6> QED BY <6>3
        <5>3. \A y \in old : mem[<<c[y], "value">>] \in want[l]
          BY <3>2, <4>3 DEF c
        <5> HIDE DEF old, hits, s
        <5>4. hits = {} => Absent \in now[l] BY <3>2, <4>1, <5>2
        <5>5. \A x \in hits : F[<<s[x], "value">>] \in now[l]
          BY <4>1, <5>1, <5>3
        <5> QED BY <3>1, <5>4, <5>5 DEF hits, s
      <4> QED BY <4>2, <4>3
    <3> QED BY <3>3, <3>4
  <2> QED BY <2>1, Zenon DEF Wanted
<1> QED BY <1>8, <1>9, <1>10, <1>11, <1>14, <1>18, <1>19 DEF T

-----------------------------------------------------------------------------
(***************************************************************************)
(* The programs of insert.                                                 *)
(***************************************************************************)
\* The memory with the entry e for k and v in front of bucket i.
Grown(e, k, v, i) ==
  [d \in Cell |->
     IF d = <<e, "key">> THEN k
     ELSE IF d = <<e, "value">> THEN v
     ELSE IF d = <<e, "next">> THEN mem[BucketCell(i)]
     ELSE IF d = BucketCell(i) THEN e ELSE mem[d]]

\* The steps that fill the entry: in one piece, or with the entry that is lost.
LEMMA FillDoes ==
  ASSUME MemoryTypeOK, TableP \in Table, NEW e \in Entry, NEW k \in Key,
         NEW v \in Value, NEW i \in Bucket, NEW lost \in Entry
  PROVE  LET E == EntryCells(e)  L == EntryCells(lost)
             n == <<e, "next">>  b == BucketCell(i)
             old == mem[BucketCell(i)]
             a == <<Al(E), St(<<e, "key">>, k)>> IN
         /\ Does(Fill(e, k, v, i), mem, Grown(e, k, v, i), {})
         /\ \A j \in DOMAIN Fill(e, k, v, i) :
              /\ Fill(e, k, v, i)[j].op = "store"
              /\ Fill(e, k, v, i)[j].c \in E \cup {b}
         /\ Does(a \o Cp(<<e, "value">>, v)
                 \o <<Al(L), St(n, lost), St(n, old), St(b, e)>>,
                 mem, Grown(e, k, v, i), E \cup L)
<1> DEFINE E == EntryCells(e)  L == EntryCells(lost)  val == <<e, "value">>
           n == <<e, "next">>  b == BucketCell(i)  key == <<e, "key">>
           old == mem[b]  c == Cp(val, v)
           s == St(key, k)  x == St(n, lost)  y == St(n, old)  z == St(b, e)
           m1 == Put(mem, key, k)  m2 == Put(m1, val, v)
           G == Grown(e, k, v, i)
<1>1. /\ key \in Cell /\ val \in Cell /\ n \in Cell /\ b \in Cell
      /\ E \in SUBSET Cell /\ L \in SUBSET Cell
      /\ key \in E /\ val \in E /\ n \in E
  BY Cells, EntryFields DEF BucketCell
<1>2. key # val /\ key # n /\ val # n /\ b # key /\ b # val /\ b # n
  BY EntryFields, Fields DEF BucketCell
<1>3. /\ old \in Value /\ e \in Value /\ k \in Value /\ lost \in Value
  BY <1>1, Contents DEF MemoryTypeOK
<1>4. \A d \in Cell : G[d] = IF d = key THEN k ELSE IF d = val THEN v
                             ELSE IF d = n THEN old ELSE IF d = b THEN e
                             ELSE mem[d]
  BY DEF Grown
<1>5. /\ \A d \in Cell : m1[d] = IF d = key THEN k ELSE mem[d]
      /\ \A d \in Cell : m2[d] = IF d = val THEN v ELSE m1[d]
  BY DEF Put
<1>6. Does(c, m1, m2, {}) /\ c \in Seq(Step)
      /\ \A j \in DOMAIN c : c[j].op = "store" /\ c[j].c = val
  BY <1>1, CopyDoes, Contents DEF Does
<1>7. Fill(e, k, v, i) = <<s>> \o c \o <<y, z>> BY DEF Fill
<1>8. /\ s \in Step /\ x \in Step /\ y \in Step /\ z \in Step
      /\ Al(E) \in Step /\ Al(L) \in Step
  BY <1>1, <1>3, StepKinds
<1>9. /\ Releases(s) = {} /\ Releases(x) = {} /\ Releases(y) = {}
      /\ Releases(z) = {} /\ Releases(Al(E)) = {} /\ Releases(Al(L)) = {}
  BY DEF Releases, St, Al
<1>10. /\ Allocates(s) = {} /\ Allocates(x) = {} /\ Allocates(y) = {}
       /\ Allocates(z) = {} /\ Allocates(Al(E)) = E /\ Allocates(Al(L)) = L
  BY StepLogs
<1>11. \A d, w : /\ After(s, d, w) = IF d = key THEN k ELSE w
                 /\ After(x, d, w) = IF d = n THEN lost ELSE w
                 /\ After(y, d, w) = IF d = n THEN old ELSE w
                 /\ After(z, d, w) = IF d = b THEN e ELSE w
                 /\ After(Al(E), d, w) = w /\ After(Al(L), d, w) = w
  BY StepAssigns DEF After
<1>12. /\ s.op = "store" /\ s.c = key /\ y.op = "store" /\ y.c = n
       /\ z.op = "store" /\ z.c = b
  BY DEF St
<1> HIDE DEF E, L, key, val, n, b, old, c, s, x, y, z, m1, m2, G
<1>13. Does(<<s>>, mem, m1, {})
  <2>1. \A d \in Cell : m1[d] = After(s, d, mem[d]) BY <1>5, <1>11
  <2>2. Does(<<s>>, mem, m1, Allocates(s)) BY <1>8, <1>9, <2>1, DoesOne
  <2> QED BY <1>10, <2>2
<1>14. Does(<<y, z>>, m2, G, {})
  <2>1. \A d \in Cell : G[d] = After(z, d, After(y, d, m2[d]))
    BY <1>2, <1>4, <1>5, <1>11
  <2>2. Does(<<y, z>>, m2, G, Allocates(y) \cup Allocates(z))
    BY <1>8, <1>9, <2>1, DoesTwo
  <2> QED BY <1>10, <2>2
<1>15. Does(<<s>> \o c \o <<y, z>>, mem, G, {})
  <2>1. Does(<<s>> \o c \o <<y, z>>, mem, G, {} \cup {} \cup {})
    BY <1>6, <1>13, <1>14, DoesConcat
  <2> QED BY <2>1
<1>16. Does(<<Al(E), s>>, mem, m1, E)
  <2>1. \A d \in Cell : m1[d] = After(s, d, After(Al(E), d, mem[d]))
    BY <1>5, <1>11
  <2>2. Does(<<Al(E), s>>, mem, m1, Allocates(Al(E)) \cup Allocates(s))
    BY <1>8, <1>9, <2>1, DoesTwo
  <2> QED BY <1>10, <2>2
<1>17. Does(<<Al(L), x, y, z>>, m2, G, L)
  <2>1. \A d \in Cell :
          G[d] = After(z, d, After(y, d, After(x, d, After(Al(L), d, m2[d]))))
    BY <1>2, <1>4, <1>5, <1>11
  <2>2. Does(<<Al(L), x, y, z>>, m2, G,
             Allocates(Al(L)) \cup Allocates(x)
               \cup (Allocates(y) \cup Allocates(z)))
    BY <1>8, <1>9, <2>1, DoesFour
  <2> QED BY <1>10, <2>2
<1>18. Does(<<Al(E), s>> \o c \o <<Al(L), x, y, z>>, mem, G, E \cup L)
  <2>1. Does(<<Al(E), s>> \o c \o <<Al(L), x, y, z>>, mem, G, E \cup {} \cup L)
    BY <1>6, <1>16, <1>17, DoesConcat
  <2>2. E \cup {} \cup L = E \cup L OBVIOUS
  <2> QED BY <2>1, <2>2, Zenon
<1>19. \A j \in DOMAIN (<<s>> \o c \o <<y, z>>) :
         /\ (<<s>> \o c \o <<y, z>>)[j].op = "store"
         /\ (<<s>> \o c \o <<y, z>>)[j].c \in E \cup {b}
  <2> DEFINE U == {u \in Step : u.op = "store" /\ u.c \in E \cup {b}}
             p == <<s>>  q == <<y, z>>  r == (p \o c) \o q
  <2>1. s \in U /\ y \in U /\ z \in U BY <1>1, <1>8, <1>12
  <2>2. \A j \in DOMAIN c : c[j] \in U BY <1>1, <1>6
  <2> HIDE DEF U
  <2>3. p \in Seq(U) /\ q \in Seq(U) BY <2>1
  <2>4. c \in Seq(U) BY <1>6, <2>2
  <2>5. r \in Seq(U) BY <2>3, <2>4, ConcatProperties
  <2> HIDE DEF r
  <2>6. \A j \in DOMAIN r : r[j] \in U BY <2>5, LenProperties
  <2>7. \A j \in DOMAIN r : r[j].op = "store" /\ r[j].c \in E \cup {b}
    BY <2>6 DEF U
  <2> QED BY <2>7 DEF r
<1> QED BY <1>7, <1>15, <1>18, <1>19
        DEF E, L, key, val, n, b, old, c, s, x, y, z, G

\* The key has an entry: its value is overwritten.
LEMMA InsertHit ==
  ASSUME CallInv, NEW k \in Key, NEW v \in Val, FirstHit(k) \in Entry,
         Hits(k) # {}
  PROVE  LET e == FirstHit(k) IN
         /\ Does(insert(k, v), mem, Put(mem, <<e, "value">>, v), {})
         /\ cls.medium = "tx" =>
              EndsTx(insert(k, v)) /\ \A L : LogsFirst(insert(k, v), L)
<1> DEFINE e == FirstHit(k)  c == <<e, "value">>  E == EntryCells(e)
           F == Put(mem, c, v)  a == <<Bg, Sn(E)>>  z == <<Cm>>
<1>1. c \in Cell /\ E \in SUBSET Cell /\ c \in E /\ v \in Value
  BY Cells, EntryFields, Contents
<1>2. /\ Does(Cp(c, v), mem, F, {}) /\ Does(CpFl(c, v), mem, F, {})
      /\ \A j \in DOMAIN Cp(c, v) : Cp(c, v)[j].op = "store" /\ Cp(c, v)[j].c = c
  BY <1>1, CopyDoes, Contents
<1>3. Does(a, mem, mem, {}) /\ Does(z, F, F, {})
  BY <1>1, Beginning
<1>4. /\ a \in Seq(Step) /\ z \in Seq(Step) /\ \A L : LogsFirst(z, L)
      /\ \A r \in Seq(Step) : EndsTx(r \o z)
      /\ E \subseteq ToLog(a)
      /\ \A j \in DOMAIN a : a[j].op \in {"tx_begin", "tx_add_range", "tx_alloc"}
  BY <1>1, TxParts
<1>5. /\ Volatile(cls) => insert(k, v) = Cp(c, v)
      /\ cls.medium = "pmem" => insert(k, v) = CpFl(c, v)
      /\ cls.medium = "tx" => insert(k, v) = a \o Cp(c, v) \o z
  BY Media DEF insert, ht_dram_insert, ht_pmem_insert, ht_pmem_tx_insert, Volatile
<1> HIDE DEF a, z, c, E, F
<1>6. Does(a \o Cp(c, v) \o z, mem, F, {})
  <2>1. Does(a \o Cp(c, v) \o z, mem, F, {} \cup {} \cup {})
    BY <1>2, <1>3, DoesConcat
  <2> QED BY <2>1
<1>7. \A L : LogsFirst(a \o Cp(c, v) \o z, L)
  <2>1. Cp(c, v) \in Seq(Step) BY <1>2 DEF Does
  <2> DEFINE q == Cp(c, v)
  <2>2. \A j \in DOMAIN q : /\ q[j].op \in {"store", "tx_free"}
                            /\ q[j].op = "store" => q[j].c \in E
    BY <1>1, <1>2
  <2> HIDE DEF q
  <2>3. LogsFirst(z, E) BY <1>4
  <2>4. \A L : LogsFirst(a \o q \o z, L)
    BY <1>4, <2>1, <2>2, <2>3, TransactionIs DEF q
  <2> QED BY <2>4 DEF q
<1>8. Does(insert(k, v), mem, F, {}) BY <1>2, <1>5, <1>6, Media, Zenon
<1>9. EndsTx(a \o Cp(c, v) \o z)
  <2>1. Cp(c, v) \in Seq(Step) BY <1>2 DEF Does
  <2>2. a \o Cp(c, v) \in Seq(Step) BY <1>4, <2>1, ConcatMembers
  <2> QED BY <1>4, <2>2
<1>10. cls.medium = "tx" =>
         EndsTx(insert(k, v)) /\ \A L : LogsFirst(insert(k, v), L)
  BY <1>5, <1>7, <1>9, Zenon
<1> QED BY <1>8, <1>10 DEF F, c, e

\* It has none: an entry for it is put in front of its bucket, and the dram
\* classes allocate another one.
LEMMA InsertMiss ==
  ASSUME CallInv, MemoryTypeOK, TableP \in Table, NEW k \in Key, NEW v \in Val,
         hash_function(k) \in Bucket, Hits(k) = {}, HasRoom
  PROVE  \E e \in Entry, A \in SUBSET Cell :
           /\ EntryCells(e) \cap live = {} /\ EntryCells(e) \subseteq A
           /\ \A o \in Table : TableCells(o) \cap A = {}
           /\ Does(insert(k, v), mem, Grown(e, k, v, hash_function(k)), A)
           /\ cls.medium = "tx" =>
                EndsTx(insert(k, v)) /\ \A L : LogsFirst(insert(k, v), L)
<1> DEFINE e == NewEntry  lost == Min(FreeEntries \ {e})  i == hash_function(k)
           E == EntryCells(e)  M == EntryCells(lost)
           G == Grown(e, k, v, i)  f == Fill(e, k, v, i)
           S == Span(i)  b == BucketCell(i)
           a == <<Bg, Sn(S), TAl(E)>>  z == <<Cm>>  l == <<Al(E)>>  s == <<Fl(S)>>
<1>1. /\ e \in FreeEntries /\ lost \in FreeEntries /\ FreeEntries \subseteq Entry
  <2>1. FreeEntries \subseteq Nat /\ FreeEntries \subseteq Entry
    BY Objects DEF FreeEntries
  <2>2. FreeEntries # {} BY DEF HasRoom
  <2>3. e \in FreeEntries BY <2>1, <2>2, MinIs DEF NewEntry
  <2> HIDE DEF e
  <2>4. FreeEntries \ {e} # {} BY DEF HasRoom
  <2>5. FreeEntries \ {e} \in SUBSET Nat BY <2>1
  <2>6. lost \in FreeEntries \ {e} BY <2>4, <2>5, MinIs
  <2> QED BY <2>1, <2>3, <2>6
<1>2. e \in Entry /\ lost \in Entry /\ E \cap live = {}
  BY <1>1 DEF FreeEntries
<1>3. /\ E \in SUBSET Cell /\ M \in SUBSET Cell /\ S \in SUBSET Cell
      /\ v \in Value /\ b \in S
      /\ \A o \in Table : TableCells(o) \cap E = {} /\ TableCells(o) \cap M = {}
  <2>1. S \in SUBSET Cell /\ b \in S
    <3>1. \A j \in Bucket : BucketCell(j) \in Cell BY Cells DEF BucketCell
    <3>2. i..(INIT_BUCKETS_NUM - 1) \subseteq Bucket /\ i \in i..(INIT_BUCKETS_NUM - 1)
      BY HashAssumption DEF Bucket
    <3> QED BY <3>1, <3>2 DEF Span
  <2> QED BY <1>2, <2>1, Cells, Fields, Contents
<1> DEFINE d == <<Al(E), St(<<e, "key">>, k)>> \o Cp(<<e, "value">>, v)
                \o <<Al(M), St(<<e, "next">>, lost),
                     St(<<e, "next">>, mem[BucketCell(i)]), St(BucketCell(i), e)>>
<1>4. /\ Does(f, mem, G, {}) /\ Does(d, mem, G, E \cup M)
      /\ \A j \in DOMAIN f : f[j].op = "store" /\ f[j].c \in E \cup {b}
  BY <1>2, <1>3, FillDoes, Zenon
<1>5. /\ Does(l, mem, mem, E) /\ Does(s, G, G, {}) /\ Does(z, G, G, {})
      /\ Does(a, mem, mem, E)
  BY <1>3, Beginning
<1>6. /\ a \in Seq(Step) /\ z \in Seq(Step) /\ \A L : LogsFirst(z, L)
      /\ \A r \in Seq(Step) : EndsTx(r \o z)
      /\ S \cup E \subseteq ToLog(a)
      /\ \A j \in DOMAIN a : a[j].op \in {"tx_begin", "tx_add_range", "tx_alloc"}
  BY <1>3, TxParts
<1>7. /\ Volatile(cls) => insert(k, v) = d
      /\ cls.medium = "pmem" => insert(k, v) = l \o f \o s
      /\ cls.medium = "tx" => insert(k, v) = a \o f \o z
  BY Media DEF insert, ht_dram_insert, ht_pmem_insert, ht_pmem_tx_insert, Volatile
<1> HIDE DEF a, z, l, s, d, f, e, lost, i, E, M, G, S, b
<1>8. Does(l \o f \o s, mem, G, E) /\ Does(a \o f \o z, mem, G, E)
  <2>1. /\ Does(l \o f \o s, mem, G, E \cup {} \cup {})
        /\ Does(a \o f \o z, mem, G, E \cup {} \cup {})
    BY <1>4, <1>5, DoesConcat
  <2>2. E \cup {} \cup {} = E OBVIOUS
  <2> QED BY <2>1, <2>2, Zenon
<1>9. \A L : LogsFirst(a \o f \o z, L)
  <2>1. f \in Seq(Step) BY <1>4 DEF Does
  <2>2. \A j \in DOMAIN f : /\ f[j].op \in {"store", "tx_free"}
                            /\ f[j].op = "store" => f[j].c \in S \cup E
    BY <1>3, <1>4
  <2>3. LogsFirst(z, S \cup E) BY <1>6
  <2> QED BY <1>6, <2>1, <2>2, <2>3, TransactionIs
<1>10. EndsTx(a \o f \o z)
  <2>1. f \in Seq(Step) BY <1>4 DEF Does
  <2>2. a \o f \in Seq(Step) BY <1>6, <2>1, ConcatMembers
  <2> QED BY <1>6, <2>2
<1>11. cls.medium = "tx" =>
         EndsTx(insert(k, v)) /\ \A L : LogsFirst(insert(k, v), L)
  BY <1>7, <1>9, <1>10, Zenon
<1>12. \E A \in SUBSET Cell : /\ E \subseteq A
                              /\ \A o \in Table : TableCells(o) \cap A = {}
                              /\ Does(insert(k, v), mem, G, A)
  <2>1. CASE Volatile(cls)
    <3>1. Does(insert(k, v), mem, G, E \cup M) BY <1>4, <1>7, <2>1
    <3>2. /\ E \cup M \in SUBSET Cell /\ E \subseteq E \cup M
          /\ \A o \in Table : TableCells(o) \cap (E \cup M) = {}
      BY <1>3
    <3> QED BY <3>1, <3>2, Zenon
  <2>2. CASE ~Volatile(cls)
    <3>1. Does(insert(k, v), mem, G, E) BY <1>7, <1>8, <2>2, Media, Zenon
    <3>2. E \in SUBSET Cell /\ E \subseteq E BY <1>3
    <3> QED BY <1>3, <3>1, <3>2, Zenon
  <2> QED BY <2>1, <2>2
<1> QED BY <1>2, <1>11, <1>12, Zenon DEF E, G, i

\* Either way the entries will show the new value and otherwise what they did.
LEMMA InsertIs ==
  ASSUME CallInv, MemoryTypeOK, NEW ch, Chained(ch),
         NEW want, Wanted(mem, ch, want), KeptIn(mem, ch, live),
         NEW k \in Key, NEW v \in Val, Hits(k) = {} => HasRoom,
         NEW now, Rewritten(want, k, v, now)
  PROVE  /\ insert(k, v) \in Seq(Step) /\ FreesNothing(insert(k, v))
         /\ \A o \in Table : TableCells(o) \cap ToAllocate(insert(k, v)) = {}
         /\ cls.medium = "tx" =>
              EndsTx(insert(k, v)) /\ \A L : LogsFirst(insert(k, v), L)
         /\ WillHold(insert(k, v), now)
<1> DEFINE h == HashOf(mem, k)  c == ch[h]
<1>1. /\ h \in Bucket /\ hash_function(k) = h
      /\ Hits(k) = {n \in DOMAIN c : mem[<<c[n], "key">>] = k}
      /\ Hits(k) # {} => \E n \in DOMAIN c :
           /\ Hits(k) = {n} /\ FirstHit(k) = c[n] /\ ReadHit(k) = c[n]
           /\ c[n] \in Entry /\ mem[<<c[n], "key">>] = k
  BY HitIs
<1>2. ch \in [Bucket -> Seq(Entry)] /\ TableP \in Table
  BY DEF Chained, TableMade, TableP, TableOf
<1>3. CASE Hits(k) # {}
  <2>1. PICK n \in DOMAIN c : /\ FirstHit(k) = c[n] /\ c[n] \in Entry
                              /\ mem[<<c[n], "key">>] = k
    BY <1>1, <1>3
  <2> DEFINE F == Put(mem, <<c[n], "value">>, v)  p == insert(k, v)
  <2>2. /\ Does(p, mem, F, {})
        /\ cls.medium = "tx" => EndsTx(p) /\ \A L : LogsFirst(p, L)
    BY <1>3, <2>1, InsertHit
  <2>3. /\ TableMade(F) /\ Linked(F, ch) /\ Keyed(F, ch) /\ Wanted(F, ch, now)
        /\ TableOf(F) = TableOf(mem)
    <3>1. Overwrites(F, c[n], v) BY DEF Put, Overwrites
    <3> HIDE DEF F
    <3> QED BY <2>1, <3>1, Overwritten, Zenon
  <2> HIDE DEF F, p
  <2>4. /\ p \in Seq(Step) /\ FreesNothing(p) /\ Yields(p, mem, F)
        /\ ToAllocate(p) = {}
    BY <2>2 DEF Does
  <2>5. KeptIn(F, ch, live \cup ToAllocate(p)) BY <2>3 DEF KeptIn
  <2>6. WillHold(p, now) BY <1>2, <2>3, <2>4, <2>5, Zenon DEF WillHold, Holds
  <2> QED BY <2>2, <2>4, <2>6 DEF p
<1>4. CASE Hits(k) = {}
  <2>1. PICK e \in Entry, A \in SUBSET Cell :
          /\ EntryCells(e) \cap live = {} /\ EntryCells(e) \subseteq A
          /\ \A o \in Table : TableCells(o) \cap A = {}
          /\ Does(insert(k, v), mem, Grown(e, k, v, hash_function(k)), A)
          /\ cls.medium = "tx" =>
               EndsTx(insert(k, v)) /\ \A L : LogsFirst(insert(k, v), L)
    BY <1>1, <1>2, <1>4, InsertMiss
  <2> DEFINE F == Grown(e, k, v, h)  p == insert(k, v)
  <2>2. /\ p \in Seq(Step) /\ FreesNothing(p) /\ Yields(p, mem, F)
        /\ ToAllocate(p) = A
    BY <1>1, <2>1 DEF Does
  <2>3. Unused(ch, e)
    <3>1. \A j \in Bucket : \A n \in DOMAIN ch[j] :
            EntryCells(ch[j][n]) \subseteq live
      BY DEF KeptIn
    <3> QED BY <2>1, <3>1, Cells DEF Unused
  <2>4. Misses(ch, k) BY <1>1, <1>4 DEF Misses
  <2>5. Grows(F, e, k, v, h)
    <3>1. /\ <<e, "key">> \in Cell /\ <<e, "value">> \in Cell
          /\ <<e, "next">> \in Cell /\ BucketCell(h) \in Cell
          /\ BucketCell(h) # <<e, "key">> /\ BucketCell(h) # <<e, "value">>
          /\ BucketCell(h) # <<e, "next">>
      BY <1>1, <1>2, EntryFields, Cells DEF BucketCell
    <3> QED BY <3>1, Fields DEF Grown, Grows, EntryCells
  <2> HIDE DEF F, p
  <2>6. PICK cn \in [Bucket -> Seq(Entry)] :
          /\ TableMade(F) /\ Linked(F, cn) /\ Keyed(F, cn)
          /\ Wanted(F, cn, now) /\ TableOf(F) = TableOf(mem)
          /\ \A j \in Bucket : \A n \in DOMAIN cn[j] :
               cn[j][n] = e \/ \E m \in DOMAIN ch[j] : cn[j][n] = ch[j][m]
    BY <2>3, <2>4, <2>5, Inserted, Zenon
  <2>7. KeptIn(F, cn, live \cup ToAllocate(p))
    BY <2>1, <2>2, <2>6 DEF KeptIn
  <2>8. WillHold(p, now) BY <2>2, <2>6, <2>7, Zenon DEF WillHold, Holds
  <2> QED BY <2>1, <2>2, <2>8 DEF p
<1> QED BY <1>3, <1>4

-----------------------------------------------------------------------------
(***************************************************************************)
(* The program of destroy, and the tables that starts allocate.            *)
(***************************************************************************)
LEMMA DestroyIs ==
  ASSUME CallInv, NEW ch, Chained(ch)
  PROVE  /\ destroy \in Seq(Step) /\ ToAllocate(destroy) = {}
         /\ cls.medium = "tx" =>
              /\ EndsTx(destroy) /\ \A L : LogsFirst(destroy, L)
              /\ \E F : Yields(destroy, mem, F) /\ TableOf(F) = Zero
<1> DEFINE es == AllEntries  TC == TableCells(TableP)  bk == <<0, "buckets">>
           U == {u \in Step : Allocates(u) = {}}
           V == {u \in Step : u.op = "tx_free"}
           W == {u \in Step : Assigns(u) = {}}
           f == [n \in DOMAIN es |-> Fr(EntryCells(es[n]))]
           g == [n \in DOMAIN es |-> TFr(EntryCells(es[n]))]
           x == <<Fr(TC), Fr(RootCells)>>
           y == <<FrIn(TC, bk), St(bk, Zero), Fr(RootCells)>>
           z == <<TFr(TC), St(bk, Zero), TFr(RootCells), Cm>>
           a == <<Bg, Sn(RootCells)>>
<1>1. /\ TC \in SUBSET Cell /\ RootCells \in SUBSET Cell
      /\ bk \in RootCells /\ bk \in Cell /\ Zero \in Value
  BY Cells, Contents DEF Chained, TableMade, TableP, TableOf
<1>2. es \in Seq(Entry) BY EntriesAre
<1>3. /\ Fr(TC) \in Step /\ Fr(RootCells) \in Step /\ FrIn(TC, bk) \in Step
      /\ St(bk, Zero) \in Step /\ TFr(TC) \in Step /\ TFr(RootCells) \in Step
      /\ Cm \in Step /\ Bg \in Step /\ Sn(RootCells) \in Step
      /\ \A e \in Entry : Fr(EntryCells(e)) \in Step /\ TFr(EntryCells(e)) \in Step
  <2>1. \A e \in Entry : EntryCells(e) \in SUBSET Cell BY Cells
  <2> QED BY <1>1, <2>1, StepKinds
<1>4. /\ Allocates(Fr(TC)) = {} /\ Allocates(Fr(RootCells)) = {}
      /\ Allocates(FrIn(TC, bk)) = {} /\ Allocates(St(bk, Zero)) = {}
      /\ Allocates(TFr(TC)) = {} /\ Allocates(TFr(RootCells)) = {}
      /\ Allocates(Cm) = {} /\ Allocates(Bg) = {} /\ Allocates(Sn(RootCells)) = {}
      /\ \A C : Allocates(Fr(C)) = {} /\ Allocates(TFr(C)) = {}
  BY StepLogs
<1>5. /\ \A C : TFr(C).op = "tx_free"
      /\ St(bk, Zero).op = "store" /\ St(bk, Zero).c = bk /\ Cm.op = "tx_end"
  BY DEF TFr, St, Cm
<1>6. /\ Volatile(cls) => destroy = f \o x
      /\ cls.medium = "pmem" => destroy = f \o y
      /\ cls.medium = "tx" => destroy = a \o g \o z
  BY Media DEF destroy, ht_dram_destroy, ht_pmem_destroy, ht_pmem_tx_destroy,
               FreeEntriesOf, Volatile
<1>7. /\ a \in Seq(Step) /\ RootCells \subseteq ToLog(a)
      /\ \A j \in DOMAIN a : a[j].op \in {"tx_begin", "tx_add_range", "tx_alloc"}
  BY <1>1, TxParts
<1>8. LogsFirst(z, RootCells)
  <2> DEFINE t == TFr(TC)  s == St(bk, Zero)  r == TFr(RootCells)
  <2>1. DOMAIN z = 1..4 /\ Len(z) = 4 /\ z[1] = t /\ z[2] = s /\ z[3] = r
        /\ z[4] = Cm
    OBVIOUS
  <2>2. /\ t.op = "tx_free" /\ s.op = "store" /\ s.c \in RootCells
        /\ r.op = "tx_free" /\ Cm.op = "tx_end"
    BY <1>1, <1>5
  <2> HIDE DEF z, t, s, r
  <2> QED BY <2>1, <2>2 DEF LogsFirst
<1>9. /\ f \in Seq(U) /\ g \in Seq(U) /\ g \in Seq(V)
      /\ x \in Seq(U) /\ y \in Seq(U) /\ z \in Seq(U) /\ a \in Seq(U)
  <2>1. Len(es) \in Nat /\ DOMAIN es = 1..Len(es)
        /\ \A n \in DOMAIN es : es[n] \in Entry
    BY <1>2, LenProperties
  <2>2. \A n \in DOMAIN es : /\ Fr(EntryCells(es[n])) \in U
                             /\ TFr(EntryCells(es[n])) \in U
                             /\ TFr(EntryCells(es[n])) \in V
    BY <1>3, <1>4, <1>5, <2>1
  <2>3. /\ Fr(TC) \in U /\ Fr(RootCells) \in U /\ FrIn(TC, bk) \in U
        /\ St(bk, Zero) \in U /\ TFr(TC) \in U /\ TFr(RootCells) \in U
        /\ Cm \in U /\ Bg \in U /\ Sn(RootCells) \in U
    BY <1>3, <1>4
  <2> HIDE DEF U, V, es
  <2> QED BY <2>1, <2>2, <2>3
<1>13. a \in Seq(W) /\ g \in Seq(W)
  <2>1. Len(es) \in Nat /\ DOMAIN es = 1..Len(es)
        /\ \A n \in DOMAIN es : es[n] \in Entry
    BY <1>2, LenProperties
  <2>2. /\ \A n \in DOMAIN es : TFr(EntryCells(es[n])) \in W
        /\ Bg \in W /\ Sn(RootCells) \in W
    BY <1>3, <2>1, StepAssigns
  <2> HIDE DEF W, es
  <2> QED BY <2>1, <2>2
<1>14. z # <<>> /\ EndsTx(z) /\ Yields(z, mem, Put(mem, bk, Zero))
  <2> DEFINE t == TFr(TC)  s == St(bk, Zero)  r == TFr(RootCells)
  <2>1. DOMAIN z = 1..4 /\ Len(z) = 4 /\ z[1] = t /\ z[2] = s /\ z[3] = r
        /\ z[4] = Cm /\ z # <<>>
    OBVIOUS
  <2>2. /\ Assigns(t) = {} /\ Assigns(s) = {bk} /\ Assigned(s, bk) = Zero
        /\ Assigns(r) = {} /\ Assigns(Cm) = {}
    BY StepAssigns
  <2> HIDE DEF z, t, s, r, bk
  <2>3. EndsTx(z) BY <1>5, <2>1 DEF EndsTx
  <2>4. ASSUME NEW c \in Cell
        PROVE  \/ /\ Put(mem, bk, Zero)[c] = mem[c]
                  /\ \A j \in DOMAIN z : c \notin Assigns(z[j])
               \/ \E j \in DOMAIN z :
                    /\ c \in Assigns(z[j])
                    /\ Put(mem, bk, Zero)[c] = Assigned(z[j], c)
                    /\ \A i \in DOMAIN z : i > j => c \notin Assigns(z[i])
    <3>1. CASE c # bk BY <2>1, <2>2, <3>1 DEF Put
    <3>2. CASE c = bk
      <4>1. 2 \in DOMAIN z BY <2>1
      <4>2. Put(mem, bk, Zero)[c] = Assigned(z[2], c)
        BY <2>1, <2>2, <3>2 DEF Put
      <4>3. c \in Assigns(z[2]) BY <2>1, <2>2, <3>2
      <4>4. \A i \in DOMAIN z : i > 2 => c \notin Assigns(z[i])
        BY <2>1, <2>2
      <4> QED BY <4>1, <4>2, <4>3, <4>4
    <3> QED BY <3>1, <3>2
  <2> QED BY <2>1, <2>3, <2>4 DEF Yields
<1> HIDE DEF f, g, x, y, z, a
<1>15. /\ EndsTx(a \o g \o z)
       /\ \E F : Yields(a \o g \o z, mem, F) /\ TableOf(F) = Zero
  <2>1. a \o g \in Seq(W) BY <1>13, ConcatProperties
  <2> DEFINE p == a \o g  F == Put(mem, bk, Zero)
  <2>2. p \in Seq(Step) /\ z \in Seq(Step) BY <1>9, <2>1
  <2>3. \A j \in DOMAIN p : Assigns(p[j]) = {}
    <3> HIDE DEF p
    <3>1. \A j \in DOMAIN p : p[j] \in W BY <2>1, LenProperties DEF p
    <3> QED BY <3>1
  <2>4. TableOf(F) = Zero BY <1>1 DEF Put, TableOf
  <2> HIDE DEF p, F
  <2>5. Yields(p, mem, mem) BY <2>3, YieldsNothing
  <2>6. Yields(p \o z, mem, F)
    BY <1>14, <2>2, <2>5, YieldsConcat DEF F
  <2>7. EndsTx(p \o z) BY <1>14, <2>2, EndsTxConcat
  <2> QED BY <2>4, <2>6, <2>7 DEF p
<1>10. destroy \in Seq(U)
  <2> HIDE DEF U
  <2>1. /\ f \o x \in Seq(U) /\ f \o y \in Seq(U) /\ a \o g \in Seq(U)
        /\ (a \o g) \o z \in Seq(U)
    BY <1>9, ConcatProperties
  <2> QED BY <1>6, <2>1, Media
<1>11. destroy \in Seq(Step) /\ ToAllocate(destroy) = {}
  <2> DEFINE p == destroy
  <2>1. \A j \in DOMAIN p : p[j] \in U BY <1>10, LenProperties
  <2>2. p \in Seq(Step) BY <1>10
  <2> HIDE DEF p
  <2>3. \A j \in DOMAIN p : Allocates(p[j]) = {} BY <2>1
  <2> QED BY <2>2, <2>3 DEF ToAllocate, p
<1>12. \A L : LogsFirst(a \o g \o z, L)
  <2>1. /\ g \in Seq(Step) /\ z \in Seq(Step)
        /\ \A j \in DOMAIN g : /\ g[j].op \in {"store", "tx_free"}
                               /\ g[j].op = "store" => g[j].c \in RootCells
    BY <1>9, LenProperties
  <2> QED BY <1>7, <1>8, <2>1, TransactionIs
<1> QED BY <1>6, <1>11, <1>12, <1>15, Zenon

\* The free table with the lowest number is taken.
LEMMA NewTableIs ==
  ASSUME NEW o \in Table, TableCells(o) \cap live = {}
  PROVE  NewTable \in Table /\ NewTable <= o
<1> DEFINE T == {q \in Table : TableCells(q) \cap live = {}}
<1>1. o \in T /\ T \subseteq Nat /\ T \subseteq Table BY Objects
<1> HIDE DEF T
<1>2. Min(T) \in T /\ Min(T) <= o BY <1>1, MinIs
<1> QED BY <1>1, <1>2 DEF NewTable, T

-----------------------------------------------------------------------------
(***************************************************************************)
(* Every step keeps IInv.                                                  *)
(***************************************************************************)

\* WillHold, with the memory and what is allocated in it as arguments.
HoldsIn(m, lv, p, want) ==
  \E F, ch :
    /\ ch \in [Bucket -> Seq(Entry)] /\ Yields(p, m, F)
    /\ TableMade(F) /\ Linked(F, ch) /\ Keyed(F, ch) /\ Wanted(F, ch, want)
    /\ KeptIn(F, ch, lv \cup ToAllocate(p))

NoRecords == [k \in Key |-> {Absent}]

LEMMA TableInvIs ==
  /\ TableInv <=>
       /\ phase = "init" => HoldsIn(mem, live, prog[main], NoRecords)
       /\ phase = "serve" /\ (\A t \in Thread : ~Updating(t))
            => HoldsIn(mem, live, <<>>, expect)
       /\ \A t \in Thread : Updating(t) =>
            HoldsIn(mem, live, prog[t],
                    [expect EXCEPT ![th[t].key] = {th[t].val}])
  /\ TableInv' <=>
       /\ phase' = "init" => HoldsIn(mem', live', prog'[main], NoRecords)
       /\ phase' = "serve" /\ (\A t \in Thread : ~Updating(t)')
            => HoldsIn(mem', live', <<>>, expect')
       /\ \A t \in Thread : Updating(t)' =>
            HoldsIn(mem', live', prog'[t],
                    [expect' EXCEPT ![th'[t].key] = {th'[t].val}])
  /\ \A p, want : WillHold(p, want) <=> HoldsIn(mem, live, p, want)
<1>1. \A p, want : WillHold(p, want) <=> HoldsIn(mem, live, p, want)
  BY Zenon DEF WillHold, Holds, KeptIn, HoldsIn
<1>2. TableInv <=>
       /\ phase = "init" => HoldsIn(mem, live, prog[main], NoRecords)
       /\ phase = "serve" /\ (\A t \in Thread : ~Updating(t))
            => HoldsIn(mem, live, <<>>, expect)
       /\ \A t \in Thread : Updating(t) =>
            HoldsIn(mem, live, prog[t],
                    [expect EXCEPT ![th[t].key] = {th[t].val}])
  BY <1>1, Zenon DEF TableInv, Written, NoRecords
<1>3. WillHold(prog[main], [k \in Key |-> {Absent}])'
        <=> HoldsIn(mem', live', prog'[main], NoRecords)
  BY Zenon DEF WillHold, Holds, KeptIn, HoldsIn, NoRecords
<1>4. WillHold(<<>>, expect)' <=> HoldsIn(mem', live', <<>>, expect')
  BY Zenon DEF WillHold, Holds, KeptIn, HoldsIn
<1>5. ASSUME NEW t \in Thread
      PROVE  WillHold(prog[t], Written(t))' <=>
               HoldsIn(mem', live', prog'[t],
                       [expect' EXCEPT ![th'[t].key] = {th'[t].val}])
  BY Zenon DEF WillHold, Holds, KeptIn, HoldsIn, Written
<1>6. TableInv' <=>
       /\ phase' = "init" => HoldsIn(mem', live', prog'[main], NoRecords)
       /\ phase' = "serve" /\ (\A t \in Thread : ~Updating(t)')
            => HoldsIn(mem', live', <<>>, expect')
       /\ \A t \in Thread : Updating(t)' =>
            HoldsIn(mem', live', prog'[t],
                    [expect' EXCEPT ![th'[t].key] = {th'[t].val}])
  BY <1>3, <1>4, <1>5, Zenon DEF TableInv
<1> QED BY <1>1, <1>2, <1>6, Zenon

\* Nothing is to be held while nobody serves or starts to.
LEMMA Offline ==
  ASSUME CallInv', phase' \notin {"init", "serve"} PROVE TableInv'
<1>1. \A t \in Thread : th'[t].pc = "idle" BY DEF CallInv, CallsServed, Quiet
<1>2. \A t \in Thread : ~Updating(t)' BY <1>1 DEF Updating
<1> QED BY <1>2, TableInvIs

\* What a program will leave does not change while it is performed.
LEMMA ExecHolds ==
  ASSUME CallInv, MemoryTypeOK, ProgramsTyped, Starts, phase # "destroy",
         NEW a \in Actor, Exec(a), NEW want,
         HoldsIn(mem, live, prog[a], want)
  PROVE  HoldsIn(mem', live', prog'[a], want)
<1> DEFINE u == prog[a][1]
<1>1. /\ prog[a] \in Seq(Step) /\ prog[a] # <<>>
      /\ u \in Step /\ MemoryStep(u) /\ prog'[a] = Tail(prog[a])
      /\ \A F : Yields(prog[a], mem, F) => Yields(prog'[a], mem', F)
      /\ ToAllocate(prog[a]) = Allocates(u) \cup ToAllocate(prog'[a])
  BY ExecDoes, Zenon
<1>2. dying = {} /\ Releases(u) = {}
  <2>1. 1 \in DOMAIN prog[a] BY <1>1, TailIs
  <2> QED BY <2>1 DEF Starts, FreesNothing
<1> HIDE DEF u
<1>3. live \cup Allocates(u) \subseteq live' BY <1>1, <1>2, StepKeepsLive
<1>4. live \cup ToAllocate(prog[a]) \subseteq live' \cup ToAllocate(prog'[a])
  BY <1>1, <1>3
<1>5. PICK F, ch :
        /\ ch \in [Bucket -> Seq(Entry)] /\ Yields(prog[a], mem, F)
        /\ TableMade(F) /\ Linked(F, ch) /\ Keyed(F, ch) /\ Wanted(F, ch, want)
        /\ KeptIn(F, ch, live \cup ToAllocate(prog[a]))
  BY Zenon DEF HoldsIn
<1>6. KeptIn(F, ch, live' \cup ToAllocate(prog'[a]))
  BY <1>4, <1>5 DEF KeptIn
<1> QED BY <1>1, <1>5, <1>6, Zenon DEF HoldsIn

LEMMA NoProgram ==
  ToAllocate(<<>>) = {} /\ FreesNothing(<<>>) /\ \A A : LogsFirst(<<>>, A)
BY DEF ToAllocate, FreesNothing, LogsFirst

LEMMA ExecKeeps ==
  ASSUME IInv, NEW a \in Actor, Exec(a) PROVE IInv'
<1> DEFINE u == prog[a][1]
<1>1. CallInv /\ MemoryTypeOK /\ ProgramsTyped /\ TxPrograms /\ TableInv /\ Starts
  BY DEF IInv
<1>2. /\ prog[a] \in Seq(Step) /\ prog[a] # <<>>
      /\ u \in Step /\ MemoryStep(u) /\ prog'[a] = Tail(prog[a])
      /\ \A b \in Actor \ {a} : prog[b] = <<>> /\ prog'[b] = <<>>
      /\ MemoryTypeOK' /\ ProgramsTyped'
      /\ ToAllocate(prog[a]) = Allocates(u) \cup ToAllocate(prog'[a])
      /\ live' \subseteq live \cup Allocates(u)
  BY <1>1, ExecDoes
<1>3. UNCHANGED <<cls, phase, th, rd, wr, expect, dirty, calls, fails, starts>>
  BY <1>1, ExecIs
<1>4. CallInv' BY <1>1, ExecCalls
<1> HIDE DEF u
<1>5. TxPrograms'
  <2>1. CASE cls.medium = "tx" BY <1>1, <2>1, ExecTx
  <2>2. CASE cls.medium # "tx" BY <1>3, <2>2 DEF TxPrograms
  <2> QED BY <2>1, <2>2
<1>6. Starts'
  <2>1. \A o \in Table : o > starts + 1 =>
          /\ TableCells(o) \cap live' = {}
          /\ \A b \in Actor : TableCells(o) \cap ToAllocate(prog'[b]) = {}
    <3> TAKE o \in Table
    <3> HAVE o > starts + 1
    <3>1. /\ TableCells(o) \cap live = {}
          /\ TableCells(o) \cap ToAllocate(prog[a]) = {}
      BY <1>1 DEF Starts
    <3>2. \A b \in Actor \ {a} : ToAllocate(prog'[b]) = {}
      BY <1>2, NoProgram
    <3> QED BY <1>2, <3>1, <3>2
  <2>2. ASSUME phase # "destroy"
        PROVE  dying' = {} /\ \A b \in Actor : FreesNothing(prog'[b])
    <3>1. dying = {} /\ FreesNothing(prog[a]) BY <1>1, <2>2 DEF Starts
    <3>2. /\ DOMAIN prog[a] = 1..Len(prog[a]) /\ Len(prog[a]) \in Nat \ {0}
          /\ DOMAIN Tail(prog[a]) = 1..(Len(prog[a]) - 1)
          /\ \A j \in 1..(Len(prog[a]) - 1) : Tail(prog[a])[j] = prog[a][j + 1]
      BY <1>2, TailIs
    <3>3. Releases(u) = {}
      <4>1. 1 \in DOMAIN prog[a] BY <3>2
      <4> QED BY <3>1, <4>1 DEF FreesNothing, u
    <3>4. dying' = {} BY <1>2, <3>1, <3>3, StepKeepsLive
    <3>5. FreesNothing(Tail(prog[a]))
      <4>1. ASSUME NEW j \in DOMAIN Tail(prog[a])
            PROVE  Releases(Tail(prog[a])[j]) = {}
        <5>1. j \in 1..(Len(prog[a]) - 1) BY <3>2, Zenon
        <5>2. j + 1 \in DOMAIN prog[a] BY <3>2, <5>1
        <5>3. Releases(prog[a][j + 1]) = {} BY <3>1, <5>2 DEF FreesNothing
        <5> QED BY <3>2, <5>1, <5>3
      <4> QED BY <4>1, Zenon DEF FreesNothing
    <3>6. \A b \in Actor \ {a} : FreesNothing(prog'[b]) BY <1>2, NoProgram
    <3> QED BY <1>2, <3>4, <3>5, <3>6
  <2> QED BY <1>1, <1>3, <2>1, <2>2 DEF Starts
<1>7. TableInv'
  <2>1. phase' = phase /\ expect' = expect /\ \A t \in Thread : Updating(t)' <=> Updating(t)
    BY <1>3 DEF Updating
  <2>2. CASE phase = "init"
    <3>1. Quiet BY <1>1, <2>2 DEF CallInv, CallsServed
    <3>2. \A t \in Thread : ~Updating(t) BY <3>1 DEF Quiet, Updating
    <3>3. a = main
      BY <1>1, <1>2, <3>2 DEF CallInv, ProgramsOwned, Actor
    <3>4. HoldsIn(mem, live, prog[main], NoRecords) BY <1>1, <2>2, TableInvIs
    <3>5. HoldsIn(mem', live', prog'[main], NoRecords)
      BY <1>1, <2>2, <3>3, <3>4, ExecHolds
    <3> QED BY <2>1, <2>2, <3>2, <3>5, TableInvIs
  <2>3. CASE phase = "serve"
    <3>1. a \in Thread /\ Updating(a)
      BY <1>1, <1>2, <2>3 DEF CallInv, ProgramsOwned, Actor
    <3>2. \A t \in Thread : Updating(t) => t = a
      BY <1>1, <3>1 DEF CallInv, Excluded, Updating
    <3> DEFINE want == [expect EXCEPT ![th[a].key] = {th[a].val}]
    <3>3. HoldsIn(mem, live, prog[a], want) BY <1>1, <3>1, TableInvIs
    <3> HIDE DEF want
    <3>4. HoldsIn(mem', live', prog'[a], want)
      BY <1>1, <2>3, <3>3, ExecHolds
    <3>5. want = [expect' EXCEPT ![th'[a].key] = {th'[a].val}]
      BY <1>3 DEF want
    <3>6. \A t \in Thread : Updating(t)' =>
            HoldsIn(mem', live', prog'[t],
                    [expect' EXCEPT ![th'[t].key] = {th'[t].val}])
      BY <2>1, <3>2, <3>4, <3>5
    <3> QED BY <2>1, <2>3, <3>1, <3>6, TableInvIs
  <2>4. CASE phase \notin {"init", "serve"} BY <1>4, <2>1, <2>4, Offline
  <2> QED BY <2>2, <2>3, <2>4
<1> QED BY <1>2, <1>4, <1>5, <1>6, <1>7 DEF IInv

\* A step that changes neither the pool nor a program.
LEMMA SamePool ==
  ASSUME IInv, UNCHANGED <<pvars, cls, prog, starts>>,
         phase' # "destroy" => phase # "destroy"
  PROVE  MemoryTypeOK' /\ ProgramsTyped' /\ TxPrograms' /\ Starts'
<1>1. UNCHANGED <<mem, may, vol, live, intx, undo, fresh, dying, power>>
  BY DEF pvars
<1>2. MemoryTypeOK' BY <1>1 DEF IInv, MemoryTypeOK
<1>3. ProgramsTyped' BY DEF IInv, ProgramsTyped
<1>4. TxPrograms' BY <1>1 DEF IInv, TxPrograms, Logged
<1>5. Starts' BY <1>1 DEF IInv, Starts
<1> QED BY <1>2, <1>3, <1>4, <1>5

\* Nor what is expected, or who is updating what.
LEMMA SameUpdates ==
  ASSUME IInv, CallInv',
         UNCHANGED <<pvars, cls, phase, prog, expect, starts>>,
         \A t \in Thread :
           /\ Updating(t)' <=> Updating(t)
           /\ Updating(t) => th'[t].key = th[t].key /\ th'[t].val = th[t].val
  PROVE  IInv'
<1>1. MemoryTypeOK' /\ ProgramsTyped' /\ TxPrograms' /\ Starts' BY SamePool
<1>2. mem' = mem /\ live' = live /\ TableInv BY DEF pvars, IInv
<1>3. \A t \in Thread : Updating(t)' =>
        HoldsIn(mem', live', prog'[t],
                [expect' EXCEPT ![th'[t].key] = {th'[t].val}])
  <2> TAKE t \in Thread
  <2> HAVE Updating(t)'
  <2>1. HoldsIn(mem, live, prog[t],
                [expect EXCEPT ![th[t].key] = {th[t].val}])
    BY <1>2, TableInvIs
  <2>2. th'[t].key = th[t].key /\ th'[t].val = th[t].val OBVIOUS
  <2> QED BY <1>2, <2>1, <2>2
<1>4. TableInv' BY <1>2, <1>3, TableInvIs
<1> QED BY <1>1, <1>4 DEF IInv

LEMMA CallKeeps ==
  ASSUME IInv, NEW t \in Thread, NEW k \in Key,
         CallRead(t, k) \/ \E n \in Version : CallWrite(t, k, n)
  PROVE  IInv'
<1>1. PICK op \in {"insert", "update", "read"}, v \in Val \cup {0} :
        StartCall(t, op, k, v) /\ (op # "read" => v \in Val)
  BY DEF CallRead, CallWrite, Call, Val
<1>2. CallInv' BY <1>1, StartCallCalls DEF IInv
<1>3. /\ th[t].pc = "idle" /\ th'[t].pc = "want"
      /\ \A u \in Thread \ {t} : th'[u] = th[u]
      /\ UNCHANGED <<pvars, cls, phase, prog, expect, starts>>
  BY <1>1 DEF StartCall, Idle, IInv, CallInv, CallTypeOK
<1>4. \A u \in Thread :
        /\ Updating(u)' <=> Updating(u)
        /\ Updating(u) => th'[u].key = th[u].key /\ th'[u].val = th[u].val
  BY <1>3 DEF Updating
<1> QED BY <1>2, <1>3, <1>4, SameUpdates

LEMMA CopyOutKeeps == ASSUME IInv, NEW t \in Thread, CopyOut(t) PROVE IInv'
<1>1. CallInv' BY CopyOutCalls DEF IInv, MemoryTypeOK
<1>2. /\ th[t].pc = "copy" /\ th'[t].pc = "got"
      /\ \A u \in Thread \ {t} : th'[u] = th[u]
      /\ UNCHANGED <<pvars, cls, phase, prog, expect, starts>>
  BY DEF CopyOut, IInv, CallInv, CallTypeOK, CallState
<1>3. \A u \in Thread :
        /\ Updating(u)' <=> Updating(u)
        /\ Updating(u) => th'[u].key = th[u].key /\ th'[u].val = th[u].val
  BY <1>2 DEF Updating
<1> QED BY <1>1, <1>2, <1>3, SameUpdates

LEMMA ReturnKeeps == ASSUME IInv, NEW t \in Thread, Return(t) PROVE IInv'
<1>1. CallInv' BY ReturnCalls DEF IInv
<1>2. /\ th[t].pc = "got" /\ th'[t].pc = "idle"
      /\ \A u \in Thread \ {t} : th'[u] = th[u]
      /\ UNCHANGED <<pvars, cls, phase, prog, expect, starts>>
  BY DEF Return, Idle, IInv, CallInv, CallTypeOK
<1>3. \A u \in Thread :
        /\ Updating(u)' <=> Updating(u)
        /\ Updating(u) => th'[u].key = th[u].key /\ th'[u].val = th[u].val
  BY <1>2 DEF Updating
<1> QED BY <1>1, <1>2, <1>3, SameUpdates

LEMMA UnchangedKeeps == ASSUME IInv, UNCHANGED vars PROVE IInv'
<1>1. CallInv' BY SettlingCalls DEF IInv
<1>2. UNCHANGED <<pvars, cls, phase, prog, expect, starts, th>>
  BY DEF vars, svars
<1>3. \A u \in Thread :
        /\ Updating(u)' <=> Updating(u)
        /\ Updating(u) => th'[u].key = th[u].key /\ th'[u].val = th[u].val
  BY <1>2 DEF Updating
<1> QED BY <1>1, <1>2, <1>3, SameUpdates

\* Whoever takes the lock finds the table as it is expected to be.
LEMMA EnterFinds ==
  ASSUME IInv, NEW t \in Thread, th[t].pc = "want",
         Available(Mode(th[t].op), t)
  PROVE  /\ phase = "serve" /\ th[t].key \in Key /\ prog[t] = <<>>
         /\ \A u \in Thread : ~Updating(u)
         /\ \E ch : /\ Chained(ch) /\ Wanted(mem, ch, expect)
                    /\ KeptIn(mem, ch, live)
<1>1. phase = "serve" /\ th[t].key \in Key /\ prog[t] = <<>>
  BY DEF IInv, CallInv, CallsServed, Quiet, Asked, ProgramsOwned, Updating
<1>2. \A u \in Thread : ~Updating(u) BY LockExcludes DEF IInv, Updating
<1> QED BY <1>1, <1>2, IInvServing

\* A read changes nothing but the state of its call.
LEMMA ReadIs ==
  ASSUME IInv, NEW t \in Thread, Read(t)
  PROVE  /\ CallInv' /\ UNCHANGED <<pvars, cls, phase, prog, expect, starts>>
         /\ \A u \in Thread : ~Updating(u) /\ ~Updating(u)'
<1> DEFINE k == th[t].key
           ptr == IF Hits(k) = {} THEN None ELSE <<ReadHit(k), "value">>
<1>1. /\ th[t].op = "read" /\ Enter(t, <<>>, ptr)
      /\ th[t].pc = "want" /\ Available(Mode(th[t].op), t)
  BY DEF Read, Enter
<1>2. /\ phase = "serve" /\ k \in Key /\ prog[t] = <<>>
      /\ \A u \in Thread : ~Updating(u)
  BY <1>1, EnterFinds
<1>3. PICK ch : Chained(ch) BY <1>1, EnterFinds
<1>4. ptr \in Cell \cup {None}
  <2>1. Hits(k) # {} => ReadHit(k) \in Entry BY <1>2, <1>3, HitIs
  <2> HIDE DEF k
  <2> QED BY <2>1, Cells
<1> HIDE DEF ptr, k
<1>5. CallInv' BY <1>1, <1>4, EnterCalls DEF IInv
<1>6. ~Writes(th[t].op, th[t].key) BY <1>1 DEF Writes
<1>7. /\ UNCHANGED <<pvars, cls, phase, expect, starts>>
      /\ prog' = [prog EXCEPT ![t] = <<>>]
      /\ th' = [s \in Thread |->
                  IF s = t THEN [th[t] EXCEPT !.pc = "in", !.ptr = ptr]
                  ELSE th[s]]
  BY <1>1, <1>6 DEF Enter
<1>8. prog' = prog BY <1>2, <1>7 DEF IInv, CallInv, CallTypeOK
<1>9. \A u \in Thread : ~Updating(u)'
  BY <1>1, <1>2, <1>7 DEF Updating, IInv, CallInv, CallTypeOK, CallState
<1> QED BY <1>2, <1>5, <1>7, <1>8, <1>9

LEMMA ReadKeeps == ASSUME IInv, NEW t \in Thread, Read(t) PROVE IInv'
BY ReadIs, SameUpdates

\* An insert is given its program, and what it will write is expected.
LEMMA WriteIs ==
  ASSUME IInv, NEW t \in Thread, Write(t)
  PROVE  LET k == th[t].key  v == th[t].val  p == insert(k, v)
             now == [expect EXCEPT ![k] = {v}]
         IN
         /\ th[t].op \in {"insert", "update"} /\ Enter(t, p, None)
         /\ phase = "serve" /\ k \in Key /\ prog[t] = <<>>
         /\ Writes(th[t].op, k) /\ \A u \in Thread : ~Updating(u)
         /\ UNCHANGED <<pvars, cls, phase, starts>>
         /\ prog' = [prog EXCEPT ![t] = p]
         /\ expect' = [expect EXCEPT ![k] = @ \cup {v}]
         /\ expect \in [Key -> SUBSET (Value \cup {Absent})]
         /\ p \in Seq(Step) /\ FreesNothing(p)
         /\ \A o \in Table : TableCells(o) \cap ToAllocate(p) = {}
         /\ cls.medium = "tx" => EndsTx(p) /\ \A L : LogsFirst(p, L)
         /\ WillHold(p, now)
<1> DEFINE k == th[t].key  v == th[t].val  p == insert(k, v)
           now == [expect EXCEPT ![k] = {v}]
<1>1. /\ th[t].op \in {"insert", "update"} /\ Enter(t, p, None)
      /\ th[t].pc = "want" /\ Available(Mode(th[t].op), t)
      /\ Hits(k) = {} => HasRoom
  BY DEF Write, Enter
<1>2. /\ phase = "serve" /\ k \in Key /\ prog[t] = <<>>
      /\ \A u \in Thread : ~Updating(u)
  BY <1>1, EnterFinds
<1>3. PICK ch : /\ Chained(ch) /\ Wanted(mem, ch, expect)
                /\ KeptIn(mem, ch, live)
  BY <1>1, EnterFinds
<1>4. v \in Val BY <1>1 DEF IInv, CallInv, Asked
<1>5. Writes(th[t].op, k) BY <1>1, Media DEF Writes, IInv
<1>6. /\ UNCHANGED <<pvars, cls, phase, starts>>
      /\ prog' = [prog EXCEPT ![t] = p]
      /\ expect' = [expect EXCEPT ![k] = @ \cup {v}]
  BY <1>1, <1>5 DEF Enter
<1>7. expect \in [Key -> SUBSET (Value \cup {Absent})]
  BY DEF IInv, CallInv, CallTypeOK
<1>8. Rewritten(expect, k, v, now) BY <1>2, <1>7 DEF Rewritten
<1>9. /\ p \in Seq(Step) /\ FreesNothing(p)
      /\ \A o \in Table : TableCells(o) \cap ToAllocate(p) = {}
      /\ cls.medium = "tx" => EndsTx(p) /\ \A L : LogsFirst(p, L)
      /\ WillHold(p, now)
  <2>1. CallInv /\ MemoryTypeOK BY DEF IInv
  <2> HIDE DEF now, k, v
  <2> QED BY <1>1, <1>2, <1>3, <1>4, <1>8, <2>1, InsertIs DEF p
<1> HIDE DEF now, k, v, p
<1> QED BY <1>1, <1>2, <1>5, <1>6, <1>7, <1>9, Zenon DEF now, k, v, p

\* The insert of a thread: what it will write is wanted of its program.
LEMMA WriteKeeps == ASSUME IInv, NEW t \in Thread, Write(t) PROVE IInv'
<1> DEFINE k == th[t].key  v == th[t].val  p == insert(k, v)
           now == [expect EXCEPT ![k] = {v}]
<1>1. /\ th[t].op \in {"insert", "update"} /\ Enter(t, p, None)
      /\ phase = "serve" /\ k \in Key
      /\ Writes(th[t].op, k) /\ \A u \in Thread : ~Updating(u)
      /\ UNCHANGED <<pvars, cls, phase, starts>>
      /\ prog' = [prog EXCEPT ![t] = p]
      /\ expect' = [expect EXCEPT ![k] = @ \cup {v}]
      /\ expect \in [Key -> SUBSET (Value \cup {Absent})]
      /\ p \in Seq(Step) /\ FreesNothing(p)
      /\ \A o \in Table : TableCells(o) \cap ToAllocate(p) = {}
      /\ cls.medium = "tx" => EndsTx(p) /\ \A L : LogsFirst(p, L)
      /\ WillHold(p, now)
  BY WriteIs, Zenon
<1>2. th' = [s \in Thread |->
               IF s = t THEN [th[t] EXCEPT !.pc = "in", !.ptr = None]
               ELSE IF th[s].op = "read" /\ th[s].key = k
                    THEN [th[s] EXCEPT !.legal = @ \cup {v}]
                    ELSE th[s]]
  BY <1>1 DEF Enter
<1>3. [expect' EXCEPT ![k] = {v}] = now BY <1>1
<1>4. /\ th'[t].pc = "in" /\ th'[t].op = th[t].op /\ th'[t].key = k
      /\ th'[t].val = v
      /\ \A s \in Thread \ {t} : th'[s].pc = th[s].pc /\ th'[s].op = th[s].op
  BY <1>2 DEF IInv, CallInv, CallTypeOK, CallState
<1> HIDE DEF p, now, k, v
<1>5. CallInv' BY <1>1, EnterCalls DEF IInv
<1>6. /\ ProgramsTyped' /\ prog'[t] = p
      /\ \A b \in Actor \ {t} : prog'[b] = prog[b]
  BY <1>1, StartsProgram DEF IInv, Actor
<1>7. MemoryTypeOK' /\ mem' = mem /\ live' = live /\ dying' = dying
      /\ undo' = undo /\ fresh' = fresh
  BY <1>1 DEF IInv, MemoryTypeOK, pvars
<1>8. TxPrograms'
  BY <1>1, <1>6, <1>7, Zenon DEF IInv, TxPrograms, Logged
<1>9. Starts' BY <1>1, <1>6, <1>7 DEF IInv, Starts
<1>10. TableInv'
  <2>1. \A s \in Thread : Updating(s)' => s = t
    BY <1>1, <1>4 DEF Updating
  <2>2. Updating(t)' BY <1>1, <1>4 DEF Updating
  <2>3. HoldsIn(mem', live', prog'[t], now)
    BY <1>1, <1>6, <1>7, TableInvIs
  <2>4. [expect' EXCEPT ![th'[t].key] = {th'[t].val}] = now
    BY <1>3, <1>4
  <2>5. phase' # "init" BY <1>1
  <2> QED BY <2>1, <2>2, <2>3, <2>4, <2>5, TableInvIs
<1> QED BY <1>5, <1>6, <1>7, <1>8, <1>9, <1>10 DEF IInv

\* The update is complete: what was wanted of its program is expected now.
LEMMA LeaveKeeps == ASSUME IInv, NEW t \in Thread, Leave(t) PROVE IInv'
<1> DEFINE k == th[t].key  v == th[t].val
<1>1. CallInv' BY LeaveCalls DEF IInv
<1>2. /\ th[t].pc = "in" /\ prog[t] = <<>>
      /\ expect' = IF Writes(th[t].op, k) THEN [expect EXCEPT ![k] = {v}]
                   ELSE expect
      /\ UNCHANGED <<pvars, cls, phase, prog, starts>>
      /\ th'[t].pc # "in" /\ \A u \in Thread \ {t} : th'[u] = th[u]
  BY DEF Leave, Idle, IInv, CallInv, CallTypeOK, CallState
<1>3. phase = "serve" BY <1>2 DEF IInv, CallInv, CallsServed, Quiet
<1> HIDE DEF k, v
<1>4. CASE Updating(t)
  <2>1. Writes(th[t].op, k) BY <1>4, Media DEF Updating, Writes, IInv
  <2>2. \A u \in Thread : ~Updating(u)'
    BY <1>2, <1>4 DEF IInv, CallInv, Excluded, Updating
  <2>3. HoldsIn(mem, live, prog[t], [expect EXCEPT ![k] = {v}])
    BY <1>4, TableInvIs DEF IInv, k, v
  <2>4. HoldsIn(mem', live', <<>>, expect')
    BY <1>2, <2>1, <2>3 DEF pvars
  <2>5. TableInv' BY <1>2, <1>3, <2>2, <2>4, TableInvIs
  <2>6. MemoryTypeOK' /\ ProgramsTyped' /\ TxPrograms' /\ Starts'
    BY <1>2, SamePool
  <2> QED BY <1>1, <2>5, <2>6 DEF IInv
<1>5. CASE ~Updating(t)
  <2>1. expect' = expect BY <1>2, <1>5 DEF Updating, Writes
  <2>2. \A u \in Thread :
          /\ Updating(u)' <=> Updating(u)
          /\ Updating(u) => th'[u].key = th[u].key /\ th'[u].val = th[u].val
    BY <1>2, <1>5 DEF Updating
  <2> QED BY <1>1, <1>2, <2>1, <2>2, SameUpdates
<1> QED BY <1>4, <1>5

\* init leaves a table without records, and that is what the clients expect.
LEMMA InitDoneIs ==
  ASSUME IInv, InitDone([k \in Key |-> Find(k)])
  PROVE  /\ phase = "init" /\ prog[main] = <<>> /\ phase' = "serve"
         /\ UNCHANGED <<pvars, cls, th, prog, starts>>
         /\ expect' = NoRecords /\ HoldsIn(mem, live, <<>>, NoRecords)
         /\ [k \in Key |-> Find(k)] \in [Key -> Value \cup {Absent}]
<1> DEFINE found == [k \in Key |-> Find(k)]
<1>1. /\ phase = "init" /\ prog[main] = <<>> /\ phase' = "serve"
      /\ expect' = [k \in Key |-> {found[k]}]
      /\ UNCHANGED <<pvars, cls, th, prog, starts>>
  BY DEF InitDone
<1>2. HoldsIn(mem, live, <<>>, NoRecords) BY <1>1, TableInvIs DEF IInv
<1>3. PICK ch : Chained(ch) /\ Wanted(mem, ch, NoRecords)
  BY <1>2, TableInvIs, HeldNow
<1>4. \A k \in Key : Find(k) = Absent
  <2> TAKE k \in Key
  <2>1. Find(k) \in NoRecords[k] BY <1>3, FindIs
  <2> QED BY <2>1 DEF NoRecords
<1>5. found \in [Key -> Value \cup {Absent}] /\ expect' = NoRecords
  BY <1>1, <1>4 DEF NoRecords
<1> QED BY <1>1, <1>2, <1>5

LEMMA InitDoneKeeps ==
  ASSUME IInv, InitDone([k \in Key |-> Find(k)]) PROVE IInv'
<1> DEFINE found == [k \in Key |-> Find(k)]
<1>1. /\ phase = "init" /\ prog[main] = <<>> /\ phase' = "serve"
      /\ UNCHANGED <<pvars, cls, th, prog, starts>>
  BY InitDoneIs
<1>2. HoldsIn(mem, live, <<>>, NoRecords) BY InitDoneIs
<1>3. found \in [Key -> Value \cup {Absent}] /\ expect' = NoRecords
  BY InitDoneIs
<1> HIDE DEF found
<1>4. CallInv'
  <2>1. InitDone(found) BY DEF found
  <2> QED BY <1>3, <2>1, InitDoneCalls DEF IInv
<1>5. \A t \in Thread : ~Updating(t)'
  BY <1>1 DEF IInv, CallInv, CallsServed, Quiet, Updating
<1>6. TableInv' BY <1>1, <1>2, <1>3, <1>5, TableInvIs DEF pvars
<1>7. MemoryTypeOK' /\ ProgramsTyped' /\ TxPrograms' /\ Starts'
  BY <1>1, SamePool
<1> QED BY <1>4, <1>6, <1>7 DEF IInv

\* The threads are joined, and main frees what it finds.
LEMMA DestroyKeeps == ASSUME IInv, Destroy(destroy) PROVE IInv'
<1>1. CallInv' BY DestroyCalls DEF IInv
<1>2. /\ phase = "serve" /\ Quiet /\ phase' = "destroy"
      /\ prog' = [prog EXCEPT ![main] = destroy]
      /\ UNCHANGED <<pvars, cls, starts>>
  BY DEF Destroy
<1>3. \A t \in Thread : ~Updating(t) BY <1>2 DEF Quiet, Updating
<1>4. PICK ch : Chained(ch) BY <1>2, <1>3, IInvServing
<1>5. /\ destroy \in Seq(Step) /\ ToAllocate(destroy) = {}
      /\ cls.medium = "tx" => \A L : LogsFirst(destroy, L)
  BY <1>4, DestroyIs DEF IInv
<1>6. /\ ProgramsTyped' /\ prog'[main] = destroy
      /\ \A b \in Actor \ {main} : prog'[b] = prog[b]
  BY <1>2, <1>5, StartsProgram DEF IInv, Actor
<1>7. MemoryTypeOK' /\ live' = live /\ undo' = undo /\ fresh' = fresh
  BY <1>2 DEF IInv, MemoryTypeOK, pvars
<1>8. TxPrograms'
  BY <1>2, <1>5, <1>6, <1>7, Zenon DEF IInv, TxPrograms, Logged
<1>9. Starts' BY <1>2, <1>5, <1>6, <1>7 DEF IInv, Starts
<1>10. TableInv' BY <1>1, <1>2, Offline
<1> QED BY <1>1, <1>6, <1>7, <1>8, <1>9, <1>10 DEF IInv

\* The process is gone: nothing is to be performed any more.
LEMMA FailKeeps ==
  ASSUME IInv, CallInv', NEW how \in {"failed", "exited"}, Fail(how),
         UNCHANGED <<cls, starts>>, phase' \in {"down", "closed"},
         prog' = [a \in Actor |-> <<>>]
  PROVE  IInv'
<1>1. MemoryTypeOK' BY FailTypes DEF IInv
<1>2. live' \subseteq live /\ dying' = {} BY DEF Fail
<1>3. <<>> \in Seq(Step) OBVIOUS
<1>4. \A a \in Actor : prog'[a] = <<>> OBVIOUS
<1>5. ProgramsTyped' BY <1>3, Zenon DEF ProgramsTyped
<1>6. TxPrograms' BY <1>4, NoProgram DEF TxPrograms
<1>7. Starts' BY <1>2, <1>4, NoProgram DEF IInv, Starts
<1>8. TableInv' BY Offline
<1> QED BY <1>1, <1>5, <1>6, <1>7, <1>8 DEF IInv

LEMMA CloseKeeps == ASSUME IInv, Close PROVE IInv'
<1>1. CallInv' BY CloseCalls DEF IInv
<1>2. /\ phase = "destroy" /\ prog[main] = <<>> /\ Fail("exited")
      /\ phase' = "closed" /\ UNCHANGED <<cls, starts, prog>>
  BY DEF Close, ProcessExit
<1>3. Quiet BY <1>2 DEF IInv, CallInv, CallsServed
<1>4. \A a \in Actor : prog[a] = <<>>
  BY <1>2, <1>3, QuietPrograms DEF IInv, Actor
<1>5. prog' = [a \in Actor |-> <<>>]
  BY <1>2, <1>4 DEF IInv, CallInv, CallTypeOK
<1> QED BY <1>1, <1>2, <1>5, FailKeeps

LEMMA GoneKeeps ==
  ASSUME IInv, CallInv', NEW how \in {"failed", "exited"}, Fail(how), Gone
  PROVE  IInv'
<1>1. /\ phase' = "down" /\ UNCHANGED <<cls, starts>>
      /\ prog' = [a \in Actor |-> <<>>]
  BY DEF Gone, Actor
<1> QED BY <1>1, FailKeeps

LEMMA CrashKeeps == ASSUME IInv, Crash PROVE IInv'
<1>1. CallInv' BY CrashCalls DEF IInv
<1> QED BY <1>1, GoneKeeps DEF Crash, PowerFail

LEMMA MissDiesKeeps == ASSUME IInv, NEW t \in Thread, MissDies(t) PROVE IInv'
<1>1. Dies BY DEF MissDies
<1>2. CallInv' BY <1>1, DiesCalls DEF IInv
<1> QED BY <1>1, <1>2, GoneKeeps DEF Dies, ProcessExit

LEMMA SettlingKeeps == ASSUME IInv, Settling PROVE IInv'
<1>1. CallInv' BY SettlingCalls DEF IInv
<1>2. MemoryTypeOK' BY SettleTypes DEF IInv, Settling
<1>3. /\ power = "failed" /\ UNCHANGED svars
      /\ live' = live /\ undo' = undo /\ fresh' = fresh /\ dying' = dying
  BY DEF Settling, SettleNext, Settle
<1>4. UNCHANGED <<cls, phase, prog, starts>> BY <1>3 DEF svars
<1>5. phase' \notin {"init", "serve"}
  BY <1>3, <1>4 DEF IInv, CallInv, CallsServed
<1>6. TableInv' BY <1>1, <1>5, Offline
<1>7. ProgramsTyped' /\ TxPrograms' /\ Starts'
  BY <1>3, <1>4 DEF IInv, ProgramsTyped, TxPrograms, Logged, Starts
<1> QED BY <1>1, <1>2, <1>6, <1>7 DEF IInv

\* A program of init that a start is given.
LEMMA InitProgram ==
  ASSUME CallInv, NEW c \in Coeff, NEW o \in Table, TableCells(o) \cap live = {}
  PROVE  /\ init(c) \in Seq(Step) /\ FreesNothing(init(c))
         /\ \A q \in Table : q > o => TableCells(q) \cap ToAllocate(init(c)) = {}
         /\ cls.medium = "tx" =>
              EndsTx(init(c)) /\ \A L : LogsFirst(init(c), L)
         /\ HoldsIn(mem, live, init(c), NoRecords)
<1>1. NewTable \in Table /\ NewTable <= o BY NewTableIs
<1>2. PICK A \in SUBSET (RootCells \cup TableCells(NewTable)) :
        Does(init(c), mem, Opened(c, NewTable), A)
  BY <1>1, InitDoes
<1>3. /\ init(c) \in Seq(Step) /\ FreesNothing(init(c))
      /\ ToAllocate(init(c)) = A
  BY <1>2 DEF Does
<1>4. ASSUME NEW q \in Table, q > o PROVE TableCells(q) \cap A = {}
  <2>1. q # NewTable BY <1>1, <1>4, Objects
  <2>2. /\ RootCells \cap TableCells(q) = {}
        /\ TableCells(q) \cap TableCells(NewTable) = {}
    BY <1>1, <2>1, Fields
  <2> QED BY <2>2
<1>5. HoldsIn(mem, live, init(c), NoRecords)
  BY <1>1, InitHolds, TableInvIs DEF NoRecords
<1> QED BY <1>1, <1>3, <1>4, <1>5, InitDoes

LEMMA ReopenKeeps ==
  ASSUME IInv, NEW c \in Coeff, Reopen(init(c)) PROVE IInv'
<1> DEFINE o == starts + 2  p == init(c)
<1>1. CallInv' BY ReopenCalls DEF IInv
<1>2. /\ phase \in {"down", "closed"} /\ phase' = "init"
      /\ starts < cls.bound.restarts /\ starts' = starts + 1
      /\ prog' = [prog EXCEPT ![main] = p]
      /\ UNCHANGED <<cls, th, mem, may, vol, live, intx, undo, fresh, dying>>
      /\ power' = "up"
  BY DEF Reopen, Open
<1>3. starts \in Nat /\ cls.bound.restarts \in Nat
      /\ cls.bound.restarts < MaxTable
  BY Media DEF IInv, CallInv, CallTypeOK
<1>4. o \in Table /\ o > starts + 1
  BY <1>2, <1>3, HashAssumption DEF Table
<1>5. TableCells(o) \cap live = {} BY <1>4 DEF IInv, Starts
<1>6. /\ p \in Seq(Step) /\ FreesNothing(p)
      /\ \A q \in Table : q > o => TableCells(q) \cap ToAllocate(p) = {}
      /\ cls.medium = "tx" => \A L : LogsFirst(p, L)
      /\ HoldsIn(mem, live, p, NoRecords)
  BY <1>4, <1>5, InitProgram DEF IInv
<1> HIDE DEF p
<1>7. /\ ProgramsTyped' /\ prog'[main] = p
      /\ \A b \in Actor \ {main} : prog'[b] = prog[b]
  BY <1>2, <1>6, StartsProgram DEF IInv, Actor
<1>8. MemoryTypeOK' BY <1>2 DEF IInv, MemoryTypeOK
<1>9. TxPrograms'
  BY <1>2, <1>6, <1>7, Zenon DEF IInv, TxPrograms, Logged
<1>10. Starts'
  <2>1. \A q \in Table : q > starts' + 1 =>
          /\ q > o /\ q > starts + 1
    BY <1>2, <1>3, Objects
  <2>2. \A q \in Table : q > starts' + 1 =>
          /\ TableCells(q) \cap live' = {}
          /\ \A a \in Actor : TableCells(q) \cap ToAllocate(prog'[a]) = {}
    BY <1>2, <1>6, <1>7, <2>1 DEF IInv, Starts
  <2>3. starts' <= cls'.bound.restarts BY <1>2, <1>3
  <2>4. dying' = {} /\ \A a \in Actor : FreesNothing(prog'[a])
    BY <1>2, <1>6, <1>7 DEF IInv, Starts
  <2> QED BY <2>2, <2>3, <2>4 DEF Starts
<1>11. TableInv'
  <2>1. \A t \in Thread : ~Updating(t)'
    BY <1>2 DEF IInv, CallInv, CallsServed, Quiet, Updating
  <2> QED BY <1>2, <1>6, <1>7, <2>1, TableInvIs
<1> QED BY <1>1, <1>7, <1>8, <1>9, <1>10, <1>11 DEF IInv

LEMMA InitIInv == HashInit => IInv
<1> SUFFICES ASSUME NEW c \in Coeff, StoredsInit(RootCells, {}, init(c))
             PROVE  IInv
  BY DEF HashInit
<1> DEFINE p == init(c)
<1>1. CallInv BY InitCalls
<1>2. /\ phase = "init" /\ starts = 0 /\ cls \in Classes
      /\ prog = [t \in Thread \cup {main} |-> IF t = main THEN p ELSE <<>>]
      /\ live \subseteq RootCells /\ dying = {}
      /\ \A t \in Thread : th[t] = Idle
  BY DEF StoredsInit, PoolInit
<1>3. MemoryTypeOK
  <2>1. PoolInit(Cell, {}) \/ PoolInit({}, RootCells)
    BY DEF StoredsInit
  <2>2. RootCells \subseteq Cell BY Cells
  <2>3. /\ mem = [d \in Cell |-> Zero] /\ may = [d \in Cell |-> {Zero}]
        /\ vol \subseteq Cell /\ live \subseteq Cell /\ intx = FALSE
        /\ undo = NoUndo /\ fresh = {} /\ dying = {} /\ power = "up"
    BY <2>1, <2>2 DEF PoolInit
  <2> QED BY <2>3, ZeroAssumption, NoUndoFacts DEF MemoryTypeOK
<1>4. \A o \in Table : TableCells(o) \cap live = {} BY <1>2, Fields
<1>5. 1 \in Table BY HashAssumption DEF Table
<1>6. /\ p \in Seq(Step) /\ FreesNothing(p)
      /\ \A q \in Table : q > 1 => TableCells(q) \cap ToAllocate(p) = {}
      /\ cls.medium = "tx" => \A L : LogsFirst(p, L)
      /\ HoldsIn(mem, live, p, NoRecords)
  BY <1>1, <1>4, <1>5, InitProgram
<1> HIDE DEF p
<1>7. /\ prog \in [Actor -> Seq(Step)] /\ prog[main] = p
      /\ \A a \in Actor : a # main => prog[a] = <<>>
  BY <1>2, <1>6 DEF Actor
<1>8. ProgramsTyped BY <1>7 DEF ProgramsTyped
<1>9. TxPrograms BY <1>6, <1>7, NoProgram, Zenon DEF TxPrograms
<1>10. Starts
  <2>1. 0 <= cls.bound.restarts BY <1>1, Media
  <2>2. \A a \in Actor : FreesNothing(prog[a]) BY <1>6, <1>7, NoProgram
  <2>3. \A q \in Table : q > 1 =>
          /\ TableCells(q) \cap live = {}
          /\ \A a \in Actor : TableCells(q) \cap ToAllocate(prog[a]) = {}
    BY <1>4, <1>6, <1>7, NoProgram
  <2>4. starts + 1 = 1 /\ starts <= cls.bound.restarts BY <1>2, <2>1
  <2> QED BY <1>2, <2>2, <2>3, <2>4 DEF Starts
<1>11. TableInv
  <2>1. \A t \in Thread : ~Updating(t) BY <1>2 DEF Idle, Updating
  <2> QED BY <1>2, <1>6, <1>7, <2>1, TableInvIs
<1> QED BY <1>1, <1>3, <1>8, <1>9, <1>10, <1>11 DEF IInv

LEMMA StepIInv == IInv /\ [Next]_vars => IInv'
<1> SUFFICES ASSUME IInv, [Next]_vars PROVE IInv' OBVIOUS
<1>1. ASSUME NEW t \in Thread, NEW k \in Key,
             CallRead(t, k) \/ \E n \in Version : CallWrite(t, k, n)
      PROVE  IInv'
  BY <1>1, CallKeeps
<1>2. ASSUME NEW t \in Thread, ThreadStep(t) PROVE IInv'
  <2>1. t \in Actor BY DEF Actor
  <2>2. CASE Write(t) BY <2>2, WriteKeeps
  <2>3. CASE Read(t) BY <2>3, ReadKeeps
  <2>4. CASE Exec(t) BY <2>1, <2>4, ExecKeeps
  <2>5. CASE Leave(t) BY <2>5, LeaveKeeps
  <2>6. CASE CopyOut(t) BY <2>6, CopyOutKeeps
  <2>7. CASE MissDies(t) BY <2>7, MissDiesKeeps
  <2>8. CASE Return(t) BY <2>8, ReturnKeeps
  <2> QED BY <1>2, <2>2, <2>3, <2>4, <2>5, <2>6, <2>7, <2>8, Zenon
          DEF ThreadStep, ClientStep
<1>3. CASE MainStep
  <2>1. main \in Actor BY DEF Actor
  <2>2. CASE Exec(main) BY <2>1, <2>2, ExecKeeps
  <2>3. CASE InitDone([k \in Key |-> Find(k)]) BY <2>3, InitDoneKeeps
  <2>4. CASE Close BY <2>4, CloseKeeps
  <2> QED BY <1>3, <2>2, <2>3, <2>4, Zenon DEF MainStep
<1>4. CASE Destroy(destroy) BY <1>4, DestroyKeeps
<1>5. CASE Crash BY <1>5, CrashKeeps
<1>6. CASE Settling BY <1>6, SettlingKeeps
<1>7. ASSUME NEW c \in Coeff, Reopen(init(c)) PROVE IInv' BY <1>7, ReopenKeeps
<1>8. CASE Finished BY <1>8, UnchangedKeeps DEF Finished
<1>9. CASE UNCHANGED vars BY <1>9, UnchangedKeeps
<1> QED BY <1>1, <1>2, <1>3, <1>4, <1>5, <1>6, <1>7, <1>8, <1>9, Zenon DEF Next

-----------------------------------------------------------------------------
(***************************************************************************)
(* What callers of a hash map can rely on.                                 *)
(***************************************************************************)

\* The table in memory is, after the steps an operation has still to perform,
\* the one its calls ask for, whatever the interleaving and the failures.
THEOREM HashInvariance == Spec => []IInv
BY InitIInv, StepIInv, PTL DEF Spec

\* Between operations read() shows the last value written under a key, or
\* nothing if none was, wherever the drawn coefficients put it.
THEOREM HashShowsWrites == Spec => []MapCorrect
BY HashInvariance, IInvMapCorrect, PTL

\* Between operations no key is in the table twice and each entry is in the
\* bucket of its key: insert replaces the value of a key that exists.
THEOREM HashKeysUnique == Spec => []KeysUnique
BY HashInvariance, IInvKeysUnique, PTL

\* A step of a tx class stores what its transaction has logged, allocates and
\* frees through it; or it leaves the pool alone; or the pool is not in use.
LEMMA HashStepDisciplined ==
  IInv /\ [Next]_vars => [cls.medium = "tx" => TxClient!Disciplined]_pvars
<1> SUFFICES ASSUME IInv, [Next]_vars, cls.medium = "tx"
             PROVE  TxClient!Disciplined \/ UNCHANGED pvars
  OBVIOUS
<1> USE DEF TxClient!Disciplined, TxClient!WritesCovered, TxClient!Covered,
            TxClient!AllocatesInTx, TxClient!FreesInTx
<1>1. ASSUME NEW a \in Actor, Exec(a) PROVE TxClient!Disciplined
  <2>1. /\ \A c \in live : mem'[c] # mem[c] => c \in Logged
        /\ live' \ live \subseteq fresh'
        /\ live \ live' # {} => intx /\ ~intx'
    BY <1>1, ExecTx DEF IInv
  <2> QED BY <2>1 DEF Logged
<1>2. ASSUME NEW how \in {"failed", "exited"}, Fail(how)
      PROVE  TxClient!Disciplined
  BY <1>2 DEF Fail
<1>3. ASSUME NEW t \in Thread, NEW k \in Key,
             CallRead(t, k) \/ \E n \in Version : CallWrite(t, k, n)
      PROVE  UNCHANGED pvars
  BY <1>3 DEF CallRead, CallWrite, Call, StartCall
<1>4. ASSUME NEW t \in Thread, ThreadStep(t)
      PROVE  TxClient!Disciplined \/ UNCHANGED pvars
  <2>1. CASE Exec(t) BY <1>1, <2>1 DEF Actor
  <2>2. CASE MissDies(t) BY <1>2, <2>2 DEF MissDies, Dies, ProcessExit
  <2>3. CASE ~Exec(t) /\ ~MissDies(t)
    BY <1>4, <2>3 DEF ThreadStep, ClientStep, Write, Read, Enter, Leave,
                      CopyOut, Return
  <2> QED BY <2>1, <2>2, <2>3
<1>5. CASE MainStep
  <2>1. CASE Exec(main) BY <1>1, <2>1 DEF Actor
  <2>2. CASE Close BY <1>2, <2>2 DEF Close, ProcessExit
  <2>3. CASE InitDone([k \in Key |-> Find(k)]) BY <2>3 DEF InitDone
  <2> QED BY <1>5, <2>1, <2>2, <2>3 DEF MainStep
<1>6. CASE Destroy(destroy) BY <1>6 DEF Destroy
<1>7. CASE Crash BY <1>2, <1>7 DEF Crash, PowerFail
<1>8. CASE Settling BY <1>8 DEF Settling, SettleNext, Settle
<1>9. ASSUME NEW c \in Coeff, Reopen(init(c)) PROVE TxClient!Disciplined
  BY <1>9 DEF Reopen, Open, Recovered
<1>10. CASE Finished \/ UNCHANGED vars BY <1>10 DEF Finished, vars
<1> QED BY <1>3, <1>4, <1>5, <1>6, <1>7, <1>8, <1>9, <1>10, Zenon DEF Next

\* hashmap_pmem_tx and its concurrent classes store only into what the open
\* transaction has snapshotted or allocated, and allocate and free through it.
THEOREM HashTxDisciplined == Spec => Discipline
BY HashInvariance, HashStepDisciplined, PTL DEF Spec, Discipline

\* A run never changes its class.
LEMMA ClassKept == [Next]_vars => cls' = cls
<1> SUFFICES ASSUME [Next]_vars PROVE cls' = cls OBVIOUS
<1>1. ASSUME NEW t \in Thread, NEW k \in Key,
             CallRead(t, k) \/ \E n \in Version : CallWrite(t, k, n)
      PROVE  cls' = cls
  BY <1>1 DEF CallRead, CallWrite, Call, StartCall
<1>2. ASSUME NEW t \in Thread, ThreadStep(t) PROVE cls' = cls
  BY <1>2 DEF ThreadStep, ClientStep, Write, Read, Enter, Exec, Leave,
       CopyOut, MissDies, Dies, Gone, Return
<1>3. CASE MainStep BY <1>3 DEF MainStep, Exec, InitDone, Close
<1>4. CASE Destroy(destroy) \/ Crash BY <1>4 DEF Destroy, Crash, Gone
<1>5. ASSUME NEW c \in Coeff, Reopen(init(c)) PROVE cls' = cls
  BY <1>5 DEF Reopen
<1>6. CASE Settling \/ Finished \/ UNCHANGED vars
  BY <1>6 DEF Settling, Finished, vars, svars
<1> QED BY <1>1, <1>2, <1>3, <1>4, <1>5, <1>6, Zenon DEF Next

\* The abstract specification, with its theorem; it names the same calls.
Tx == INSTANCE TxDisciplineProofs WITH Root <- RootCells

LEMMA SameSteps ==
  ASSUME NEW u \in Step, MemoryStep(u) PROVE Tx!AnyStep
<1> USE DEF MemoryStep, Tx!AnyStep
<1>1. CASE u.op = "store"
  <2>1. u.c \in Cell /\ u.v \in Value BY <1>1 DEF Step
  <2>2. Tx!Store(u.c, u.v) BY <1>1 DEF Store, Tx!Store
  <2> QED BY <2>1, <2>2
<1>2. CASE u.op \in {"persist", "alloc", "free", "tx_add_range", "tx_alloc",
                     "tx_zalloc", "tx_free"}
  <2>1. u.C \in SUBSET Cell BY <1>2 DEF Step
  <2>2. \/ Tx!Persist(u.C) \/ Tx!Alloc(u.C) \/ Tx!Free(u.C)
        \/ Tx!TxAddRange(u.C) \/ Tx!TxAlloc(u.C) \/ Tx!TxZAlloc(u.C)
        \/ Tx!TxFree(u.C)
    BY <1>2 DEF Persist, Alloc, Free, TxAddRange, TxAlloc, TxZAlloc, TxFree,
         Tx!Persist, Tx!Alloc, Tx!Free, Tx!TxAddRange, Tx!TxAlloc,
         Tx!TxZAlloc, Tx!TxFree
  <2> QED BY <2>1, <2>2
<1>3. CASE u.op \in {"alloc_to", "zalloc_to"}
  <2>1. u.C \in SUBSET Cell /\ u.c \in Cell /\ u.v \in Value
    BY <1>3 DEF Step
  <2>2. Tx!AllocTo(u.C, u.c, u.v) \/ Tx!ZAllocTo(u.C, u.c, u.v)
    BY <1>3 DEF AllocTo, ZAllocTo, Tx!AllocTo, Tx!ZAllocTo
  <2> QED BY <2>1, <2>2
<1>4. CASE u.op = "free_in"
  <2>1. u.C \in SUBSET Cell /\ u.c \in Cell /\ Zero \in Value
    BY <1>4, ZeroAssumption DEF Step
  <2>2. Tx!FreeFrom(u.C, u.c) BY <1>4 DEF FreeFrom, Tx!FreeFrom
  <2> QED BY <2>1, <2>2
<1>5. CASE u.op \in {"tx_begin", "tx_end"}
  <2>1. Tx!TxBegin \/ Tx!TxCommit
    BY <1>5 DEF TxBegin, TxCommit, Tx!TxBegin, Tx!TxCommit, NoUndo, Tx!NoUndo
  <2> QED BY <2>1
<1> QED BY <1>1, <1>2, <1>3, <1>4, <1>5 DEF Step

LEMMA SameFailures ==
  ASSUME \/ Fail("failed") \/ Fail("exited") \/ SettleNext \/ Open
  PROVE  Tx!AnyStep
<1> USE DEF Tx!AnyStep
<1>1. ASSUME NEW how, Fail(how) PROVE Tx!Fail(how)
  BY <1>1 DEF Fail, Tx!Fail, AfterExit, Tx!AfterExit, AfterFailure,
       Tx!AfterFailure, NoUndo, Tx!NoUndo
<1>2. CASE Fail("failed") \/ Fail("exited")
  <2>1. Tx!PowerFail \/ Tx!ProcessExit
    BY <1>1, <1>2 DEF Tx!PowerFail, Tx!ProcessExit
  <2> QED BY <2>1
<1>3. CASE SettleNext
  <2>1. Tx!SettleNext
    BY <1>3 DEF SettleNext, Tx!SettleNext, Settle, Tx!Settle,
         Unsettled, Tx!Unsettled
  <2> QED BY <2>1
<1>4. CASE Open
  <2>1. Tx!Open
    BY <1>4 DEF Open, Tx!Open, Recovered, Tx!Recovered, Unsettled,
         Tx!Unsettled
  <2> QED BY <2>1
<1> QED BY <1>2, <1>3, <1>4

\* Whatever happens to the pool is a call of libpmemobj or a failure.
LEMMA PoolCalls ==
  ASSUME IInv, [Next]_vars
  PROVE  Tx!AnyStep \/ UNCHANGED pvars
<1>1. ASSUME NEW a \in Actor, Exec(a) PROVE Tx!AnyStep
  <2>1. prog[a][1] \in Step /\ MemoryStep(prog[a][1])
    BY <1>1, ExecDoes, Zenon DEF IInv
  <2> QED BY <2>1, SameSteps
<1>2. ASSUME NEW t \in Thread, NEW k \in Key,
             CallRead(t, k) \/ \E n \in Version : CallWrite(t, k, n)
      PROVE  UNCHANGED pvars
  BY <1>2 DEF CallRead, CallWrite, Call, StartCall
<1>3. ASSUME NEW t \in Thread, ThreadStep(t)
      PROVE  Tx!AnyStep \/ UNCHANGED pvars
  <2>1. CASE Exec(t) BY <1>1, <2>1 DEF Actor
  <2>2. CASE MissDies(t) BY <2>2, SameFailures DEF MissDies, Dies, ProcessExit
  <2>3. CASE ~Exec(t) /\ ~MissDies(t)
    BY <1>3, <2>3 DEF ThreadStep, ClientStep, Write, Read, Enter, Leave,
                      CopyOut, Return
  <2> QED BY <2>1, <2>2, <2>3
<1>4. CASE MainStep
  <2>1. CASE Exec(main) BY <1>1, <2>1 DEF Actor
  <2>2. CASE Close BY <2>2, SameFailures DEF Close, ProcessExit
  <2>3. CASE InitDone([k \in Key |-> Find(k)]) BY <2>3 DEF InitDone
  <2> QED BY <1>4, <2>1, <2>2, <2>3 DEF MainStep
<1>5. CASE Destroy(destroy) BY <1>5 DEF Destroy
<1>6. CASE Crash BY <1>6, SameFailures DEF Crash, PowerFail
<1>7. CASE Settling BY <1>7, SameFailures DEF Settling
<1>8. ASSUME NEW c \in Coeff, Reopen(init(c)) PROVE Tx!AnyStep
  BY <1>8, SameFailures DEF Reopen
<1>9. CASE Finished \/ UNCHANGED vars BY <1>9 DEF Finished, vars
<1> QED BY <1>2, <1>3, <1>4, <1>5, <1>6, <1>7, <1>8, <1>9, Zenon DEF Next

LEMMA TxStarts == HashInit /\ cls.medium = "tx" => Tx!Init
<1> SUFFICES ASSUME HashInit, cls.medium = "tx" PROVE Tx!Init
  OBVIOUS
<1>1. PoolInit({}, RootCells)
  BY DEF HashInit, StoredsInit, Volatile
<1>2. Tx!PoolInit({}, RootCells)
  BY <1>1 DEF PoolInit, Tx!PoolInit, NoUndo, Tx!NoUndo
<1> QED BY <1>2 DEF Tx!Init

LEMMA TxSteps ==
  IInv /\ cls.medium = "tx" /\ [Next]_vars => [Tx!Next]_(Tx!pvars)
<1> SUFFICES ASSUME IInv, cls.medium = "tx", [Next]_vars,
                    ~(UNCHANGED pvars)
             PROVE  Tx!Next
  BY Zenon DEF pvars, Tx!pvars
<1>1. TxClient!Disciplined BY HashStepDisciplined, Zenon
<1>2. Tx!Disciplined
  BY <1>1 DEF TxClient!Disciplined, TxClient!WritesCovered, TxClient!Covered,
       TxClient!AllocatesInTx, TxClient!FreesInTx, Tx!Disciplined,
       Tx!WritesCovered, Tx!Covered, Tx!AllocatesInTx, Tx!FreesInTx
<1>3. Tx!AnyStep BY PoolCalls, Zenon
<1> QED BY <1>2, <1>3 DEF Tx!Next

\* The hash table of a tx class, whatever its clients call and whenever it
\* fails, is a client of the pool as TxDiscipline describes it.
THEOREM HashTxRefinesDiscipline ==
  Spec /\ cls.medium = "tx" => Tx!Spec
<1>1. cls.medium = "tx" /\ [Next]_vars => (cls.medium = "tx")'
  BY ClassKept
<1> QED BY <1>1, TxStarts, TxSteps, HashInvariance, PTL DEF Spec, Tx!Spec

\* So a failure at any point of an insert, of init or of destroy leaves, once
\* the log has been applied, exactly the pool of the last TX_END.
THEOREM HashTxRecovers ==
  Spec /\ cls.medium = "tx" => []Tx!AtomicRecovery
<1>1. RootCells \subseteq Cell BY Cells
<1>2. Tx!Spec => []Tx!AtomicRecovery BY <1>1, Tx!Atomicity, ZeroAssumption
<1> QED BY <1>2, HashTxRefinesDiscipline

-----------------------------------------------------------------------------
(***************************************************************************)
(* What the pool of a tx class shows after a failure.                      *)
(***************************************************************************)

\* The inductive invariant of a tx class together with its pool's.
DurableInv == IInv /\ (cls.medium = "tx" => Tx!IInv /\ ImageInv)

\* Outside transactions the pool is that of the last commit.
LEMMA PoolSettled ==
  ASSUME Tx!IInv, vol = {}
  PROVE  /\ power # "up" => ~intx
         /\ ~intx => /\ undo = NoUndo /\ live = slive
                     /\ \A c \in slive : mem[c] = stable[c]
         /\ \A c \in slive : c \notin DOMAIN undo => may[c] = {mem[c]}
<1> USE DEF Tx!IInv, Tx!Untouched, Tx!LiveSplit, Tx!LogEmptyOutside,
            Tx!DownOutside, Tx!Committed
<1>1. power # "up" => ~intx OBVIOUS
<1>2. \A c \in slive : c \notin DOMAIN undo =>
        mem[c] = stable[c] /\ may[c] = {mem[c]}
  OBVIOUS
<1>3. ASSUME ~intx
      PROVE  /\ undo = NoUndo /\ live = slive
             /\ \A c \in slive : mem[c] = stable[c]
  <2>1. undo = NoUndo /\ fresh = {} BY <1>3 DEF Tx!NoUndo, NoUndo
  <2>2. DOMAIN undo = {} BY <2>1, NoUndoFacts
  <2> QED BY <1>2, <2>1, <2>2
<1> QED BY <1>1, <1>2, <1>3

\* A table that is shown is shown also if more is wanted.
LEMMA ShownMore ==
  ASSUME NEW F, NEW A, NEW want, TableShown(F, A, want),
         NEW now, \A k \in Key : want[k] \subseteq now[k]
  PROVE  TableShown(F, A, now)
<1>1. PICK ch \in [Bucket -> Seq(Entry)] :
        /\ TableMade(F) /\ Linked(F, ch) /\ Keyed(F, ch) /\ Wanted(F, ch, want)
        /\ RootCells \subseteq A /\ KeptIn(F, ch, A)
  BY DEF TableShown
<1>2. Wanted(F, ch, now)
  <2>1. ASSUME NEW k \in Key
        PROVE  LET c == ch[HashOf(F, k)]
                   hits == {n \in DOMAIN c : F[<<c[n], "key">>] = k}
               IN /\ hits = {} => Absent \in now[k]
                  /\ \A n \in hits : F[<<c[n], "value">>] \in now[k]
    BY <1>1 DEF Wanted
  <2> QED BY <2>1, Zenon DEF Wanted
<1> QED BY <1>1, <1>2 DEF TableShown

\* A table whose program has been performed is shown, also with more wanted.
LEMMA ShownIs ==
  ASSUME NEW m, NEW A \in SUBSET Cell, NEW want, HoldsIn(m, A, <<>>, want),
         RootCells \subseteq A, NEW G, \A c \in A : G[c] = m[c],
         NEW now, \A k \in Key : want[k] \subseteq now[k]
  PROVE  TableShown(G, A, now)
<1>1. PICK F, ch :
        /\ ch \in [Bucket -> Seq(Entry)] /\ Yields(<<>>, m, F)
        /\ TableMade(F) /\ Linked(F, ch) /\ Keyed(F, ch) /\ Wanted(F, ch, want)
        /\ KeptIn(F, ch, A \cup ToAllocate(<<>>))
  BY Zenon DEF HoldsIn
<1>2. \A c \in A : F[c] = G[c] BY <1>1 DEF Yields
<1>3. KeptIn(F, ch, A)
  <2>1. A \cup ToAllocate(<<>>) = A BY NoProgram
  <2> QED BY <1>1, <2>1
<1>4. /\ TableMade(G) /\ Linked(G, ch) /\ Keyed(G, ch)
      /\ Wanted(G, ch, want) /\ KeptIn(G, ch, A)
  BY <1>1, <1>2, <1>3, SameLists
<1>5. TableShown(G, A, want) BY <1>1, <1>4 DEF TableShown
<1> QED BY <1>5, ShownMore

LEMMA BucketsCell == <<0, "buckets">> \in Cell /\ <<0, "buckets">> \in RootCells
BY Cells

\* What the last commit left is what it was, if no less is expected of it.
LEMMA CommitStays ==
  ASSUME NoTableYet \/ TableStable, UNCHANGED <<stable, slive>>,
         \A k \in Key : expect[k] \subseteq expect'[k]
  PROVE  NoTableYet' \/ TableStable'
<1>1. CASE NoTableYet BY <1>1 DEF NoTableYet
<1>2. CASE TableStable
  <2>1. TableShown(stable, slive, expect') BY <1>2, ShownMore DEF TableStable
  <2> QED BY <2>1 DEF TableStable
<1> QED BY <1>1, <1>2

\* A step that changes neither the pool nor a program, and expects no less.
LEMMA ImageSame ==
  ASSUME TableImage,
         UNCHANGED <<pvars, phase, prog>>,
         \A k \in Key : expect[k] \subseteq expect'[k]
  PROVE  TableImage'
<1> USE DEF TableImage
<1>1. UNCHANGED <<mem, may, vol, live, intx, stable, slive>> BY DEF pvars
<1>2. Commits' BY <1>1 DEF Commits
<1>3. TableGone => TableGone' BY <1>1 DEF TableGone
<1>4. NoTableYet \/ TableStable => NoTableYet' \/ TableStable'
  BY <1>1, CommitStays
<1> QED BY <1>1, <1>2, <1>3, <1>4

\* An actor is given a program: an insert or destroy begins.
LEMMA ImageBegins ==
  ASSUME TableImage,
         UNCHANGED pvars, phase = "serve", prog \in [Actor -> Seq(Step)],
         NEW a \in Actor, prog[a] = <<>>, NEW p, EndsTx(p),
         prog' = [prog EXCEPT ![a] = p],
         \A k \in Key : expect[k] \subseteq expect'[k],
         \/ phase' = "serve"
         \/ /\ phase' = "destroy" /\ a = main
            /\ \A k \in Key : Absent \in expect'[k]
            /\ \E F : Yields(p, mem, F) /\ TableOf(F) = Zero
  PROVE  TableImage'
<1> USE DEF TableImage
<1>1. UNCHANGED <<mem, may, vol, live, intx, stable, slive>> BY DEF pvars
<1>2. prog'[a] = p /\ \A b \in Actor \ {a} : prog'[b] = prog[b] OBVIOUS
<1>3. \A b \in Actor : EndsTx(prog'[b]) BY <1>2 DEF Commits
<1>4. intx' => \E b \in Actor : prog'[b] # <<>> BY <1>1, <1>2 DEF Commits
<1>5. Commits' BY <1>1, <1>2, <1>3, <1>4 DEF Commits
<1>6. NoTableYet \/ TableStable BY DEF TableGone
<1> QED BY <1>1, <1>5, <1>6, CommitStays

\* Nobody has a step to perform: the pool shows what the table holds.
LEMMA ImageSettles ==
  ASSUME DurableInv, cls.medium = "tx", vol = {}, Commits,
         \A a \in Actor : prog[a] = <<>>, phase \in {"init", "serve"},
         NEW want, HoldsIn(mem, live, <<>>, want)
  PROVE  TableShown(stable, slive, want)
<1>1. ~intx BY DEF Commits
<1>2. live = slive /\ \A c \in slive : mem[c] = stable[c]
  BY <1>1, PoolSettled DEF DurableInv
<1>3. live \in SUBSET Cell BY DEF DurableInv, IInv, MemoryTypeOK
<1>4. RootCells \subseteq live BY DEF Commits
<1> QED BY <1>2, <1>3, <1>4, ShownIs

\* A memory step: the last one of a transaction commits what was wanted.
LEMMA ImageExec ==
  ASSUME DurableInv, cls.medium = "tx", TableImage,
         NEW a \in Actor, Exec(a), IInv'
  PROVE  TableImage'
<1> USE DEF TableImage
<1> DEFINE p == prog[a]  u == p[1]  bk == <<0, "buckets">>
<1>1. IInv /\ CallInv /\ MemoryTypeOK /\ ProgramsTyped /\ TxPrograms /\ Starts
  BY DEF DurableInv, IInv
<1>2. /\ p \in Seq(Step) /\ p # <<>>
      /\ u \in Step /\ MemoryStep(u) /\ prog'[a] = Tail(p)
      /\ \A b \in Actor \ {a} : prog[b] = <<>> /\ prog'[b] = <<>>
      /\ \A F : Yields(p, mem, F) => Yields(prog'[a], mem', F)
  BY <1>1, ExecDoes, Zenon
<1>3. UNCHANGED <<cls, phase, th, rd, wr, expect, dirty, calls, fails, starts>>
  BY <1>1, ExecIs
<1>4. /\ u.op \in {"store", "tx_begin", "tx_add_range", "tx_alloc",
                   "tx_zalloc", "tx_free", "tx_end"}
      /\ u.op = "tx_end" => Tail(p) = <<>>
  BY <1>1, <1>2, LogsFirstTail DEF TxPrograms
<1>5. EndsTx(p) BY DEF Commits
<1>6. u.op # "tx_end" => Tail(p) # <<>>
  <2> SUFFICES ASSUME Tail(p) = <<>> PROVE u.op = "tx_end" OBVIOUS
  <2>1. /\ Len(p) \in Nat \ {0} /\ Len(Tail(p)) = Len(p) - 1
    BY <1>2, TailIs
  <2>2. Len(p) = 1
    <3> HIDE DEF p
    <3>1. Tail(p) = <<>> OBVIOUS
    <3>2. Len(Tail(p)) = Len(<<>>) BY <3>1, Zenon
    <3>3. Len(<<>>) = 0 BY EmptySeq
    <3> QED BY <2>1, <3>2, <3>3
  <2> QED BY <1>2, <1>5, <2>2 DEF EndsTx
<1>7. \A b \in Actor : EndsTx(prog'[b])
  <2>1. EndsTx(prog'[a]) BY <1>2, <1>5, EndsTxTail
  <2>2. EndsTx(<<>>) BY DEF EndsTx
  <2> QED BY <1>2, <2>1, <2>2
<1>8. a \in Thread => phase = "serve" /\ Updating(a)
  BY <1>1, <1>2 DEF CallInv, CallsServed, Quiet, ProgramsOwned, Updating
<1>9. a = main => phase \in {"init", "destroy"}
  BY <1>1, <1>2 DEF CallInv, ProgramsOwned
<1>10. a = main \/ a \in Thread BY DEF Actor
<1>11. NoTableYet \/ TableStable BY <1>2 DEF TableGone
<1> HIDE DEF p, u
<1>12. phase' \in {"init", "serve"} => RootCells \subseteq live'
  <2> SUFFICES ASSUME phase \in {"init", "serve"} PROVE RootCells \subseteq live'
    BY <1>3
  <2>1. dying = {} /\ FreesNothing(p) BY <1>1 DEF Starts, p
  <2>2. 1 \in DOMAIN p BY <1>2, TailIs
  <2>3. Releases(u) = {} BY <2>1, <2>2 DEF FreesNothing, u
  <2>4. live \subseteq live' BY <1>2, <2>1, <2>3, StepKeepsLive
  <2> QED BY <2>4 DEF Commits
<1>13. phase' = "destroy" =>
         /\ \A k \in Key : Absent \in expect'[k]
         /\ \E F : Yields(prog'[main], mem', F) /\ TableOf(F) = Zero
  <2> SUFFICES ASSUME phase = "destroy"
               PROVE  /\ \A k \in Key : Absent \in expect'[k]
                      /\ \E F : Yields(prog'[main], mem', F) /\ TableOf(F) = Zero
    BY <1>3
  <2>1. a = main BY <1>8, <1>10
  <2>2. \E F : Yields(p, mem, F) /\ TableOf(F) = Zero
    BY <1>2, <2>1 DEF Commits, p
  <2> QED BY <1>2, <1>3, <2>1, <2>2 DEF Commits
<1>14. phase' = "init" => \A k \in Key : Absent \in expect'[k]
  BY <1>3 DEF Commits
<1>15. CASE u.op # "tx_end"
  <2>1. UNCHANGED <<vol, stable, slive>>
    BY <1>2, <1>4, <1>15 DEF MemoryStep, Store, TxBegin, TxAddRange, TxAlloc,
                             TxZAlloc, TxFree
  <2>2. Commits' BY <1>2, <1>6, <1>7, <1>12, <1>13, <1>14, <1>15 DEF Commits
  <2>3. \A k \in Key : expect[k] \subseteq expect'[k] BY <1>3
  <2> QED BY <1>11, <2>1, <2>2, <2>3, CommitStays
<1>16. CASE u.op = "tx_end"
  <2>1. TxCommit BY <1>2, <1>16 DEF MemoryStep
  <2>2. /\ mem' = mem /\ vol' = vol /\ ~intx' /\ stable' = mem
        /\ live' = live \ dying /\ slive' = live'
        /\ may' = [c \in Cell |-> IF c \in DOMAIN undo \cup fresh THEN {mem[c]}
                                  ELSE may[c]]
    BY <2>1 DEF TxCommit
  <2>3. Commits' BY <1>7, <1>12, <1>13, <1>14, <2>2 DEF Commits
  <2>4. \A b \in Actor : prog'[b] = <<>> BY <1>2, <1>4, <1>16
  <2>5. live' \in SUBSET Cell BY DEF IInv, MemoryTypeOK
  <2>6. ASSUME phase \in {"init", "serve"}, NEW want,
               HoldsIn(mem', live', <<>>, want),
               \A k \in Key : want[k] \subseteq expect'[k]
        PROVE  TableStable'
    <3>1. RootCells \subseteq live' BY <1>3, <1>12, <2>6
    <3>2. \A c \in live' : stable'[c] = mem'[c] BY <2>2
    <3>3. TableShown(stable', live', expect')
      BY <2>5, <2>6, <3>1, <3>2, ShownIs
    <3> QED BY <2>2, <3>3 DEF TableStable
  <2>7. CASE phase = "init"
    <3>1. HoldsIn(mem', live', <<>>, NoRecords)
      BY <1>3, <2>4, <2>7, TableInvIs DEF IInv, Actor
    <3>2. \A k \in Key : NoRecords[k] \subseteq expect'[k]
      BY <1>3, <1>14, <2>7 DEF NoRecords
    <3>3. TableStable' BY <2>6, <2>7, <3>1, <3>2
    <3> QED BY <2>2, <2>3, <3>3
  <2>8. CASE phase = "serve"
    <3> DEFINE k == th'[a].key  v == th'[a].val
               want == [expect' EXCEPT ![k] = {v}]
    <3>1. a \in Thread /\ Updating(a)' BY <1>3, <1>8, <1>9, <1>10, <2>8 DEF Updating
    <3>2. HoldsIn(mem', live', <<>>, want)
      BY <2>4, <3>1, TableInvIs DEF IInv
    <3>3. v \in expect'[k]
      <4>1. cls'.upsert BY <1>1, <1>3, Media
      <4>2. Writes(th[a].op, th[a].key)'
        BY <3>1, <4>1 DEF Writes, Updating
      <4> QED BY <3>1, <4>2 DEF IInv, CallInv, WritesExpected
    <3>4. expect' \in [Key -> SUBSET (Value \cup {Absent})]
      BY DEF IInv, CallInv, CallTypeOK
    <3>5. \A l \in Key : want[l] \subseteq expect'[l] BY <3>3, <3>4
    <3> HIDE DEF want
    <3>6. TableStable' BY <2>6, <2>8, <3>2, <3>5
    <3> QED BY <2>2, <2>3, <3>6
  <2>9. CASE phase = "destroy"
    <3>1. mem'[bk] = Zero
      <4>1. PICK F : Yields(<<>>, mem', F) /\ TableOf(F) = Zero
        BY <1>3, <1>13, <2>4, <2>9 DEF Actor
      <4> QED BY <4>1, BucketsCell DEF Yields, TableOf
    <3>2. may'[bk] = {mem'[bk]}
      <4>1. bk \in slive BY <1>11, BucketsCell DEF NoTableYet, TableStable, TableShown
      <4>2. bk \notin DOMAIN undo => may[bk] = {mem[bk]}
        BY <4>1, PoolSettled DEF DurableInv
      <4> QED BY <2>2, <4>2, BucketsCell
    <3>3. \A k \in Key : Absent \in expect'[k] BY <1>3, <1>13, <2>9
    <3>4. TableGone' BY <1>3, <2>2, <2>4, <2>9, <3>1, <3>2, <3>3 DEF TableGone
    <3> QED BY <2>2, <2>3, <3>4
  <2> QED BY <1>8, <1>9, <1>10, <2>7, <2>8, <2>9
<1> QED BY <1>15, <1>16

\* The process or the power fails.
LEMMA ImageFails ==
  ASSUME DurableInv, cls.medium = "tx", TableImage,
         NEW how, Fail(how), phase' \in {"down", "closed"},
         prog' = [a \in Actor |-> <<>>], UNCHANGED expect
  PROVE  TableImage'
<1> USE DEF TableImage
<1>1. /\ UNCHANGED <<vol, stable, slive>> /\ ~intx'
      /\ \A c \in Cell : mem'[c] = AfterExit(c) /\ may'[c] = AfterFailure(c)
  BY DEF Fail
<1>2. \A a \in Actor : prog'[a] = <<>> OBVIOUS
<1>3. EndsTx(<<>>) BY DEF EndsTx
<1>4. Commits' BY <1>1, <1>2, <1>3 DEF Commits
<1>5. CASE NoTableYet \/ TableStable
  <2>1. \A k \in Key : expect[k] \subseteq expect'[k] OBVIOUS
  <2> QED BY <1>1, <1>4, <1>5, <2>1, CommitStays
<1>6. CASE TableGone
  <2>1. DOMAIN undo = {}
    BY <1>6, PoolSettled, NoUndoFacts DEF TableGone, DurableInv
  <2>2. \A c \in Cell : mem'[c] = mem[c] /\ may'[c] = may[c]
    BY <1>1, <2>1 DEF AfterExit, AfterFailure
  <2>3. TableGone' BY <1>1, <1>2, <1>6, <2>2, BucketsCell DEF TableGone
  <2> QED BY <1>1, <1>4, <2>3
<1> QED BY <1>5, <1>6

\* The medium settles; the pointer that destroy has cleared is settled.
LEMMA ImageSettling ==
  ASSUME IInv, TableImage, Settling
  PROVE  TableImage'
<1> USE DEF TableImage
<1>1. PICK c, v : Settle(c, v) BY Zenon DEF Settling, SettleNext
<1>2. /\ UNCHANGED <<vol, live, intx, stable, slive, phase, prog, expect>>
      /\ power = "failed" /\ mem' = [mem EXCEPT ![c] = v]
      /\ may' = [may EXCEPT ![c] = {v}]
  BY <1>1 DEF Settle, Settling, svars
<1>3. phase \notin {"init", "serve", "destroy"}
  BY <1>2 DEF IInv, CallInv, CallsServed
<1>4. Commits' BY <1>2, <1>3 DEF Commits
<1>5. CASE NoTableYet \/ TableStable
  <2>1. \A k \in Key : expect[k] \subseteq expect'[k] BY <1>2
  <2> QED BY <1>2, <1>4, <1>5, <2>1, CommitStays
<1>6. CASE TableGone
  <2>1. <<0, "buckets">> # c BY <1>1, <1>6 DEF TableGone, Settle, Unsettled
  <2>2. /\ mem'[<<0, "buckets">>] = mem[<<0, "buckets">>]
        /\ may'[<<0, "buckets">>] = may[<<0, "buckets">>]
    BY <1>2, <2>1, BucketsCell DEF IInv, MemoryTypeOK
  <2>3. TableGone' BY <1>2, <1>6, <2>2 DEF TableGone
  <2> QED BY <1>2, <1>4, <2>3
<1> QED BY <1>5, <1>6

\* An insert or update begins: from now on either value may be shown.
LEMMA ImageWrite ==
  ASSUME DurableInv, cls.medium = "tx", TableImage,
         NEW t \in Thread, Write(t)
  PROVE  TableImage'
<1> DEFINE k == th[t].key  v == th[t].val  p == insert(k, v)
           now == [expect EXCEPT ![k] = {v}]
<1>1. IInv /\ prog \in [Actor -> Seq(Step)] /\ t \in Actor
  BY DEF DurableInv, IInv, ProgramsTyped, Actor
<1>2. /\ th[t].op \in {"insert", "update"} /\ Enter(t, p, None)
      /\ phase = "serve" /\ k \in Key /\ prog[t] = <<>>
      /\ Writes(th[t].op, k) /\ \A u \in Thread : ~Updating(u)
      /\ UNCHANGED <<pvars, cls, phase, starts>>
      /\ prog' = [prog EXCEPT ![t] = p]
      /\ expect' = [expect EXCEPT ![k] = @ \cup {v}]
      /\ expect \in [Key -> SUBSET (Value \cup {Absent})]
      /\ p \in Seq(Step) /\ FreesNothing(p)
      /\ \A o \in Table : TableCells(o) \cap ToAllocate(p) = {}
      /\ cls.medium = "tx" => EndsTx(p) /\ \A L : LogsFirst(p, L)
      /\ WillHold(p, now)
  BY <1>1, WriteIs, Zenon
<1> HIDE DEF k, v, p, now
<1>3. \A l \in Key : expect[l] \subseteq expect'[l] BY <1>2
<1> QED BY <1>1, <1>2, <1>3, ImageBegins

\* It returns: the pool shows what it has written.
LEMMA ImageLeave ==
  ASSUME DurableInv, cls.medium = "tx", TableImage,
         NEW t \in Thread, Leave(t)
  PROVE  TableImage'
<1> DEFINE k == th[t].key  v == th[t].val  now == [expect EXCEPT ![k] = {v}]
<1>1. IInv /\ CallInv BY DEF DurableInv, IInv
<1>2. /\ th[t].pc = "in" /\ prog[t] = <<>>
      /\ expect' = IF Writes(th[t].op, k) THEN now ELSE expect
      /\ UNCHANGED <<pvars, phase, prog>>
  BY DEF Leave
<1>3. phase = "serve" BY <1>1, <1>2 DEF CallInv, CallsServed, Quiet
<1>4. CASE Updating(t)
  <2>1. expect' = now
    BY <1>1, <1>2, <1>4, Media DEF Updating, Writes
  <2>2. HoldsIn(mem, live, <<>>, now)
    BY <1>1, <1>2, <1>4, TableInvIs DEF IInv
  <2>3. \A a \in Actor : prog[a] = <<>>
    <3>1. \A u \in Thread \ {t} : ~Updating(u)
      BY <1>1, <1>2, <1>4 DEF CallInv, Excluded, Updating
    <3> QED BY <1>1, <1>2, <1>3, <3>1 DEF CallInv, ProgramsOwned, Actor
  <2> HIDE DEF now
  <2>4. TableShown(stable, slive, expect')
    BY <1>3, <2>1, <2>2, <2>3, ImageSettles DEF TableImage
  <2>5. UNCHANGED <<mem, may, vol, live, intx, stable, slive>>
    BY <1>2 DEF pvars
  <2>6. TableStable' BY <2>4, <2>5 DEF TableStable
  <2>7. Commits' BY <1>2, <1>3, <2>5 DEF TableImage, Commits
  <2> QED BY <2>5, <2>6, <2>7 DEF TableImage
<1>5. CASE ~Updating(t)
  <2>1. expect' = expect BY <1>2, <1>5 DEF Updating, Writes
  <2> QED BY <1>2, <2>1, ImageSame
<1> QED BY <1>4, <1>5

\* init has returned: the pool shows an empty table.
LEMMA ImageInitDone ==
  ASSUME DurableInv, cls.medium = "tx", TableImage,
         InitDone([k \in Key |-> Find(k)])
  PROVE  TableImage'
<1>1. IInv /\ CallInv BY DEF DurableInv, IInv
<1>2. /\ phase = "init" /\ prog[main] = <<>> /\ phase' = "serve"
      /\ UNCHANGED <<pvars, cls, th, prog, starts>>
      /\ expect' = NoRecords /\ HoldsIn(mem, live, <<>>, NoRecords)
  BY <1>1, InitDoneIs
<1>3. \A a \in Actor : prog[a] = <<>>
  BY <1>1, <1>2, QuietPrograms DEF CallInv, CallsServed, Actor
<1>4. TableShown(stable, slive, expect')
  BY <1>2, <1>3, ImageSettles DEF TableImage
<1>5. UNCHANGED <<mem, may, vol, live, intx, stable, slive>>
  BY <1>2 DEF pvars
<1>6. TableStable' BY <1>4, <1>5 DEF TableStable
<1>7. Commits' BY <1>2, <1>5 DEF TableImage, Commits
<1> QED BY <1>5, <1>6, <1>7 DEF TableImage

\* destroy begins: from now on the records may be gone.
LEMMA ImageDestroy ==
  ASSUME DurableInv, cls.medium = "tx", TableImage, Destroy(destroy)
  PROVE  TableImage'
<1>1. IInv /\ CallInv BY DEF DurableInv, IInv
<1>2. /\ phase = "serve" /\ Quiet /\ phase' = "destroy" /\ UNCHANGED pvars
      /\ prog' = [prog EXCEPT ![main] = destroy]
      /\ expect' = [k \in Key |-> expect[k] \cup {Absent}]
  BY DEF Destroy
<1>3. \A t \in Thread : ~Updating(t) BY <1>2 DEF Quiet, Updating
<1>4. PICK ch : Chained(ch) BY <1>1, <1>2, <1>3, IInvServing
<1>5. EndsTx(destroy) /\ \E F : Yields(destroy, mem, F) /\ TableOf(F) = Zero
  BY <1>1, <1>4, DestroyIs
<1>6. /\ prog \in [Actor -> Seq(Step)] /\ main \in Actor
      /\ prog[main] = <<>>
  BY <1>1, <1>2 DEF IInv, ProgramsTyped, CallInv, ProgramsOwned, Actor
<1>7. \A k \in Key : expect[k] \subseteq expect'[k] /\ Absent \in expect'[k]
  BY <1>2
<1> QED BY <1>2, <1>5, <1>6, <1>7, ImageBegins

\* The calls and returns of a client, and a read, leave the pool alone.
LEMMA ImageClient ==
  ASSUME DurableInv, TableImage, NEW t \in Thread,
         \/ \E k \in Key : \/ CallRead(t, k)
                           \/ \E n \in Version : CallWrite(t, k, n)
         \/ Read(t) \/ CopyOut(t) \/ Return(t)
  PROVE  TableImage' /\ starts' = starts
<1>1. UNCHANGED <<pvars, phase, prog, expect, starts>>
  <2>1. CASE Read(t) BY <2>1, ReadIs DEF DurableInv
  <2>2. CASE ~Read(t)
    BY <2>2 DEF CallRead, CallWrite, Call, StartCall, CopyOut, Return
  <2> QED BY <2>1, <2>2
<1> QED BY <1>1, ImageSame

\* The process ends or the power fails.
LEMMA ImageGone ==
  ASSUME DurableInv, cls.medium = "tx", TableImage,
         \/ Crash \/ Close \/ \E t \in Thread : MissDies(t)
  PROVE  TableImage' /\ starts' = starts
<1>1. CASE Close
  <2>1. IInv /\ CallInv BY DEF DurableInv, IInv
  <2>2. /\ phase = "destroy" /\ prog[main] = <<>> /\ Fail("exited")
        /\ phase' = "closed" /\ UNCHANGED <<prog, expect, starts>>
    BY <1>1 DEF Close, ProcessExit
  <2>3. \A a \in Actor : prog[a] = <<>>
    BY <2>1, <2>2, QuietPrograms DEF CallInv, CallsServed, Actor
  <2>4. prog' = [a \in Actor |-> <<>>]
    BY <2>1, <2>2, <2>3 DEF CallInv, CallTypeOK
  <2> QED BY <2>2, <2>4, ImageFails
<1>2. CASE Crash \/ \E t \in Thread : MissDies(t)
  <2>1. PICK how : Fail(how)
    BY <1>2 DEF Crash, MissDies, Dies, PowerFail, ProcessExit
  <2>2. /\ phase' = "down" /\ UNCHANGED <<expect, starts>>
        /\ prog' = [a \in Actor |-> <<>>]
    BY <1>2 DEF Crash, MissDies, Dies, Gone, Actor
  <2> QED BY <2>1, <2>2, ImageFails
<1> QED BY <1>1, <1>2

LEMMA ImageStep ==
  ASSUME DurableInv, cls.medium = "tx", [Next]_vars, IInv', starts' = 0
  PROVE  TableImage'
<1>1. starts \in Nat BY DEF DurableInv, IInv, CallInv, CallTypeOK
<1>2. starts = 0 => TableImage BY DEF DurableInv, ImageInv
<1>3. ASSUME NEW a \in Actor, Exec(a) PROVE TableImage'
  <2>1. starts = 0 BY <1>3 DEF Exec
  <2> QED BY <1>2, <1>3, <2>1, ImageExec
<1>4. ASSUME NEW t \in Thread, NEW k \in Key,
             CallRead(t, k) \/ \E n \in Version : CallWrite(t, k, n)
      PROVE  TableImage'
  <2>1. starts = 0 BY <1>4 DEF CallRead, CallWrite, Call, StartCall
  <2> QED BY <1>2, <1>4, <2>1, ImageClient
<1>5. ASSUME NEW t \in Thread, ThreadStep(t) PROVE TableImage'
  <2>1. CASE Exec(t) BY <1>3, <2>1 DEF Actor
  <2>2. CASE Write(t)
    <3>1. starts = 0 BY <2>2 DEF Write, Enter
    <3> QED BY <1>2, <2>2, <3>1, ImageWrite
  <2>3. CASE Leave(t)
    <3>1. starts = 0 BY <2>3 DEF Leave
    <3> QED BY <1>2, <2>3, <3>1, ImageLeave
  <2>4. CASE Read(t) \/ CopyOut(t) \/ Return(t)
    <3>1. starts = 0 BY <2>4 DEF Read, Enter, CopyOut, Return
    <3> QED BY <1>2, <2>4, <3>1, ImageClient
  <2>5. CASE MissDies(t)
    <3>1. starts = 0 BY <2>5 DEF MissDies, Dies, Gone
    <3> QED BY <1>2, <2>5, <3>1, ImageGone
  <2> QED BY <1>5, <2>1, <2>2, <2>3, <2>4, <2>5, Zenon
          DEF ThreadStep, ClientStep
<1>6. CASE MainStep
  <2>1. CASE Exec(main) BY <1>3, <2>1 DEF Actor
  <2>2. CASE InitDone([k \in Key |-> Find(k)])
    <3>1. starts = 0 BY <2>2 DEF InitDone
    <3> QED BY <1>2, <2>2, <3>1, ImageInitDone
  <2>3. CASE Close
    <3>1. starts = 0 BY <2>3 DEF Close
    <3> QED BY <1>2, <2>3, <3>1, ImageGone
  <2> QED BY <1>6, <2>1, <2>2, <2>3, Zenon DEF MainStep
<1>7. CASE Destroy(destroy)
  <2>1. starts = 0 BY <1>7 DEF Destroy
  <2> QED BY <1>2, <1>7, <2>1, ImageDestroy
<1>8. CASE Crash
  <2>1. starts = 0 BY <1>8 DEF Crash, Gone
  <2> QED BY <1>2, <1>8, <2>1, ImageGone
<1>9. CASE Settling
  <2>1. starts = 0 BY <1>9 DEF Settling, svars
  <2> QED BY <1>2, <1>9, <2>1, ImageSettling DEF DurableInv
<1>10. ASSUME NEW c \in Coeff, Reopen(init(c)) PROVE TableImage'
  BY <1>1, <1>10 DEF Reopen
<1>11. CASE Finished \/ UNCHANGED vars
  <2>1. UNCHANGED <<pvars, phase, prog, expect, starts>>
    BY <1>11 DEF Finished, vars, svars
  <2> QED BY <1>2, <2>1, ImageSame
<1> QED BY <1>3, <1>4, <1>5, <1>6, <1>7, <1>8, <1>9, <1>10, <1>11, Zenon
        DEF Next

LEMMA StepDurable == DurableInv /\ [Next]_vars => DurableInv'
<1> SUFFICES ASSUME DurableInv, [Next]_vars PROVE DurableInv' OBVIOUS
<1>1. IInv /\ IInv' BY StepIInv DEF DurableInv
<1>2. cls' = cls BY ClassKept
<1>3. ASSUME cls.medium = "tx" PROVE Tx!IInv' /\ ImageInv'
  <2>1. Tx!IInv BY <1>3 DEF DurableInv
  <2>2. [Tx!Next]_(Tx!pvars) BY <1>1, <1>3, TxSteps
  <2>3. RootCells \subseteq Cell BY Cells
  <2>4. Tx!IInv' BY <2>1, <2>2, <2>3, ZeroAssumption, Tx!StepIInv
  <2>5. ImageInv' BY <1>1, <1>3, ImageStep DEF ImageInv
  <2> QED BY <2>4, <2>5
<1> QED BY <1>1, <1>2, <1>3 DEF DurableInv

LEMMA InitDurable == HashInit => DurableInv
<1> SUFFICES ASSUME NEW c \in Coeff, StoredsInit(RootCells, {}, init(c))
             PROVE  DurableInv
  BY DEF HashInit
<1>1. HashInit /\ IInv BY InitIInv DEF HashInit
<1>2. ASSUME cls.medium = "tx" PROVE Tx!IInv
  <2>1. Tx!Init BY <1>1, <1>2, TxStarts
  <2>2. RootCells \subseteq Cell BY Cells
  <2> QED BY <2>1, <2>2, ZeroAssumption, Tx!InitIInv
<1>3. ASSUME cls.medium = "tx" PROVE TableImage
  <2>1. PoolInit({}, RootCells) BY <1>3 DEF StoredsInit, Volatile
  <2>2. /\ phase = "init" /\ expect = [k \in Key |-> {Absent}]
        /\ prog = [t \in Thread \cup {main} |->
                     IF t = main THEN init(c) ELSE <<>>]
    BY DEF StoredsInit
  <2>3. /\ vol = {} /\ ~intx /\ live = RootCells /\ slive = RootCells
        /\ stable = [d \in Cell |-> Zero]
    BY <2>1 DEF PoolInit
  <2>4. NoTableYet BY <2>2, <2>3, BucketsCell DEF NoTableYet
  <2>5. EndsTx(init(c))
    <3>1. \A o \in Table : TableCells(o) \cap live = {} BY <2>3, Fields
    <3>2. 1 \in Table BY HashAssumption DEF Table
    <3> QED BY <1>1, <1>3, <3>1, <3>2, InitProgram DEF IInv
  <2>6. EndsTx(<<>>) BY DEF EndsTx
  <2>7. \A a \in Actor : EndsTx(prog[a]) BY <2>2, <2>5, <2>6 DEF Actor
  <2>8. Commits BY <2>2, <2>3, <2>7 DEF Commits
  <2> QED BY <2>3, <2>4, <2>8 DEF TableImage
<1> QED BY <1>1, <1>2, <1>3 DEF DurableInv, ImageInv

\* After a failure the memory is the pool of the last TX_END, and that shows
\* what is expected.
LEMMA DurableShows == DurableInv => ImageDurable
<1> SUFFICES ASSUME DurableInv, Recovered, cls.medium = "tx", starts = 0,
                    NEW k \in Key
             PROVE  Find(k) \in expect[k]
  BY DEF ImageDurable, Shows
<1>1. Tx!IInv /\ TableImage BY DEF DurableInv, ImageInv
<1>2. \A c \in slive : mem[c] = stable[c]
  <2>1. power # "up" BY DEF Recovered
  <2> QED BY <1>1, <2>1, PoolSettled DEF TableImage
<1>3. CASE TableStable
  <2>1. PICK ch \in [Bucket -> Seq(Entry)] :
          /\ TableMade(stable) /\ Linked(stable, ch) /\ Keyed(stable, ch)
          /\ Wanted(stable, ch, expect)
          /\ RootCells \subseteq slive /\ KeptIn(stable, ch, slive)
    BY <1>3 DEF TableStable, TableShown
  <2>2. \A c \in slive : stable[c] = mem[c] BY <1>2
  <2>3. /\ TableMade(mem) /\ Linked(mem, ch) /\ Keyed(mem, ch)
        /\ Wanted(mem, ch, expect)
    BY <2>1, <2>2, SameLists
  <2> QED BY <2>1, <2>3, FindIs DEF Chained
<1>4. CASE NoTableYet \/ TableGone
  <2>1. TableP = Zero /\ Absent \in expect[k]
    BY <1>2, <1>4 DEF NoTableYet, TableGone, TableP
  <2> QED BY <2>1 DEF Find
<1> QED BY <1>1, <1>3, <1>4 DEF TableImage

\* Whenever the process ends or the power fails before the first restart, the
\* pool of a tx class shows every write that has returned, and of one that has
\* not either the old or the new value: insert commits both pointer and entry.
THEOREM HashFailureLosesNoWrite == Spec => []ImageDurable
BY InitDurable, StepDurable, DurableShows, PTL DEF Spec
=============================================================================
