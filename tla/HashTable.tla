------------------------------ MODULE HashTable ------------------------------
(***************************************************************************)
(* storeds/hashmap: a table of buckets, each a list of entries with the    *)
(* newest first, in DRAM, in libvmem memory, in persistent memory with     *)
(* explicit persists (pmem) and with transactions (tx).  The coefficients  *)
(* of the hash function are drawn at random by init and kept in the root.  *)
(***************************************************************************)
EXTENDS Storeds, FiniteSetsExt, SequencesExt

CONSTANTS
  INIT_BUCKETS_NUM,
  HASH_FUNC_COEFF_P,
  Coeff,       (* the pairs <<a, b>> that rand() may give *)
  MaxTable,    (* bound: bucket arrays that fit the pool *)
  MaxEntry     (* bound: entries that fit the heap *)

ASSUME HashAssumption ==
  /\ INIT_BUCKETS_NUM \in Nat \ {0} /\ HASH_FUNC_COEFF_P \in Nat \ {0}
  /\ MaxTable \in Nat \ {0} /\ MaxEntry \in Nat
  /\ \A c \in Coeff : c[1] \in Nat \ {0} /\ c[2] \in Nat

Table == 1..MaxTable
Entry == (MaxTable + 1)..(MaxTable + MaxEntry)
Bucket == 0..(INIT_BUCKETS_NUM - 1)
RootCells == {<<0, "a">>, <<0, "b">>, <<0, "buckets">>}
TableCells(o) == {<<o, "bucket", i>> : i \in Bucket} \cup {<<o, "nbuckets">>}
EntryCells(e) == {<<e, "key">>, <<e, "value">>, <<e, "next">>}
HashCell == RootCells \cup (UNION {TableCells(o) : o \in Table})
                      \cup (UNION {EntryCells(e) : e \in Entry})
HashValue == {Zero, Torn, INIT_BUCKETS_NUM} \cup Table \cup Entry \cup Key
             \cup Val \cup UNION {{c[1], c[2]} : c \in Coeff}

\* OID_NULL is no object, and a result pointer that is not set points to none.
ASSUME ContentAssumption ==
  /\ Cell = HashCell /\ Value = HashValue
  /\ None \notin Cell
  /\ Zero \notin Table \cup Entry \cup {INIT_BUCKETS_NUM}

TableP == mem[<<0, "buckets">>]
BucketCell(i) == <<TableP, "bucket", i>>

\* The classes of storeds/hashmap.
ht_dram == Class("hashmap_dram", "dram", "none", TRUE)
ht_dram_concurrent_lock ==
  [ht_dram EXCEPT !.name = "hashmap_dram_concurrent_lock", !.lock = "rwlock"]
ht_dram_concurrent_mlock ==
  [ht_dram EXCEPT !.name = "hashmap_dram_concurrent_mlock", !.lock = "mutex"]
ht_vmem == Class("hashmap_vmem", "vmem", "none", TRUE)
ht_vmem_concurrent_mlock ==
  [ht_vmem EXCEPT !.name = "hashmap_vmem_concurrent_mlock", !.lock = "mutex"]
ht_pmem == Class("hashmap_pmem", "pmem", "none", TRUE)
ht_pmem_concurrent_lock ==
  [ht_pmem EXCEPT !.name = "hashmap_pmem_concurrent_lock", !.lock = "rwlock"]
ht_pmem_concurrent_mlock ==
  [ht_pmem EXCEPT !.name = "hashmap_pmem_concurrent_mlock", !.lock = "mutex"]
ht_pmem_tx == Class("hashmap_pmem_tx", "tx", "none", TRUE)
ht_pmem_tx_concurrent_lock ==
  [ht_pmem_tx EXCEPT !.name = "hashmap_pmem_tx_concurrent_lock",
                     !.lock = "rwlock"]
ht_pmem_tx_concurrent_mlock ==
  [ht_pmem_tx EXCEPT !.name = "hashmap_pmem_tx_concurrent_mlock",
                     !.lock = "mutex"]

\* Each update calls insert; every start has room for another table.
ASSUME ClassAssumption ==
  \A c \in Classes : c.upsert /\ c.bound.restarts < MaxTable

-----------------------------------------------------------------------------
hash_function(k) ==
  ((k * mem[<<0, "a">>] + mem[<<0, "b">>]) % HASH_FUNC_COEFF_P)
    % mem[<<TableP, "nbuckets">>]

\* The entries a walk through bucket i meets: the n-th is Zero after the last.
Walk(i) ==
  LET nth[n \in 0..MaxEntry] ==
        IF n = 0 THEN mem[BucketCell(i)]
        ELSE IF nth[n - 1] \in Entry THEN mem[<<nth[n - 1], "next">>]
             ELSE nth[n - 1]
  IN nth

Chain(i) == LET nth == Walk(i)
                n == Cardinality({m \in 0..MaxEntry : nth[m] \in Entry})
            IN [m \in 1..n |-> nth[m - 1]]

\* Mutant: a walk never finds its key.
Hits_none(k) == {}

\* Mutant: keys are not compared.
Hits_all(k) == DOMAIN Chain(hash_function(k))

\* The places of the key in its chain.
Hits(k) == LET c == Chain(hash_function(k))
           IN {n \in DOMAIN c : mem[<<c[n], "key">>] = k}

\* The entry insert replaces, the one a dram read returns: the walk stops at
\* the first hit.  A persistent read goes on and returns the last.
FirstHit(k) == Chain(hash_function(k))[Min(Hits(k))]

LastHit(k) == Chain(hash_function(k))[Max(Hits(k))]

ReadHit(k) == IF Volatile(cls) THEN FirstHit(k) ELSE LastHit(k)

\* A pool whose table init has not reached shows nothing.
Find(k) ==
  IF TableP = Zero \/ mem[<<TableP, "nbuckets">>] = Zero \/ Hits(k) = {}
  THEN Absent ELSE mem[<<ReadHit(k), "value">>]

-----------------------------------------------------------------------------
(***************************************************************************)
(* init makes a new, empty table, also in a pool that holds one already.   *)
(***************************************************************************)
NewTable == Min({o \in Table : TableCells(o) \cap live = {}})

Coefficients(c) == <<St(<<0, "a">>, c[1]), St(<<0, "b">>, c[2])>>

ht_dram_init(c) ==
  <<Al(RootCells)>> \o Coefficients(c)
  \o <<Al(TableCells(NewTable)), St(<<0, "buckets">>, NewTable),
       St(<<NewTable, "nbuckets">>, INIT_BUCKETS_NUM)>>
  \o SetToSeq({St(<<NewTable, "bucket", i>>, Zero) : i \in Bucket})

ht_pmem_init(c) ==
  Coefficients(c)
  \o <<ZAlTo(TableCells(NewTable), <<0, "buckets">>, NewTable),
       St(<<NewTable, "nbuckets">>, INIT_BUCKETS_NUM), Fl(RootCells)>>

ht_pmem_tx_init(c) ==
  <<Bg, Sn(RootCells)>> \o Coefficients(c)
  \o <<TZAl(TableCells(NewTable)), St(<<0, "buckets">>, NewTable),
       St(<<NewTable, "nbuckets">>, INIT_BUCKETS_NUM), Cm>>

init(c) ==
  CASE Volatile(cls) -> ht_dram_init(c)
    [] cls.medium = "pmem" -> ht_pmem_init(c)
    [] cls.medium = "tx" -> ht_pmem_tx_init(c)

(***************************************************************************)
(* insert, and update, which calls it.                                     *)
(***************************************************************************)
FreeEntries == {e \in Entry : EntryCells(e) \cap live = {}}
NewEntry == Min(FreeEntries)

\* Bound: the heap has room for what an insert may allocate.
HasRoom == \E e, f \in FreeEntries : e # f

\* sizeof(struct pmem_entry) from a bucket on spans the buckets behind it.
Span(i) == {BucketCell(j) : j \in i..(INIT_BUCKETS_NUM - 1)}

\* The new entry in front of bucket i.
Fill(e, k, v, i) ==
  <<St(<<e, "key">>, k)>> \o Cp(<<e, "value">>, v)
  \o <<St(<<e, "next">>, mem[BucketCell(i)]), St(BucketCell(i), e)>>

\* new_entry mallocs a second entry for next, which insert then overwrites.
ht_dram_insert(k, v) ==
  LET e == NewEntry
      lost == Min(FreeEntries \ {e})
      i == hash_function(k)
  IN IF Hits(k) # {} THEN Cp(<<FirstHit(k), "value">>, v)
     ELSE <<Al(EntryCells(e)), St(<<e, "key">>, k)>> \o Cp(<<e, "value">>, v)
          \o <<Al(EntryCells(lost)), St(<<e, "next">>, lost),
               St(<<e, "next">>, mem[BucketCell(i)]), St(BucketCell(i), e)>>

ht_pmem_insert(k, v) ==
  LET i == hash_function(k)
  IN IF Hits(k) # {} THEN CpFl(<<FirstHit(k), "value">>, v)
     ELSE <<Al(EntryCells(NewEntry))>> \o Fill(NewEntry, k, v, i)
          \o <<Fl(Span(i))>>

\* Mutant: the buckets are not snapshotted.
ht_pmem_tx_insert_noSnapshot(k, v) ==
  LET i == hash_function(k)
  IN IF Hits(k) # {}
     THEN <<Bg, Sn(EntryCells(FirstHit(k)))>>
          \o Cp(<<FirstHit(k), "value">>, v) \o <<Cm>>
     ELSE <<Bg, TAl(EntryCells(NewEntry))>>
          \o Fill(NewEntry, k, v, i) \o <<Cm>>

ht_pmem_tx_insert(k, v) ==
  LET i == hash_function(k)
  IN IF Hits(k) # {}
     THEN <<Bg, Sn(EntryCells(FirstHit(k)))>>
          \o Cp(<<FirstHit(k), "value">>, v) \o <<Cm>>
     ELSE <<Bg, Sn(Span(i)), TAl(EntryCells(NewEntry))>>
          \o Fill(NewEntry, k, v, i) \o <<Cm>>

insert(k, v) ==
  CASE Volatile(cls) -> ht_dram_insert(k, v)
    [] cls.medium = "pmem" -> ht_pmem_insert(k, v)
    [] cls.medium = "tx" -> ht_pmem_tx_insert(k, v)

(***************************************************************************)
(* destroy: every chain, the table, the root.                              *)
(***************************************************************************)
AllEntries == FlattenSeq([i \in 1..INIT_BUCKETS_NUM |-> Chain(i - 1)])

FreeEntriesOf(free(_)) ==
  LET es == AllEntries IN [n \in DOMAIN es |-> free(EntryCells(es[n]))]

ht_dram_destroy ==
  FreeEntriesOf(LAMBDA C : Fr(C)) \o <<Fr(TableCells(TableP)), Fr(RootCells)>>

\* Mutant: the chains are not freed.
ht_pmem_destroy_leaks ==
  <<FrIn(TableCells(TableP), <<0, "buckets">>),
    St(<<0, "buckets">>, Zero), Fr(RootCells)>>

ht_pmem_destroy ==
  FreeEntriesOf(LAMBDA C : Fr(C))
  \o <<FrIn(TableCells(TableP), <<0, "buckets">>),
       St(<<0, "buckets">>, Zero), Fr(RootCells)>>

ht_pmem_tx_destroy ==
  <<Bg, Sn(RootCells)>> \o FreeEntriesOf(LAMBDA C : TFr(C))
  \o <<TFr(TableCells(TableP)), St(<<0, "buckets">>, Zero), TFr(RootCells), Cm>>

destroy ==
  CASE Volatile(cls) -> ht_dram_destroy
    [] cls.medium = "pmem" -> ht_pmem_destroy
    [] cls.medium = "tx" -> ht_pmem_tx_destroy

-----------------------------------------------------------------------------
HashInit == \E c \in Coeff : StoredsInit(RootCells, {}, init(c))

CallWrite(t, k, n) ==
  \E op \in {"insert", "update"} : Call(t, op, k, ValOf(k, n))

CallRead(t, k) == Call(t, "read", k, 0)

Write(t) ==
  /\ th[t].op \in {"insert", "update"}
  /\ Hits(th[t].key) = {} => HasRoom
  /\ Enter(t, insert(th[t].key, th[t].val), None)

Read(t) ==
  /\ th[t].op = "read"
  /\ Enter(t, <<>>, IF Hits(th[t].key) = {} THEN None
                    ELSE <<ReadHit(th[t].key), "value">>)

ThreadStep(t) == Write(t) \/ Read(t) \/ ClientStep(t)

MainStep == Exec(main) \/ InitDone([k \in Key |-> Find(k)]) \/ Close

Next ==
  \/ \E t \in Thread, k \in Key :
       CallRead(t, k) \/ \E n \in Version : CallWrite(t, k, n)
  \/ \E t \in Thread : ThreadStep(t)
  \/ MainStep
  \/ Destroy(destroy)
  \/ Crash \/ Settling \/ \E c \in Coeff : Reopen(init(c))
  \/ Finished

Spec == HashInit /\ [][Next]_vars

-----------------------------------------------------------------------------
TxClient == INSTANCE TxDiscipline WITH Root <- RootCells

\* Between operations read() finds the last value written under a key, or
\* nothing if none was, wherever the hash function puts it.
MapCorrect == phase = "serve" /\ Unlocked => Shows(Find)

\* Between operations no key is in the table twice, and every entry is in the
\* bucket of its key: insert's "will update if key already exists".
KeysUnique ==
  phase = "serve" /\ Unlocked =>
    LET es == AllEntries IN
    /\ \A m, n \in DOMAIN es :
         mem[<<es[m], "key">>] = mem[<<es[n], "key">>] => m = n
    /\ \A i \in Bucket : \A n \in DOMAIN Chain(i) :
         hash_function(mem[<<Chain(i)[n], "key">>]) = i

\* tx: the image a failure leaves holds every acknowledged write and none in
\* part, until the next start makes a new table.
ImageDurable == Recovered /\ cls.medium = "tx" /\ starts = 0 => Shows(Find)

\* tx: the classes keep to TxDiscipline.
Discipline == [][cls.medium = "tx" => TxClient!Disciplined]_pvars

\* destroy of a table that was opened once frees every chain, the table and the
\* root object, and nothing twice.
DestroyFreesAll ==
  /\ FreesLiveOnly
  /\ phase = "closed" /\ starts = 0 /\ ~Volatile(cls) => live = {}

-----------------------------------------------------------------------------
(***************************************************************************)
(* The inductive invariant.  ch gives the entries of every bucket in the    *)
(* order of the list; F is the memory as it will be when the program that   *)
(* is being performed has ended.                                           *)
(***************************************************************************)
TableOf(F) == F[<<0, "buckets">>]

HashOf(F, k) ==
  ((k * F[<<0, "a">>] + F[<<0, "b">>]) % HASH_FUNC_COEFF_P) % INIT_BUCKETS_NUM

Ref(s, n) == IF n \in DOMAIN s THEN s[n] ELSE Zero

\* The root shows a table with its size and the coefficients.
TableMade(F) ==
  /\ F[<<0, "a">>] \in Nat /\ F[<<0, "b">>] \in Nat
  /\ TableOf(F) \in Table
  /\ F[<<TableOf(F), "nbuckets">>] = INIT_BUCKETS_NUM

\* The pointers follow the lists.
Linked(F, ch) ==
  \A i \in Bucket :
    /\ F[<<TableOf(F), "bucket", i>>] = Ref(ch[i], 1)
    /\ \A n \in DOMAIN ch[i] : F[<<ch[i][n], "next">>] = Ref(ch[i], n + 1)

\* Every entry is in the bucket of its key, and the only one with it.
Keyed(F, ch) ==
  \A i \in Bucket : \A n \in DOMAIN ch[i] :
    LET k == F[<<ch[i][n], "key">>] IN
    /\ k \in Key /\ HashOf(F, k) = i
    /\ \A m \in DOMAIN ch[i] : F[<<ch[i][m], "key">>] = k => m = n

\* The entries show what is wanted.
Wanted(F, ch, want) ==
  \A k \in Key :
    LET c == ch[HashOf(F, k)]
        hits == {n \in DOMAIN c : F[<<c[n], "key">>] = k}
    IN /\ hits = {} => Absent \in want[k]
       /\ \A n \in hits : F[<<c[n], "value">>] \in want[k]

\* The table and its entries are in the memory A.
KeptIn(F, ch, A) ==
  /\ TableCells(TableOf(F)) \subseteq A
  /\ \A i \in Bucket : \A n \in DOMAIN ch[i] : EntryCells(ch[i][n]) \subseteq A

Holds(p, want, F, ch) ==
  /\ Yields(p, mem, F)
  /\ TableMade(F) /\ Linked(F, ch) /\ Keyed(F, ch) /\ Wanted(F, ch, want)
  /\ KeptIn(F, ch, live \cup ToAllocate(p))

WillHold(p, want) ==
  \E F, ch : ch \in [Bucket -> Seq(Entry)] /\ Holds(p, want, F, ch)

\* What an insert or update makes of what may be shown.
Written(t) == [expect EXCEPT ![th[t].key] = {th[t].val}]

TableInv ==
  /\ phase = "init" => WillHold(prog[main], [k \in Key |-> {Absent}])
  /\ phase = "serve" /\ (\A t \in Thread : ~Updating(t))
       => WillHold(<<>>, expect)
  /\ \A t \in Thread : Updating(t) => WillHold(prog[t], Written(t))

\* Every start allocates one table, and only destroy frees.
Starts ==
  /\ \A o \in Table : o > starts + 1 =>
       /\ TableCells(o) \cap live = {}
       /\ \A a \in Actor : TableCells(o) \cap ToAllocate(prog[a]) = {}
  /\ starts <= cls.bound.restarts
  /\ phase # "destroy" => dying = {} /\ \A a \in Actor : FreesNothing(prog[a])

IInv ==
  /\ CallInv /\ MemoryTypeOK /\ ProgramsTyped /\ TxPrograms
  /\ TableInv /\ Starts

(***************************************************************************)
(* What the pool of a tx class holds before the first restart: nothing yet,  *)
(* a table that shows what is expected, or no table any more.               *)
(***************************************************************************)
TableShown(F, A, want) ==
  \E ch \in [Bucket -> Seq(Entry)] :
    /\ TableMade(F) /\ Linked(F, ch) /\ Keyed(F, ch) /\ Wanted(F, ch, want)
    /\ RootCells \subseteq A /\ KeptIn(F, ch, A)

TableStable == TableShown(stable, slive, expect)

NoTableYet ==
  /\ <<0, "buckets">> \in slive /\ stable[<<0, "buckets">>] = Zero
  /\ \A k \in Key : Absent \in expect[k]

TableGone ==
  /\ mem[<<0, "buckets">>] = Zero /\ may[<<0, "buckets">>] = {Zero}
  /\ ~intx /\ phase \notin {"init", "serve"} /\ \A a \in Actor : prog[a] = <<>>
  /\ \A k \in Key : Absent \in expect[k]

\* A transaction ends with its program, and that of destroy clears the pointer.
Commits ==
  /\ \A a \in Actor : EndsTx(prog[a])
  /\ intx => \E a \in Actor : prog[a] # <<>>
  /\ phase \in {"init", "serve"} => RootCells \subseteq live
  /\ phase = "init" => \A k \in Key : Absent \in expect[k]
  /\ phase = "destroy" =>
       /\ \A k \in Key : Absent \in expect[k]
       /\ prog[main] # <<>> =>
            \E F : Yields(prog[main], mem, F) /\ TableOf(F) = Zero

TableImage ==
  vol = {} /\ Commits /\ (NoTableYet \/ TableStable \/ TableGone)

ImageInv == cls.medium = "tx" /\ starts = 0 => TableImage
=============================================================================
