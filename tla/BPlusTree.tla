----------------------------- MODULE BPlusTree -----------------------------
(***************************************************************************)
(* storeds/bplustree and storeds/bplustree_mem_opt: a B+-tree.  Records    *)
(* are in the leaves, which are linked to a chain for scan.  The nodes of  *)
(* bplustree hold their entries in place; the leaves of bplustree_mem_opt  *)
(* point to records allocated one by one.                                  *)
(***************************************************************************)
EXTENDS TreeSteps

CONSTANT ScanLen   (* the lengths a scan is called with *)

ASSUME ScanAssumption == ScanLen \subseteq Nat \ {0}

bplustree_dram == TreeClass("bplustree_dram", "dram", "none", TRUE, "inplace")
bplustree_dram_concurrent_lock ==
  TreeClass("bplustree_dram_concurrent_lock", "dram", "rwlock", TRUE, "inplace")
bplustree_dram_concurrent_mlock ==
  TreeClass("bplustree_dram_concurrent_mlock", "dram", "mutex", TRUE, "inplace")
bplustree_vmem == TreeClass("bplustree_vmem", "vmem", "none", TRUE, "inplace")
bplustree_vmem_concurrent_mlock ==
  TreeClass("bplustree_vmem_concurrent_mlock", "vmem", "mutex", TRUE, "inplace")
bplustree_pmem == TreeClass("bplustree_pmem", "pmem", "none", TRUE, "inplace")
bplustree_pmem_concurrent_lock ==
  TreeClass("bplustree_pmem_concurrent_lock", "pmem", "rwlock", TRUE, "inplace")
bplustree_pmem_concurrent_mlock ==
  TreeClass("bplustree_pmem_concurrent_mlock", "pmem", "mutex", TRUE, "inplace")
bplustree_pmem_tx ==
  TreeClass("bplustree_pmem_tx", "tx", "none", TRUE, "inplace")
bplustree_pmem_tx_concurrent_lock ==
  TreeClass("bplustree_pmem_tx_concurrent_lock", "tx", "rwlock", TRUE, "inplace")
bplustree_pmem_tx_concurrent_mlock ==
  TreeClass("bplustree_pmem_tx_concurrent_mlock", "tx", "mutex", TRUE, "inplace")

bp_dram == TreeClass("bp_dram", "dram", "none", TRUE, "records")
bp_dram_concurrent_mlock ==
  TreeClass("bp_dram_concurrent_mlock", "dram", "mutex", TRUE, "records")
bp_vmem == TreeClass("bp_vmem", "vmem", "none", TRUE, "records")
bp_vmem_concurrent_mlock ==
  TreeClass("bp_vmem_concurrent_mlock", "vmem", "mutex", TRUE, "records")
bp_pmem == TreeClass("bp_pmem", "pmem", "none", TRUE, "records")
bp_pmem_concurrent_mlock ==
  TreeClass("bp_pmem_concurrent_mlock", "pmem", "mutex", TRUE, "records")
bp_pmem_tx == TreeClass("bp_pmem_tx", "tx", "none", TRUE, "records")
bp_pmem_tx_concurrent_mlock ==
  TreeClass("bp_pmem_tx_concurrent_mlock", "tx", "mutex", TRUE, "records")

-----------------------------------------------------------------------------
(***************************************************************************)
(* scan.  On the way down a key that is met leads to the left of it, where *)
(* the scan finds nothing and goes on to the next leaf.                    *)
(***************************************************************************)
ScanLeaf(k) ==
  LET at[d \in 0..MaxNode] ==
        IF d = 0 THEN RootNode
        ELSE LET o == at[d - 1]
             IN IF IsLeaf(mem, o) THEN o ELSE Child(mem, o, Position(mem, o, k))
  IN at[MaxNode]

\* The leaf chain from o on.
ChainFrom(o) ==
  LET from[n \in 0..MaxNode, p \in Node \cup {Zero}] ==
        IF n = 0 \/ p = Zero THEN <<>>
        ELSE <<p>> \o from[n - 1, mem[<<p, "next">>]]
  IN from[MaxNode, o]

\* The value buffers of a leaf from slot i on.
Buffers(o, i) ==
  [j \in 1..(NK(mem, o) - i) |-> ValueCell(mem, o, i + j - 1)]

\* What a scan of len records from k copies.
Scanned(k, len) ==
  LET first == ScanLeaf(k)
      leaves == ChainFrom(first)
      found == FlattenSeq([n \in 1..Len(leaves) |->
                 Buffers(leaves[n],
                         IF n = 1 THEN Position(mem, first, k) ELSE 0)])
  IN {mem[found[i]] : i \in DOMAIN found \cap 1..len}

-----------------------------------------------------------------------------
(***************************************************************************)
(* destroy: recursive_free.                                                *)
(***************************************************************************)
\* free of the records of leaf o.  bp_pmem frees them through their slots;
\* the tx classes and storeds/bplustree free none.
FreeRecords(m, o) ==
  IF cls.layout # "records" \/ cls.medium = "tx" THEN <<>>
  ELSE FlattenSeq([i \in 1..NK(m, o) |->
         LET e == Child(m, o, i - 1)
             c == <<o, "children", i - 1>>
         IN IF e = Zero THEN <<>>
            ELSE <<IF cls.medium = "pmem" THEN FrIn(EntryCells(e), c)
                   ELSE Fr(EntryCells(e)), St(c, Zero)>>])

\* Volatile: the leaf is taken out of the chain.
Unchain(m, o) ==
  LET n == m[<<o, "next">>]
      p == m[<<o, "previous">>]
  IN (IF n = Zero THEN <<>> ELSE <<St(<<n, "previous">>, p)>>)
     \o (IF p = Zero THEN <<>> ELSE <<St(<<p, "next">>, n)>>)

\* bp_pmem: the neighbours are freed through the leaf's links to them.
UnchainFreeing(m, o) ==
  LET n == m[<<o, "next">>]
      p == m[<<o, "previous">>]
  IN (IF n = Zero THEN <<>>
      ELSE <<St(<<n, "previous">>, p), Fl(NodeCells(n)),
             FrIn(NodeCells(n), <<o, "next">>), St(<<o, "next">>, Zero)>>)
     \o (IF p = Zero THEN <<>>
         ELSE <<St(<<p, "next">>, Zero), Fl(NodeCells(p)),
                FrIn(NodeCells(p), <<o, "previous">>),
                St(<<o, "previous">>, Zero)>>)

\* Mutant: every class frees the neighbours of a leaf.
LeaveChain_freeing(m, o) == UnchainFreeing(m, o)

LeaveChain(m, o) ==
  CASE Volatile(cls) -> Unchain(m, o)
    [] cls.medium = "pmem" /\ cls.layout = "records" -> UnchainFreeing(m, o)
    [] OTHER -> <<>>

FreeNode(w, o) ==
  LET C == NodeCells(o)
      free == IF cls.medium = "tx" THEN <<Sn(C), TFr(C)>> ELSE <<Fr(C)>>
  IN Then(w, (IF IsLeaf(w.m, o) THEN LeaveChain(w.m, o) \o FreeRecords(w.m, o)
              ELSE <<>>) \o free)

destroy ==
  LET nodes == FoldLeft(FreeNode, Begun(RootNode), PostOrder(RootNode)).steps
  IN CASE Volatile(cls) -> nodes \o ClearRoot
       [] cls.medium = "pmem" -> nodes \o ClearRoot \o <<Fr(RootCells)>>
       [] cls.medium = "tx" ->
            InTx(nodes \o ClearRoot \o <<Sn(RootCells), TFr(RootCells)>>)

-----------------------------------------------------------------------------
\* The length of a scan is kept in val.
CallScan(t, k) ==
  ~Loading /\ \E len \in ScanLen : Call(t, "scan", k, len)

Scan(t) ==
  /\ th[t].op = "scan" /\ RootNode # Zero
  /\ EnterScan(t, Scanned(th[t].key, th[t].val))

\* The value is copied to a null record: a fatal signal.
WriteDerefs(t) ==
  /\ th[t].pc = "want" /\ th[t].op \in {"insert", "update"}
  /\ Available(Mode(th[t].op), t) /\ FindsNull(th[t].key)
  /\ Dies

MainStep ==
  \/ Exec(main) \/ DoubleFree(main)
  \/ InitDone([k \in Key |-> Find(k)]) \/ Close

DestroyTree == RootNode # Zero /\ Destroy(destroy)

Next ==
  \/ \E t \in Thread : CallLoad(t) \/ TreeStep(t) \/ Scan(t) \/ WriteDerefs(t)
  \/ \E t \in Thread, k \in Key :
       \/ CallRead(t, k) \/ CallScan(t, k)
       \/ \E n \in Version : CallWrite(t, k, n)
  \/ MainStep
  \/ DestroyTree \/ DestroyEmpty
  \/ Crash \/ Settling \/ Reopen(init)
  \/ Finished

Spec == TreeInit /\ [][Next]_vars

-----------------------------------------------------------------------------
Leaves == SelectSeq(PostOrder(RootNode), LAMBDA o : IsLeaf(mem, o))

\* Between operations the tree is a B+-tree: it is balanced, a key in an inner
\* node separates the keys below its two children, and the leaf chain goes
\* through all leaves from left to right, and back.
PlusShape ==
  Serving =>
    /\ Balanced
    /\ \A o \in Nodes : ~IsLeaf(mem, o) =>
         \A i \in 0..(NK(mem, o) - 1) :
           /\ \A k \in KeysBelow(Child(mem, o, i)) : k < KeyAt(mem, o, i)
           /\ \A k \in KeysBelow(Child(mem, o, i + 1)) : KeyAt(mem, o, i) <= k
    /\ ChainFrom(Leaves[1]) = Leaves
    /\ \A n \in 1..Len(Leaves) :
         mem[<<Leaves[n], "previous">>] = IF n = 1 THEN Zero ELSE Leaves[n - 1]

\* The keys a scan of len records from k has to return.
ScanKeys(k, len) ==
  LET from == {j \in Key : j >= k /\ expect[j] # {Absent}}
  IN {j \in from : Cardinality({i \in from : i <= j}) <= len}

\* A scan returns the last values written under the len smallest keys from its
\* start key on, each whole: wherever splits have put the records, and
\* whatever another client does, which the lock keeps out.
ScanComplete ==
  \A t \in Thread : th[t].op = "scan" /\ th[t].pc = "in" =>
    th[t].seen = UNION {expect[j] : j \in ScanKeys(th[t].key, th[t].val)}

\* destroy frees no node and no record twice.  bp_pmem and its concurrent
\* class are left out: they free the neighbours of a leaf and meet them again.
LeavesFreedOnce ==
  ~(cls.medium = "pmem" /\ cls.layout = "records") => FreesLiveOnly
=============================================================================
