---------------------------- MODULE MCBPlusTree ----------------------------
(***************************************************************************)
(* Small instances of BPlusTree.                                           *)
(***************************************************************************)
EXTENDS BPlusTree

InPlace ==
  {bplustree_dram, bplustree_dram_concurrent_lock,
   bplustree_dram_concurrent_mlock, bplustree_vmem,
   bplustree_vmem_concurrent_mlock, bplustree_pmem,
   bplustree_pmem_concurrent_lock, bplustree_pmem_concurrent_mlock,
   bplustree_pmem_tx, bplustree_pmem_tx_concurrent_lock,
   bplustree_pmem_tx_concurrent_mlock}

MemOpt ==
  {bp_dram, bp_dram_concurrent_mlock, bp_vmem, bp_vmem_concurrent_mlock,
   bp_pmem, bp_pmem_concurrent_mlock, bp_pmem_tx, bp_pmem_tx_concurrent_mlock}

AllClasses == InPlace \cup MemOpt

\* Both kinds of lock, both layouts, two media.
Concurrent == {bplustree_pmem_tx_concurrent_lock, bp_pmem_concurrent_mlock}

\* One class for each way of storing a tree.
Kinds == {bplustree_dram, bplustree_pmem, bplustree_pmem_tx,
          bp_dram, bp_pmem, bp_pmem_tx}

Upwards == <<1, 2, 3, 4, 5, 6, 7>>
Downwards == <<9, 8, 7, 6, 5, 4, 3>>
Inwards == <<1, 9, 2, 8, 3, 7, 4>>

Persistent == {c \in Kinds : ~Volatile(c)} \cup {bp_pmem_concurrent_mlock}

\* Every class from the empty tree, and every way of storing a tree with two
\* keys; two clients on a full root leaf that the first new record splits;
\* trees grown until the next record adds a third level; a failure, a restart,
\* and both in either order, of the persistent ones.
OpsAndFailures ==
  Bounded(AllClasses, {1}, 2, 0, 0)
  \cup Bounded(Kinds, {1, 2}, 2, 0, 0)
  \cup Bounded(Loaded(Concurrent, <<6, 2, 4>>), {4, 5}, 5, 0, 0)
  \cup Bounded(Loaded(Kinds, Upwards), {5, 8}, 9, 0, 0)
  \cup Bounded(Loaded(Kinds, Downwards), {1, 6}, 9, 0, 0)
  \cup Bounded(Loaded(Kinds, Inwards), {5, 6}, 9, 0, 0)
  \cup Bounded(Persistent, {1}, 2, 1, 0)
  \cup Bounded(Persistent, {1}, 2, 0, 1)
  \cup Bounded({bplustree_pmem, bp_pmem_tx}, {1}, 2, 1, 1)
=============================================================================
