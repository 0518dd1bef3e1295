------------------------------ MODULE MCBTree ------------------------------
(***************************************************************************)
(* Small instances of BTree.                                               *)
(***************************************************************************)
EXTENDS BTree

InPlace == {btree_dram, btree_dram_concurrent_lock, btree_dram_concurrent_mlock,
            btree_memkind, btree_vmem, btree_vmem_concurrent_mlock,
            btree_pmem, btree_pmem_concurrent_lock, btree_pmem_concurrent_mlock,
            btree_pmem_tx, btree_pmem_tx_concurrent_lock,
            btree_pmem_tx_concurrent_mlock}

MemOpt == {bt_dram, bt_dram_concurrent_mlock, bt_vmem, bt_vmem_concurrent_mlock,
           bt_pmem, bt_pmem_concurrent_mlock, bt_pmem_tx,
           bt_pmem_tx_concurrent_mlock}

AllClasses == InPlace \cup MemOpt
Concurrent == {c \in AllClasses : c.lock # "none"}

\* One class for each way of storing a tree.
Kinds == {btree_dram, btree_pmem, btree_pmem_tx, bt_dram, bt_pmem, bt_pmem_tx}

Upwards == <<1, 2, 3, 4, 5, 6, 7, 8, 9>>
Downwards == <<10, 9, 8, 7, 6, 5, 4, 3, 2>>
Inwards == <<1, 10, 2, 9, 3, 8, 4, 7>>

\* Both kinds of lock, both layouts, every medium.
Contended ==
  {btree_dram_concurrent_lock, btree_pmem_concurrent_mlock,
   btree_pmem_tx_concurrent_lock, bt_vmem_concurrent_mlock}

\* Every class from the empty tree, and every way of storing a tree with two
\* keys; one and two clients on a full root leaf that the first new record
\* splits; trees grown until the root has three full children and the next
\* record adds a third level; one failure and one restart of the persistent
\* ones.
OpsAndFailures ==
  Bounded(AllClasses, {1}, 2, 0, 0)
  \cup Bounded(Kinds, {1, 2}, 2, 0, 0)
  \cup Bounded(Loaded(Kinds \cup Contended, <<6, 2, 4>>), {4, 5}, 5, 0, 0)
  \cup Bounded(Loaded(Kinds, <<6, 2, 4>>), {1, 5}, 5, 0, 0)
  \cup Bounded(Loaded(Kinds, Upwards), {5, 10}, 10, 0, 0)
  \cup Bounded(Loaded(Kinds, Downwards), {1, 6}, 10, 0, 0)
  \cup Bounded(Loaded(Kinds, Inwards), {5, 6}, 10, 0, 0)
  \cup Bounded({c \in Kinds : ~Volatile(c)}, {1}, 2, 1, 1)

\* A tree with records to move, and clients that read and insert.
Shifting == Bounded(Loaded(Concurrent, <<2>>), {1, 2}, 3, 0, 0)
=============================================================================
