------------------------------ MODULE MCRBTree ------------------------------
(***************************************************************************)
(* Small instances of RBTree.                                              *)
(***************************************************************************)
EXTENDS RBTree

AllClasses ==
  {rbtree_dram, rbtree_dram_concurrent_lock, rbtree_dram_concurrent_mlock,
   rbtree_vmem, rbtree_vmem_concurrent_mlock, rbtree_vmem_concurrent_pmlock,
   rbtree_pmem, rbtree_pmem_concurrent_lock, rbtree_pmem_concurrent_mlock,
   rbtree_pmem_concurrent_vmlock,
   rbtree_pmem_tx, rbtree_pmem_tx_concurrent_lock,
   rbtree_pmem_tx_concurrent_mlock}

\* One class for each medium.
Kinds == {rbtree_dram, rbtree_pmem, rbtree_pmem_tx}

\* The three shapes a third key makes: no rotation, one, two; and loads after
\* which a recolouring meets another violation two levels up, on either side
\* and as an inner or an outer grandchild.
Small == {<<4, 2>>, <<2, 4>>, <<2, 4, 1>>}
Tall == {<<1, 2, 3, 4, 5, 6, 7>>, <<9, 8, 7, 6, 5, 4, 3>>,
         <<2, 9, 3, 8, 4, 7, 5>>, <<8, 1, 7, 2, 6, 3, 5>>}

\* Every class from the empty tree and on a tree the next record rebalances;
\* tall trees of each medium; one failure, and a restart, of the persistent
\* ones.
OpsAndFailures ==
  Bounded(AllClasses, {1, 2}, 2, 0, 0)
  \cup UNION {Bounded(Loaded(AllClasses, l), {2, 3}, 4, 0, 0) : l \in Small}
  \cup UNION {Bounded(Loaded(Kinds, l), Key, 9, 0, 0) : l \in Tall}
  \cup UNION {Bounded(Loaded({rbtree_pmem_tx}, l), {1, 3, 5}, Len(l) + 1, 1, 0)
                : l \in Small \cup Tall}
  \cup Bounded({rbtree_pmem, rbtree_pmem_tx}, {1, 2}, 2, 1, 1)
=============================================================================
