------------------------------- MODULE MCSkip -------------------------------
(***************************************************************************)
(* Small instances of SkipList.                                            *)
(***************************************************************************)
EXTENDS SkipList

TxClasses == {skiplist_pmem_tx, skiplist_pmem_tx_concurrent_lock,
              skiplist_pmem_tx_concurrent_mlock}

PmemClasses == {skiplist_pmem, skiplist_pmem_concurrent_lock,
                skiplist_pmem_concurrent_mlock}

VolatileClasses == {skiplist_dram, skiplist_dram_concurrent_lock,
                    skiplist_dram_concurrent_mlock, skiplist_vmem,
                    skiplist_vmem_concurrent_mlock}

\* Classes that run the steps of another class under the same lock, or under
\* a lock that another class is run with for longer.
Similar == {skiplist_vmem, skiplist_vmem_concurrent_mlock,
            skiplist_pmem_concurrent_lock, skiplist_pmem_tx_concurrent_mlock}

AllClasses == TxClasses \cup PmemClasses \cup VolatileClasses

\* Every class without failures, one with three keys, and the tx classes with
\* one failure, one of them with a restart.
OpsAndFailures ==
  Bounded(AllClasses \ Similar, {1, 2}, 3, 0, 0)
  \cup Bounded(Similar, {1, 2}, 2, 0, 0)
  \cup Bounded({skiplist_dram}, {1, 2, 3}, 3, 0, 0)
  \cup Bounded(TxClasses, {1, 2}, 2, 1, 0)
  \cup Bounded({skiplist_pmem_tx}, {1, 2}, 1, 1, 1)
=============================================================================
