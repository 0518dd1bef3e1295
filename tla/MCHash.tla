------------------------------- MODULE MCHash -------------------------------
(***************************************************************************)
(* Small instances of HashTable.                                           *)
(***************************************************************************)
EXTENDS HashTable

TxClasses == {ht_pmem_tx, ht_pmem_tx_concurrent_lock,
              ht_pmem_tx_concurrent_mlock}

PmemClasses == {ht_pmem, ht_pmem_concurrent_lock, ht_pmem_concurrent_mlock}

VolatileClasses == {ht_dram, ht_dram_concurrent_lock, ht_dram_concurrent_mlock,
                    ht_vmem, ht_vmem_concurrent_mlock}

AllClasses == TxClasses \cup PmemClasses \cup VolatileClasses

\* Keys 1 and 2 in two buckets, and both in one.
SpreadAndCollide == {<<1, 0>>, <<2, 1>>}

\* Every class without failures, and the tx classes with one failure and one
\* restart.
OpsAndFailures ==
  Bounded(AllClasses, Key, 3, 0, 0)
  \cup Bounded(TxClasses, Key, 2, 1, 1)
=============================================================================
