------------------------------- MODULE MCArray -------------------------------
(***************************************************************************)
(* Small instances of Array.                                               *)
(***************************************************************************)
EXTENDS Array

TxClasses == {array_pmem_tx, array_pmem_tx_concurrent_lock,
              array_pmem_tx_concurrent_mlock}

PmemClasses == {array_pmem, array_pmem_concurrent_lock,
                array_pmem_concurrent_mlock, array_pmem_concurrent_vmlock}

VolatileClasses == {array_dram, array_dram_concurrent_lock,
                    array_dram_concurrent_mlock, array_vmem,
                    array_vmem_concurrent_mlock, array_vmem_concurrent_pmlock}

\* The runs are about keys that have a slot each.
ASSUME KeysApart == KeysFit

AllClasses == TxClasses \cup PmemClasses \cup VolatileClasses

\* Every class without failures, and the persistent ones with one failure and
\* one restart.
OpsAndFailures ==
  Bounded(AllClasses, Key, 3, 0, 0)
  \cup Bounded(TxClasses \cup PmemClasses, Key, 2, 1, 1)
=============================================================================
