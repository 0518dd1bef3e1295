------------------------------ MODULE MCLists ------------------------------
(***************************************************************************)
(* Small instances of LinkedList and HashList, which share the list of     *)
(* ListSteps: a behaviour is one of either.                                *)
(***************************************************************************)
EXTENDS LinkedList, HashListClasses

HL == INSTANCE HashList

LinkedLists ==
  {linkedlist_dram, linkedlist_dram_concurrent_mlock,
   linkedlist_vmem, linkedlist_vmem_concurrent_mlock,
   linkedlist_pmem, linkedlist_pmem_concurrent_mlock,
   linkedlist_pmem_tx, linkedlist_pmem_tx_concurrent_mlock}

HashLists ==
  {hl_dram, hl_dram_conc_mlock,
   hl_vmem, hl_vmem_conc_mlock, hl_vmem_conc_pmlock,
   hl_pmem, hl_pmem_conc_mlock, hl_pmem_conc_vmlock,
   hl_pmem_tx, hl_pmem_tx_conc_mlock}

Tx(C) == {c \in C : c.medium = "tx"}

\* Every class without failures, the tx classes with one, and persistent lists
\* that are opened again; a hashlist also after a failure.
OpsAndFailures ==
  Bounded(LinkedLists, Key, 4, 0, 0)
  \cup Bounded(Tx(LinkedLists), Key, 3, 1, 0)
  \cup Bounded({linkedlist_pmem, linkedlist_pmem_tx}, Key, 3, 0, 1)
  \cup Bounded(HashLists, Key, 3, 0, 0)
  \cup Bounded(Tx(HashLists) \cup {hl_pmem}, Key, 2, 1, 1)

TxRestarted == Bounded({linkedlist_pmem_tx}, Key, 4, 1, 1)

ListCells == HashListCell

\* Only the hashlists insert the key of an update.
Indexes == cls.upsert

ListsInit ==
  /\ cls \in Classes
  /\ (~Indexes /\ ListInit) \/ (Indexes /\ HL!HashListInit)

ListsNext == (~Indexes /\ Next) \/ (Indexes /\ HL!Next)

ListsSpec == ListsInit /\ [][ListsNext]_vars

\* What read() finds, through the list or through the index, is the last value
\* written under the key, or nothing if none was (MapCorrect of LinkedList and
\* of HashList).
ListMapCorrect == IF Indexes THEN HL!MapCorrect ELSE MapCorrect

\* The index of a hashlist and its list agree (IndexAgrees of HashList).
IndexKept == Indexes => HL!IndexAgrees

\* init of a linkedlist class that opens a pool again, after the process before
\* has ended by its own doing or by a signal: the list shows the records it
\* had, or none after destroy.
RestartKeeps ==
  [][~Indexes /\ phase = "init" /\ phase' = "serve" =>
       \A k \in Key : expect'[k] \subseteq expect[k]]_vars
=============================================================================
