------------------------------- MODULE BTree -------------------------------
(***************************************************************************)
(* storeds/btree and storeds/btree_mem_opt: a B-tree.  The nodes of btree  *)
(* hold their entries in place; those of btree_mem_opt point to entries    *)
(* allocated one by one.                                                   *)
(***************************************************************************)
EXTENDS TreeSteps

btree_dram == TreeClass("btree_dram", "dram", "none", FALSE, "inplace")
btree_dram_concurrent_lock ==
  TreeClass("btree_dram_concurrent_lock", "dram", "rwlock", FALSE, "inplace")
btree_dram_concurrent_mlock ==
  TreeClass("btree_dram_concurrent_mlock", "dram", "mutex", FALSE, "inplace")
btree_memkind == TreeClass("btree_memkind", "vmem", "none", FALSE, "inplace")
btree_vmem == TreeClass("btree_vmem", "vmem", "none", FALSE, "inplace")
btree_vmem_concurrent_mlock ==
  TreeClass("btree_vmem_concurrent_mlock", "vmem", "mutex", FALSE, "inplace")
btree_pmem == TreeClass("btree_pmem", "pmem", "none", FALSE, "inplace")
btree_pmem_concurrent_lock ==
  TreeClass("btree_pmem_concurrent_lock", "pmem", "rwlock", FALSE, "inplace")
btree_pmem_concurrent_mlock ==
  TreeClass("btree_pmem_concurrent_mlock", "pmem", "mutex", FALSE, "inplace")
btree_pmem_tx == TreeClass("btree_pmem_tx", "tx", "none", FALSE, "inplace")
btree_pmem_tx_concurrent_lock ==
  TreeClass("btree_pmem_tx_concurrent_lock", "tx", "rwlock", FALSE, "inplace")
btree_pmem_tx_concurrent_mlock ==
  TreeClass("btree_pmem_tx_concurrent_mlock", "tx", "mutex", FALSE, "inplace")

bt_dram == TreeClass("bt_dram", "dram", "none", FALSE, "entries")
bt_dram_concurrent_mlock ==
  TreeClass("bt_dram_concurrent_mlock", "dram", "mutex", FALSE, "entries")
bt_vmem == TreeClass("bt_vmem", "vmem", "none", FALSE, "entries")
bt_vmem_concurrent_mlock ==
  TreeClass("bt_vmem_concurrent_mlock", "vmem", "mutex", FALSE, "entries")
bt_pmem == TreeClass("bt_pmem", "pmem", "none", FALSE, "entries")
bt_pmem_concurrent_mlock ==
  TreeClass("bt_pmem_concurrent_mlock", "pmem", "mutex", FALSE, "entries")
bt_pmem_tx == TreeClass("bt_pmem_tx", "tx", "none", FALSE, "entries")
bt_pmem_tx_concurrent_mlock ==
  TreeClass("bt_pmem_tx_concurrent_mlock", "tx", "mutex", FALSE, "entries")

-----------------------------------------------------------------------------
(***************************************************************************)
(* destroy: recursive_free.  The entries of btree_mem_opt are not freed.   *)
(***************************************************************************)
FreeNodes(free(_)) ==
  LET nodes == PostOrder(RootNode)
  IN FlattenSeq([i \in 1..Len(nodes) |-> free(NodeCells(nodes[i]))])

destroy ==
  CASE Volatile(cls) -> FreeNodes(LAMBDA C : <<Fr(C)>>) \o ClearRoot
    [] cls.medium = "pmem" ->
         FreeNodes(LAMBDA C : <<Fr(C)>>) \o ClearRoot \o <<Fr(RootCells)>>
    [] cls.medium = "tx" ->
         InTx(FreeNodes(LAMBDA C : <<Sn(C), TFr(C)>>) \o ClearRoot
              \o <<Sn(RootCells), TFr(RootCells)>>)

-----------------------------------------------------------------------------
MainStep == Exec(main) \/ InitDone([k \in Key |-> Find(k)]) \/ Close

DestroyTree == RootNode # Zero /\ Destroy(destroy)

Next ==
  \/ \E t \in Thread : CallLoad(t) \/ TreeStep(t)
  \/ \E t \in Thread, k \in Key :
       CallRead(t, k) \/ \E n \in Version : CallWrite(t, k, n)
  \/ MainStep
  \/ DestroyTree \/ DestroyEmpty
  \/ Crash \/ Settling \/ Reopen(init)
  \/ Finished

Spec == TreeInit /\ [][Next]_vars

-----------------------------------------------------------------------------
\* Between operations the tree is a B-tree: it is balanced, and the keys below
\* a child lie between those beside it.
TreeShape ==
  Serving =>
    /\ Balanced
    /\ \A o \in Nodes : ~IsLeaf(mem, o) =>
         \A i \in 0..(NK(mem, o) - 1) :
           /\ \A k \in KeysBelow(Child(mem, o, i)) : k < KeyAt(mem, o, i)
           /\ \A k \in KeysBelow(Child(mem, o, i + 1)) : KeyAt(mem, o, i) < k

\* btree_mem_opt: entries do not move, so that the copy StoredsDB::Read makes
\* after the unlock is of the key's own value.
EntriesStay == cls.layout = "entries" => ReadLegal
=============================================================================
