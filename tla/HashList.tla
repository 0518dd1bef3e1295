------------------------------ MODULE HashList ------------------------------
(***************************************************************************)
(* storeds/hashlist: the append-only list of storeds/linkedlist, in DRAM,  *)
(* in libvmem memory or in a pool, with a hash index in DRAM from each key *)
(* to its node.  read, update and insert go through the index.  The index  *)
(* is a chained hash table as in HashTable; here it is one cell for a key, *)
(* which holds the address of the key's node.                              *)
(***************************************************************************)
EXTENDS HashListClasses

-----------------------------------------------------------------------------
\* What the index holds for the key.
Indexed(k) == mem[IndexCell(k)]

\* What read shows: the index decides.
Find(k) == IF Indexed(k) = Zero THEN Absent ELSE mem[<<Indexed(k), "value">>]

\* init makes an empty index; it does not walk the list of an existing pool.
init ==
  SetToSeq({St(IndexCell(k), Zero) : k \in Key})
  \o (IF Volatile(cls) THEN ClearRoot ELSE <<>>)

\* Mutant: the node is not entered in the index.
Enroll_skipped(k) == <<>>

\* The node is appended to the list first and entered in the index then.
Enroll(k) == <<St(IndexCell(k), NewNode)>>

hl_dram_insert(k, v, g) ==
  IF Indexed(k) # Zero THEN Cp(<<Indexed(k), "value">>, v)
  ELSE linkedlist_dram_insert(k, v, g) \o Enroll(k)

\* The value of an existing node is overwritten and never persisted.
hl_pmem_insert(k, v) ==
  IF Indexed(k) # Zero THEN Cp(<<Indexed(k), "value">>, v)
  ELSE linkedlist_pmem_insert(k, v) \o Enroll(k)

hl_pmem_tx_insert(k, v) ==
  IF Indexed(k) # Zero
  THEN <<Bg, Sn(NodeCells(Indexed(k)))>>
       \o Cp(<<Indexed(k), "value">>, v) \o <<Cm>>
  ELSE linkedlist_pmem_tx_insert(k, v) \o Enroll(k)

insert(k, v, g) ==
  CASE Volatile(cls) -> hl_dram_insert(k, v, g)
    [] cls.medium = "pmem" -> hl_pmem_insert(k, v)
    [] cls.medium = "tx" -> hl_pmem_tx_insert(k, v)

\* destroy frees the index and then the list, the tail twice.
FreeIndex == SetToSeq({St(IndexCell(k), Zero) : k \in Key})

hl_dram_destroy == FreeIndex \o linkedlist_dram_destroy

\* Here the tail is freed without a test: free of OID_NULL does nothing.
hl_pmem_destroy == FreeIndex \o linkedlist_pmem_destroy

hl_pmem_tx_destroy == FreeIndex \o linkedlist_pmem_tx_destroy

destroy ==
  CASE Volatile(cls) -> hl_dram_destroy
    [] cls.medium = "pmem" -> hl_pmem_destroy
    [] cls.medium = "tx" -> hl_pmem_tx_destroy

-----------------------------------------------------------------------------
HashListInit == StoredsInit(RootCells, IndexCells, init)

CallWrite(t, k, n) ==
  \E op \in {"insert", "update"} : Call(t, op, k, ValOf(k, n))

CallRead(t, k) == Call(t, "read", k, 0)

Write(t) ==
  /\ th[t].op \in {"insert", "update"}
  /\ Indexed(th[t].key) = Zero => ~BrokenTail /\ HasRoom
  /\ \E g \in Garbage : Enter(t, insert(th[t].key, th[t].val, g), None)

Read(t) ==
  /\ th[t].op = "read"
  /\ Enter(t, <<>>, IF Indexed(th[t].key) = Zero THEN None
                    ELSE <<Indexed(th[t].key), "value">>)

\* Appending to a list with a head and a null tail is a fatal signal.
Derefs(t) ==
  /\ th[t].pc = "want" /\ Available(Mode(th[t].op), t)
  /\ th[t].op \in {"insert", "update"}
  /\ Indexed(th[t].key) = Zero /\ BrokenTail
  /\ Dies

ThreadStep(t) == Write(t) \/ Read(t) \/ ClientStep(t) \/ Derefs(t)

MainStep ==
  \/ Exec(main) \/ DoubleFree(main)
  \/ InitDone([k \in Key |-> Find(k)])
  \/ CloseList \/ DestroyDerefs

Next ==
  \/ \E t \in Thread, k \in Key :
       CallRead(t, k) \/ \E n \in Version : CallWrite(t, k, n)
  \/ \E t \in Thread : ThreadStep(t)
  \/ MainStep
  \/ Destroy(destroy)
  \/ Crash \/ Settling \/ Reopen(init)
  \/ Finished

Spec == HashListInit /\ [][Next]_vars

-----------------------------------------------------------------------------
\* Between operations read() finds the last value written under a key, or
\* nothing if none was.
MapCorrect == phase = "serve" /\ Unlocked => Shows(Find)

\* Between operations index and list agree: an index entry leads to a node of
\* the list with its key, and every node of the list is in the index, so that
\* "insert ... will update the 'value' if 'key' already exists".  The program
\* has not been started again: the index does not survive.
IndexAgrees ==
  phase = "serve" /\ Unlocked /\ starts = 0 =>
    /\ \A k \in Key : Indexed(k) # Zero =>
         Indexed(k) \in Reachable /\ mem[<<Indexed(k), "key">>] = k
    /\ \A o \in Reachable : Indexed(mem[<<o, "key">>]) = o
=============================================================================
