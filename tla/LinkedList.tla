----------------------------- MODULE LinkedList -----------------------------
(***************************************************************************)
(* storeds/linkedlist: an append-only list with a head and a tail pointer, *)
(* in DRAM, in libvmem memory, in persistent memory with explicit          *)
(* persists (pmem) and in persistent memory with transactions (tx).        *)
(***************************************************************************)
EXTENDS ListSteps

\* The classes of storeds/linkedlist that GetDB can create.
linkedlist_dram == Class("linkedlist_dram", "dram", "none", FALSE)
linkedlist_dram_concurrent_mlock ==
  [linkedlist_dram EXCEPT !.name = "linkedlist_dram_concurrent_mlock",
                          !.lock = "mutex"]
linkedlist_vmem == Class("linkedlist_vmem", "vmem", "none", FALSE)
linkedlist_vmem_concurrent_mlock ==
  [linkedlist_vmem EXCEPT !.name = "linkedlist_vmem_concurrent_mlock",
                          !.lock = "mutex"]
linkedlist_pmem == Class("linkedlist_pmem", "pmem", "none", FALSE)
linkedlist_pmem_concurrent_mlock ==
  [linkedlist_pmem EXCEPT !.name = "linkedlist_pmem_concurrent_mlock",
                          !.lock = "mutex"]
linkedlist_pmem_tx == Class("linkedlist_pmem_tx", "tx", "none", FALSE)
linkedlist_pmem_tx_concurrent_mlock ==
  [linkedlist_pmem_tx EXCEPT !.name = "linkedlist_pmem_tx_concurrent_mlock",
                             !.lock = "mutex"]

-----------------------------------------------------------------------------
\* check(): the list has a first node.
Initialised == HeadP # Zero

-----------------------------------------------------------------------------
insert(k, v, g) ==
  CASE Volatile(cls) -> linkedlist_dram_insert(k, v, g)
    [] cls.medium = "pmem" -> linkedlist_pmem_insert(k, v)
    [] cls.medium = "tx" -> linkedlist_pmem_tx_insert(k, v)

(***************************************************************************)
(* update of the node o that holds the key.                                *)
(***************************************************************************)
linkedlist_dram_update(o, v) == Cp(<<o, "value">>, v)
linkedlist_pmem_update(o, v) == CpFl(<<o, "value">>, v)
linkedlist_pmem_tx_update(o, v) ==
  <<Bg, Sn(NodeCells(o))>> \o Cp(<<o, "value">>, v) \o <<Cm>>

update(o, v) ==
  CASE Volatile(cls) -> linkedlist_dram_update(o, v)
    [] cls.medium = "pmem" -> linkedlist_pmem_update(o, v)
    [] cls.medium = "tx" -> linkedlist_pmem_tx_update(o, v)

destroy ==
  CASE Volatile(cls) -> linkedlist_dram_destroy
    [] cls.medium = "pmem" -> linkedlist_pmem_destroy
    [] cls.medium = "tx" -> linkedlist_pmem_tx_destroy

\* Mutant: every class clears them.
init_clears == ClearRoot

\* init: the volatile classes clear their two pointers, the persistent ones
\* use whatever the pool's root object holds.
init == IF Volatile(cls) THEN ClearRoot ELSE <<>>

-----------------------------------------------------------------------------
\* A linkedlist class does not insert the key of an update.
ListInit == StoredsInit(RootCells, {}, init) /\ ~cls.upsert

\* The workload inserts every key once (CounterGenerator).
CallInsert(t, k, n) ==
  /\ expect[k] = {Absent}
  /\ \A s \in Thread : ~(th[s].op = "insert" /\ th[s].key = k)
  /\ Call(t, "insert", k, ValOf(k, n))

CallUpdate(t, k, n) == Call(t, "update", k, ValOf(k, n))

CallRead(t, k) == Call(t, "read", k, 0)

Insert(t) ==
  /\ th[t].op = "insert" /\ ~BrokenTail /\ HasRoom
  /\ \E g \in Garbage : Enter(t, insert(th[t].key, th[t].val, g), None)

Update(t) ==
  /\ th[t].op = "update" /\ Initialised
  /\ LET o == FindNode(th[t].key)
     IN \/ o \in Node /\ Enter(t, update(o, th[t].val), None)
        \/ o = Zero /\ Enter(t, <<>>, None)

Read(t) ==
  /\ th[t].op = "read" /\ Initialised
  /\ LET o == FindNode(th[t].key)
     IN \/ o \in Node /\ Enter(t, <<>>, <<o, "value">>)
        \/ o = Zero /\ Enter(t, <<>>, None)

NotInitialised(t) ==
  th[t].op \in {"read", "update"} /\ ~Initialised /\ CheckFails(t)

\* A traversal that misses its key goes on through the last node's next
\* field; insert dereferences a null tail.  Both end the process.
Derefs(t) ==
  /\ th[t].pc = "want" /\ Available(Mode(th[t].op), t)
  /\ \/ th[t].op \in {"read", "update"} /\ FindNode(th[t].key) = Wild
     \/ th[t].op = "insert" /\ BrokenTail
  /\ Dies

DestroyList == (Volatile(cls) \/ Initialised) /\ Destroy(destroy)

\* The persistent classes call check() in destroy too.
DestroyEmpty ==
  phase = "serve" /\ Quiet /\ ~Volatile(cls) /\ ~Initialised /\ Dies

ThreadStep(t) ==
  \/ Insert(t) \/ Update(t) \/ Read(t)
  \/ ClientStep(t)
  \/ NotInitialised(t) \/ Derefs(t)

MainStep ==
  \/ Exec(main) \/ DoubleFree(main)
  \/ InitDone([k \in Key |-> Listed(k)])
  \/ CloseList \/ DestroyDerefs

Next ==
  \/ \E t \in Thread, k \in Key :
       \/ CallRead(t, k)
       \/ \E n \in Version : CallInsert(t, k, n) \/ CallUpdate(t, k, n)
  \/ \E t \in Thread : ThreadStep(t)
  \/ MainStep
  \/ DestroyList \/ DestroyEmpty
  \/ Crash \/ Settling \/ Reopen(init)
  \/ Finished

Spec == ListInit /\ [][Next]_vars

-----------------------------------------------------------------------------
(***************************************************************************)
(* Properties.                                                             *)
(***************************************************************************)

\* What a lookup by read() finds, whenever no operation is running, is the
\* last value written under the key, or nothing if none was.  In a pool that
\* was destroyed and opened again a reused node keeps its old next field.
MapCorrect == phase = "serve" /\ Unlocked /\ starts = 0 => Shows(Listed)

\* Between operations the tail pointer is the last node of the list that
\* starts at the head: the next insert appends and cuts nothing off.
TailIsLast ==
  phase = "serve" /\ Unlocked /\ starts = 0 /\ HeadP # Zero =>
    TailP \in Reachable /\ mem[<<TailP, "next">>] \notin Node

\* tx: the image a failure leaves holds every acknowledged write and no part of
\* an unacknowledged one that is not the whole of it.
ImageDurable ==
  Recovered /\ cls.medium = "tx" /\ starts = 0 => Shows(Listed)

\* README.md, Table 1: the list is "Appended only".  A node that is in the
\* list stays in it until the list is destroyed.
AppendOnly ==
  [][phase = "serve" /\ phase' = "serve" => Reachable \subseteq Reachable']_vars
-----------------------------------------------------------------------------
(***************************************************************************)
(* The inductive invariant.  ns are the nodes in the order of the list; F   *)
(* is the memory as it will be when the program that is being performed    *)
(* has ended.                                                              *)
(***************************************************************************)
KeyIn(F, o) == F[<<o, "key">>]
NextIn(F, o) == F[<<o, "next">>]

\* The pointers follow the list.
Linked(F, ns) ==
  /\ F[HeadCell] = IF ns = <<>> THEN Zero ELSE ns[1]
  /\ ns # <<>> => F[TailCell] = ns[Len(ns)]
  /\ \A n \in DOMAIN ns : n < Len(ns) => NextIn(F, ns[n]) = ns[n + 1]

\* No other next field leads to a node: not the last one's, and not that of
\* memory which may become the next node.
Ended(F, ns) ==
  \A o \in Node :
    (\A n \in DOMAIN ns : n < Len(ns) => ns[n] # o) => NextIn(F, o) \notin Node

\* No two nodes have the same key.
Keyed(F, ns) ==
  \A n \in DOMAIN ns :
    /\ KeyIn(F, ns[n]) \in Key
    /\ \A m \in DOMAIN ns : KeyIn(F, ns[m]) = KeyIn(F, ns[n]) => m = n

\* The nodes show what is wanted.
Shown(F, ns, want) ==
  \A k \in Key :
    /\ (\A n \in DOMAIN ns : KeyIn(F, ns[n]) # k) => Absent \in want[k]
    /\ \A n \in DOMAIN ns :
         KeyIn(F, ns[n]) = k => F[<<ns[n], "value">>] \in want[k]

\* It is certain which keys have a record.
Certain(want) == \A k \in Key : Absent \in want[k] => want[k] = {Absent}

\* The nodes are in the memory A.
KeptIn(ns, A) == \A n \in DOMAIN ns : NodeCells(ns[n]) \subseteq A

\* The program p, performed in the memory m with A allocated, leaves a list
\* that shows what is wanted.
HoldsIn(m, A, p, want) ==
  \E F, ns :
    /\ ns \in Seq(Node) /\ Yields(p, m, F)
    /\ Linked(F, ns) /\ Ended(F, ns) /\ Keyed(F, ns) /\ Shown(F, ns, want)
    /\ KeptIn(ns, A \cup ToAllocate(p))

NoRecords == [k \in Key |-> {Absent}]

\* What an insert or update makes of what may be shown.
Written(t) ==
  IF Writes(th[t].op, th[t].key)
  THEN [expect EXCEPT ![th[t].key] = {th[t].val}] ELSE expect

\* In the first process that uses the pool the list is, or will be, in order.
ListInv ==
  starts = 0 =>
    /\ phase = "init" => HoldsIn(mem, live, prog[main], NoRecords)
    /\ phase = "serve" /\ (\A t \in Thread : ~Updating(t))
         => HoldsIn(mem, live, <<>>, expect) /\ Certain(expect)
    /\ \A t \in Thread : Updating(t) =>
         HoldsIn(mem, live, prog[t], Written(t)) /\ Certain(Written(t))

\* In every process pointers lead to nodes, or nowhere: what malloc leaves in
\* a next field may be no address, ...
Pointer == RootCells \cup {<<o, "next">> : o \in Node}
LeadsTo == Node \cup {Zero} \cup (IF Volatile(cls) THEN {Wild} ELSE {})

PointersTyped ==
  /\ HoldOnly(Pointer, LeadsTo)
  /\ \A a \in Actor : StoresOnly(prog[a], Pointer, LeadsTo)

\* ... but only destroy leaves the root with one of those, ...
RootTyped ==
  /\ Volatile(cls) => vol = Cell
  /\ phase # "destroy" =>
       /\ HoldOnly(RootCells, Node \cup {Zero})
       /\ \A a \in Actor : StoresOnly(prog[a], RootCells, Node \cup {Zero})

\* ... as only destroy frees.
NothingFreed ==
  phase # "destroy" => dying = {} /\ \A a \in Actor : FreesNothing(prog[a])

\* The keys that are being inserted are new, and differ.
InsertsNew ==
  \A t \in Thread : th[t].op = "insert" =>
    /\ th[t].pc = "want" => expect[th[t].key] = {Absent}
    /\ th[t].pc \in {"want", "in"} =>
         \A s \in Thread \ {t} :
           th[s].op = "insert" /\ th[s].pc \in {"want", "in"}
             => th[s].key # th[t].key

BaseInv ==
  /\ CallInv /\ MemoryTypeOK /\ ProgramsTyped /\ ~cls.upsert
  /\ PointersTyped /\ RootTyped /\ NothingFreed /\ InsertsNew

IInv == BaseInv /\ ListInv

\* The node o that the read of thread t has found has its key, is in memory that
\* nobody frees, and holds a value the key may show, or half of one; whoever has
\* steps to perform gives it no other.
FoundIn(o, t) ==
  LET key == <<o, "key">>  value == <<o, "value">>  r == th[t] IN
  /\ r.ptr = value /\ NodeCells(o) \subseteq live
  /\ mem[key] = r.key /\ mem[value] \in r.legal \cup {Torn}
  /\ \A a \in Actor : /\ StoresOnly(prog[a], {key}, {r.key})
                      /\ StoresOnly(prog[a], {value}, r.legal \cup {Torn})

\* From its lock to its answer a read has a record of its key, or its key may
\* have had none.
ReadTruly(t) ==
  LET r == th[t] IN
  /\ r.legal \subseteq Val \cup {Absent}
  /\ r.pc \in {"in", "copy", "got"} /\ r.ptr = None => Absent \in r.legal
  /\ r.pc \in {"in", "copy"} /\ r.ptr # None => \E o \in Node : FoundIn(o, t)
  /\ r.pc = "got" /\ r.ptr # None => r.got \in r.legal \cup {Torn}

ReadsInv ==
  starts = 0 =>
    /\ \A k \in Key : expect[k] \subseteq Val \cup {Absent}
    /\ \A t \in Thread : th[t].pc # "idle" /\ th[t].op = "read" => ReadTruly(t)

\* Whoever has steps to perform gives each pointer that a traversal follows one
\* value, and one that leads to a node no other.
LinkCell == {HeadCell} \cup {<<o, "next">> : o \in Node}

Growing(p) ==
  \A c \in LinkCell : \E v \in Value :
    StoresOnly(p, {c}, {v}) /\ (mem[c] \in Node => v = mem[c])

GrowthInv ==
  phase = "serve" /\ starts = 0 => \A a \in Actor : Growing(prog[a])
-----------------------------------------------------------------------------
(***************************************************************************)
(* The pool of a tx class in its first process.  insert stores the tail    *)
(* pointer of a list with nodes without a snapshot, so a failure may leave *)
(* anything in it; all else goes back to what the last TX_END left.        *)
(***************************************************************************)
PoolKept ==
  /\ vol = {} /\ live = slive \cup fresh /\ fresh \cap slive = {}
  /\ \A c \in slive \ {TailCell} :
       IF c \in DOMAIN undo THEN undo[c] = stable[c]
       ELSE mem[c] = stable[c] /\ may[c] = {stable[c]}
  /\ ~intx => /\ undo = NoUndo /\ fresh = {} /\ dying = {}
              /\ power = "up" => mem = stable
  /\ intx => power = "up"

\* What is to be performed is a transaction, which may store the tail unlogged,
\* or the rest of one that is open; init performs nothing.
Transacts ==
  /\ phase = "init" => prog[main] = <<>>
  /\ \A a \in Actor :
       /\ LogsFirst(prog[a], Logged \cup {TailCell}) /\ EndsTx(prog[a])
       /\ prog[a] # <<>> /\ ~intx => prog[a][1].op = "tx_begin"
  /\ intx => \E a \in Actor : prog[a] # <<>>

\* Nobody frees the head pointer; destroy clears it, when records may be gone.
HeadKept ==
  /\ HeadCell \in slive \ dying
  /\ \A a \in Actor : \A j \in DOMAIN prog[a] :
       HeadCell \notin Releases(prog[a][j])
  /\ phase = "destroy" =>
       /\ \A k \in Key : Absent \in expect[k]
       /\ \E F : Yields(prog[main], mem, F) /\ F[HeadCell] = Zero

\* The committed list shows what is expected, or it is empty and may be.
CommitShows ==
  \/ HoldsIn(stable, slive, <<>>, expect)
  \/ stable[HeadCell] = Zero /\ \A k \in Key : Absent \in expect[k]

TxImage == PoolKept /\ Transacts /\ HeadKept /\ CommitShows

ImageInv == cls.medium = "tx" /\ starts = 0 => TxImage
=============================================================================
