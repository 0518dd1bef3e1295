------------------------------ MODULE SkipList ------------------------------
(***************************************************************************)
(* storeds/skiplist: a head node and nodes in ascending order of their     *)
(* keys, linked at level 0 and, by the toss of a coin, at further levels;  *)
(* in DRAM, in libvmem memory, in persistent memory with explicit persists *)
(* (pmem) and with transactions (tx).                                      *)
(***************************************************************************)
EXTENDS Storeds, FiniteSetsExt, SequencesExt

CONSTANTS
  SKIPLIST_LEVELS_NUM,
  ScanLen,   (* the lengths a scan is called with *)
  MaxNode    (* bound: nodes that fit the heap, the head included *)

ASSUME SkipAssumption ==
  /\ SKIPLIST_LEVELS_NUM \in Nat \ {0} /\ MaxNode \in Nat \ {0}
  /\ ScanLen \subseteq Nat

Node == 1..MaxNode
Level == 0..(SKIPLIST_LEVELS_NUM - 1)
RootCells == {<<0, "root_node_oid">>}
NextCell(o, l) == <<o, "next", l>>
EntryOf(o) == {<<o, "key">>, <<o, "value">>}
NodeCells(o) == EntryOf(o) \cup {NextCell(o, l) : l \in Level}
SkipCell == RootCells \cup UNION {NodeCells(o) : o \in Node}
SkipValue == {Zero, Torn} \cup Node \cup Key \cup Val

\* OID_NULL is no object, and a result pointer that is not set points to none.
ASSUME ContentAssumption ==
  /\ Cell = SkipCell /\ Value = SkipValue
  /\ None \notin Cell /\ Zero \notin Node

HeadNode == mem[<<0, "root_node_oid">>]
KeyOf(o) == mem[<<o, "key">>]
NextOf(o, l) == mem[NextCell(o, l)]

\* The classes of storeds/skiplist.
skiplist_dram == Class("skiplist_dram", "dram", "none", TRUE)
skiplist_dram_concurrent_lock ==
  [skiplist_dram EXCEPT !.name = "skiplist_dram_concurrent_lock",
                        !.lock = "rwlock"]
skiplist_dram_concurrent_mlock ==
  [skiplist_dram EXCEPT !.name = "skiplist_dram_concurrent_mlock",
                        !.lock = "mutex"]
skiplist_vmem == Class("skiplist_vmem", "vmem", "none", TRUE)
skiplist_vmem_concurrent_mlock ==
  [skiplist_vmem EXCEPT !.name = "skiplist_vmem_concurrent_mlock",
                        !.lock = "mutex"]
skiplist_pmem == Class("skiplist_pmem", "pmem", "none", TRUE)
skiplist_pmem_concurrent_lock ==
  [skiplist_pmem EXCEPT !.name = "skiplist_pmem_concurrent_lock",
                        !.lock = "rwlock"]
skiplist_pmem_concurrent_mlock ==
  [skiplist_pmem EXCEPT !.name = "skiplist_pmem_concurrent_mlock",
                        !.lock = "mutex"]
skiplist_pmem_tx == Class("skiplist_pmem_tx", "tx", "none", TRUE)
skiplist_pmem_tx_concurrent_lock ==
  [skiplist_pmem_tx EXCEPT !.name = "skiplist_pmem_tx_concurrent_lock",
                           !.lock = "rwlock"]
skiplist_pmem_tx_concurrent_mlock ==
  [skiplist_pmem_tx EXCEPT !.name = "skiplist_pmem_tx_concurrent_mlock",
                           !.lock = "mutex"]

-----------------------------------------------------------------------------
\* Each update calls insert.
ASSUME ClassAssumption == \A c \in Classes : c.upsert

-----------------------------------------------------------------------------
\* What a loop that starts at o and goes on with f meets, one node a turn.
Loop(o, f) ==
  LET nth[n \in 0..MaxNode] == IF n = 0 THEN o ELSE f[nth[n - 1]]
  IN nth

\* A turn of the search for k on level l: on, while the next key is smaller.
Ahead(l, k) ==
  [o \in Node |-> IF NextOf(o, l) # Zero /\ KeyOf(NextOf(o, l)) < k
                  THEN NextOf(o, l) ELSE o]

\* The node at which a search for k leaves level l, having entered it at o.
LastBelow(o, l, k) == Loop(o, Ahead(l, k))[MaxNode]

\* Mutant: the path above level 0 is not recorded and stays at the head.
find_baseOnly(k) ==
  [l \in Level |-> IF l = 0 THEN LastBelow(HeadNode, 0, k) ELSE HeadNode]

\* find: for every level, the node behind which the key is or would be.
find(k) ==
  LET path[l \in Level] ==
        LastBelow(IF l = SKIPLIST_LEVELS_NUM - 1 THEN HeadNode ELSE path[l + 1],
                  l, k)
  IN path

PossibleFound(k) == NextOf(find(k)[0], 0)

\* Mutant: the keys are not compared.
Hit_next(k) == PossibleFound(k) # Zero

Hit(k) == PossibleFound(k) # Zero /\ KeyOf(PossibleFound(k)) = k

\* What read shows for a key; nothing before init has made a head.
Find(k) ==
  IF HeadNode = Zero \/ ~Hit(k) THEN Absent
  ELSE mem[<<PossibleFound(k), "value">>]

\* A walk along level l from the node o on, which stays at Zero.
Onward(l) ==
  [o \in Node \cup {Zero} |-> IF o = Zero THEN Zero ELSE NextOf(o, l)]

Walk(o, l) == Loop(o, Onward(l))

\* The nodes of level l behind the head.
Chain(l) ==
  LET nth == Walk(HeadNode, l)
      len == Cardinality({n \in 1..MaxNode : nth[n] # Zero})
  IN [n \in 1..len |-> nth[n]]

\* scan: the first len values from where the key is or would be.
Scanned(k, len) ==
  LET nth == Walk(PossibleFound(k), 0)
  IN {mem[<<nth[i], "value">>] :
        i \in {j \in 0..MaxNode : j < len /\ nth[j] # Zero}}

-----------------------------------------------------------------------------
(***************************************************************************)
(* init makes a new head, also in a pool that holds one already.  Only the *)
(* volatile classes clear its next pointers.                               *)
(***************************************************************************)
FreeNodes == {o \in Node : NodeCells(o) \cap live = {}}
NewNode == Min(FreeNodes)

\* Bound: the heap has room for the next node.
HasRoom == FreeNodes # {}

skiplist_dram_init ==
  <<Al(NodeCells(NewNode)), St(<<0, "root_node_oid">>, NewNode)>>
  \o SetToSeq({St(NextCell(NewNode, l), Zero) : l \in Level})

skiplist_pmem_init ==
  <<AlTo(NodeCells(NewNode), <<0, "root_node_oid">>, NewNode)>>

skiplist_pmem_tx_init ==
  <<Bg, Sn(RootCells), TAl(NodeCells(NewNode)),
    St(<<0, "root_node_oid">>, NewNode), Cm>>

init ==
  CASE Volatile(cls) -> skiplist_dram_init
    [] cls.medium = "pmem" -> skiplist_pmem_init
    [] cls.medium = "tx" -> skiplist_pmem_tx_init

(***************************************************************************)
(* insert, and update, which calls it.  h is the number of levels the coin *)
(* gives the new node.                                                     *)
(***************************************************************************)
\* A range of sizeof(struct sk_pmem_node) from next[l] on: the node's further
\* levels (and the memory behind it, which nothing else touches meanwhile).
Behind(o, l) == {NextCell(o, m) : m \in l..(SKIPLIST_LEVELS_NUM - 1)}

NewEntry(o, k, v) == <<St(<<o, "key">>, k)>> \o Cp(<<o, "value">>, v)

\* Mutant: the nodes in front are not snapshotted.
Snapshot_skipped(C) == <<>>

\* What a class does about a pointer before it is changed, and after.
Snapshot(C) == IF cls.medium = "tx" THEN <<Sn(C)>> ELSE <<>>
Persisted(C) == IF cls.medium = "pmem" THEN <<Fl(C)>> ELSE <<>>

\* The new node o behind the node p, on level l.
LinkAt(o, p, l) ==
  Snapshot(Behind(p, l))
  \o <<St(NextCell(o, l), NextOf(p, l)), St(NextCell(p, l), o)>>
  \o Persisted(Behind(p, l))

\* insert_node: at each level of the new node.
Link(o, path, h) == FlattenSeq([i \in 1..h |-> LinkAt(o, path[i - 1], i - 1)])

skiplist_dram_insert(k, v, h) ==
  IF Hit(k) THEN Cp(<<PossibleFound(k), "value">>, v)
  ELSE <<Al(NodeCells(NewNode))>> \o NewEntry(NewNode, k, v)
       \o Link(NewNode, find(k), h)

\* The persist meant for the new node is of the local variable that holds its
\* address.
skiplist_pmem_insert(k, v, h) ==
  IF Hit(k) THEN Cp(<<PossibleFound(k), "value">>, v)
                 \o <<Fl(NodeCells(PossibleFound(k)))>>
  ELSE <<Al(NodeCells(NewNode))>> \o NewEntry(NewNode, k, v)
       \o Link(NewNode, find(k), h)

skiplist_pmem_tx_insert(k, v, h) ==
  IF Hit(k) THEN <<Bg, Sn(EntryOf(PossibleFound(k)))>>
                 \o Cp(<<PossibleFound(k), "value">>, v) \o <<Cm>>
  ELSE <<Bg, TAl(NodeCells(NewNode))>> \o NewEntry(NewNode, k, v)
       \o Link(NewNode, find(k), h) \o <<Cm>>

insert(k, v, h) ==
  CASE Volatile(cls) -> skiplist_dram_insert(k, v, h)
    [] cls.medium = "pmem" -> skiplist_pmem_insert(k, v, h)
    [] cls.medium = "tx" -> skiplist_pmem_tx_insert(k, v, h)

(***************************************************************************)
(* destroy removes the first node until none is left.                      *)
(***************************************************************************)
\* remove_node of o, the first node of the list: on each level that has it the
\* head's next pointer moves on.
UnlinkAt(o, l) ==
  IF o \in ToSet(Chain(l))
  THEN Snapshot(Behind(HeadNode, l))
       \o <<St(NextCell(HeadNode, l), NextOf(o, l))>>
       \o Persisted(Behind(HeadNode, l))
  ELSE <<>>

Unlink(o) ==
  FlattenSeq([i \in 1..SKIPLIST_LEVELS_NUM |-> UnlinkAt(o, i - 1)])

\* The tx classes do not free the node.
remove_node(o) ==
  Unlink(o) \o IF cls.medium = "tx" THEN <<>> ELSE <<Fr(NodeCells(o))>>

RemoveAll == FlattenSeq([i \in 1..Len(Chain(0)) |-> remove_node(Chain(0)[i])])

skiplist_dram_destroy ==
  RemoveAll \o <<Fr(NodeCells(HeadNode)), St(<<0, "root_node_oid">>, Zero)>>

skiplist_pmem_destroy == RemoveAll \o <<Fr(RootCells)>>

skiplist_pmem_tx_destroy ==
  <<Bg>> \o RemoveAll \o <<Sn(RootCells), TFr(RootCells), Cm>>

destroy ==
  CASE Volatile(cls) -> skiplist_dram_destroy
    [] cls.medium = "pmem" -> skiplist_pmem_destroy
    [] cls.medium = "tx" -> skiplist_pmem_tx_destroy

-----------------------------------------------------------------------------
SkipInit == StoredsInit(RootCells, {}, init)

CallWrite(t, k, n) ==
  \E op \in {"insert", "update"} : Call(t, op, k, ValOf(k, n))

CallRead(t, k) == Call(t, "read", k, 0)

CallScan(t, k) == Call(t, "scan", k, 0)

Write(t) ==
  /\ th[t].op \in {"insert", "update"}
  /\ ~Hit(th[t].key) => HasRoom
  /\ \E h \in 1..SKIPLIST_LEVELS_NUM :
       Enter(t, insert(th[t].key, th[t].val, h), None)

Read(t) ==
  /\ th[t].op = "read"
  /\ Enter(t, <<>>, IF Hit(th[t].key)
                    THEN <<PossibleFound(th[t].key), "value">> ELSE None)

Scan(t) ==
  /\ th[t].op = "scan"
  /\ \E len \in ScanLen : EnterScan(t, Scanned(th[t].key, len))

ThreadStep(t) == Write(t) \/ Read(t) \/ Scan(t) \/ ClientStep(t)

MainStep == Exec(main) \/ InitDone([k \in Key |-> Find(k)]) \/ Close

Next ==
  \/ \E t \in Thread, k \in Key :
       \/ CallRead(t, k) \/ CallScan(t, k)
       \/ \E n \in Version : CallWrite(t, k, n)
  \/ \E t \in Thread : ThreadStep(t)
  \/ MainStep
  \/ Destroy(destroy)
  \/ Crash \/ Settling \/ (HasRoom /\ Reopen(init))
  \/ Finished

Spec == SkipInit /\ [][Next]_vars

-----------------------------------------------------------------------------
TxClient == INSTANCE TxDiscipline WITH Root <- RootCells

\* Between operations a search finds the last value written under a key, or
\* nothing if none was, whatever levels the nodes have.  A restart may put the
\* head in memory that another node has used and leave its links there.
MapCorrect == phase = "serve" /\ Unlocked /\ starts = 0 => Shows(Find)

\* Between operations every level is in strictly ascending order of keys, and
\* the nodes of a level are all on the level below it: a search that descends
\* from a node finds that node there.
LevelsNested ==
  phase = "serve" /\ Unlocked /\ starts = 0 =>
    \A l \in Level :
      /\ \A i, j \in DOMAIN Chain(l) :
           i < j => KeyOf(Chain(l)[i]) < KeyOf(Chain(l)[j])
      /\ l > 0 => ToSet(Chain(l)) \subseteq ToSet(Chain(l - 1))

\* tx: the classes keep to TxDiscipline, so that a failure at any step of an
\* insert leaves every level as the last commit left it (Atomicity).
Discipline == [][cls.medium = "tx" => TxClient!Disciplined]_pvars

-----------------------------------------------------------------------------
(***************************************************************************)
(* The inductive invariant.  ns gives the nodes of every level; F is the    *)
(* memory as it will be when the program that is being performed has ended. *)
(***************************************************************************)
HeadOf(F) == F[<<0, "root_node_oid">>]
KeyIn(F, o) == F[<<o, "key">>]

\* The place of q in a level is somewhere after that of o.
Precedes(F, o, q) == o = HeadOf(F) \/ KeyIn(F, o) < KeyIn(F, q)

\* On each level a node's pointer leads to the next of the level's nodes.
Linked(F, ns) ==
  \A l \in Level : \A o \in ns[l] \cup {HeadOf(F)} :
    LET p == F[NextCell(o, l)] IN
    /\ p = Zero => \A q \in ns[l] : ~Precedes(F, o, q)
    /\ p # Zero =>
         /\ p \in ns[l] /\ Precedes(F, o, p)
         /\ \A q \in ns[l] : Precedes(F, o, q) => q = p \/ Precedes(F, p, q)

\* No two nodes have the same key, and the head has none.
Keyed(F, ns) ==
  /\ HeadOf(F) \in Node \ ns[0]
  /\ \A o \in ns[0] : KeyIn(F, o) \in Key
  /\ \A o, q \in ns[0] : KeyIn(F, o) = KeyIn(F, q) => o = q

\* A node that is on a level is on all below.
Nested(ns) == \A l, m \in Level : m <= l => ns[l] \subseteq ns[m]

\* The nodes show what is wanted.
Wanted(F, ns, want) ==
  \A k \in Key :
    /\ (\A o \in ns[0] : KeyIn(F, o) # k) => Absent \in want[k]
    /\ \A o \in ns[0] : KeyIn(F, o) = k => F[<<o, "value">>] \in want[k]

\* The head and the nodes are in the memory A.
KeptIn(F, ns, A) ==
  \A o \in ns[0] \cup {HeadOf(F)} : NodeCells(o) \subseteq A

\* The program p, performed in the memory m with A allocated, leaves a list
\* that shows what is wanted.
HoldsIn(m, A, p, want) ==
  \E F, ns :
    /\ ns \in [Level -> SUBSET Node] /\ Yields(p, m, F)
    /\ Linked(F, ns) /\ Keyed(F, ns) /\ Nested(ns) /\ Wanted(F, ns, want)
    /\ KeptIn(F, ns, A \cup ToAllocate(p))

NoRecords == [k \in Key |-> {Absent}]

\* What an insert or update makes of what may be shown.
Written(t) == [expect EXCEPT ![th[t].key] = {th[t].val}]

\* In the first process that uses the pool the list is, or will be, in order.
LevelsInv ==
  starts = 0 =>
    /\ phase = "init" => HoldsIn(mem, live, prog[main], NoRecords)
    /\ phase = "serve" /\ (\A t \in Thread : ~Updating(t))
         => HoldsIn(mem, live, <<>>, expect)
    /\ \A t \in Thread : Updating(t) =>
         HoldsIn(mem, live, prog[t], Written(t))

\* In every process pointers lead to nodes, ...
Pointer == RootCells \cup {NextCell(o, l) : o \in Node, l \in Level}

PointersTyped ==
  /\ HoldOnly(Pointer, Node \cup {Zero})
  /\ \A a \in Actor : StoresOnly(prog[a], Pointer, Node \cup {Zero})

\* ... the root, once init has set it, to the head, ...
HeadMade ==
  /\ phase \in {"init", "serve"} =>
       \A a \in Actor : StoresOnly(prog[a], RootCells, Node)
  /\ phase = "init" =>
       \/ HeadNode \in Node
       \/ \E j \in DOMAIN prog[main] : RootCells \subseteq Assigns(prog[main][j])
  /\ phase = "serve" => HeadNode \in Node

\* ... and only destroy frees.
NothingFreed ==
  phase # "destroy" => dying = {} /\ \A a \in Actor : FreesNothing(prog[a])

BaseInv ==
  /\ CallInv /\ MemoryTypeOK /\ ProgramsTyped /\ TxPrograms
  /\ PointersTyped /\ HeadMade /\ NothingFreed

IInv == BaseInv /\ LevelsInv
=============================================================================
