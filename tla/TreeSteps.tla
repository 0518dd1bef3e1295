----------------------------- MODULE TreeSteps -----------------------------
(***************************************************************************)
(* What storeds/btree, storeds/btree_mem_opt, storeds/bplustree and        *)
(* storeds/bplustree_mem_opt have in common: a tree of nodes with at most  *)
(* MAX_KEYS keys whose full nodes are split on the way down to the leaf    *)
(* that takes a new record.                                                *)
(*                                                                         *)
(* The volatile, the pmem and the tx classes make the same assignments in  *)
(* the same order.  pmem persists ranges in between, tx snapshots them.    *)
(***************************************************************************)
EXTENDS Composite

CONSTANTS
  MIN_DEGREE,
  MaxNode,    (* bound: nodes that fit the heap *)
  MaxEntry    (* bound: entries or records that fit the heap *)

ASSUME DegreeAssumption == MIN_DEGREE \in Nat \ {0, 1}

MAX_KEYS == 2 * MIN_DEGREE - 1
MAX_CHILDREN == 2 * MIN_DEGREE

Node == 1..MaxNode
Entry == (MaxNode + 1)..(MaxNode + MaxEntry)
Slot == 0..(MAX_KEYS - 1)

\* A class.  plus: a B+-tree.  layout: a node holds its records in place, or
\* pointers to entries with key and value ("entries", btree_mem_opt), or its
\* keys and pointers to records ("records", bplustree_mem_opt; one array for
\* children and records).
TreeClass(name, medium, lock, plus, layout) ==
  LET c == Class(name, medium, lock, TRUE)
  IN [f \in DOMAIN c \cup {"plus", "layout", "load"} |->
        CASE f = "plus" -> plus
          [] f = "layout" -> layout
          [] f = "load" -> <<>>
          [] OTHER -> c[f]]

HeaderCells(o) == {<<o, "is_leaf">>, <<o, "nk">>}
ChainCells(o) == {<<o, "next">>, <<o, "previous">>}
ChildCells(o) == {<<o, "children", i>> : i \in 0..(MAX_CHILDREN - 1)}
FieldCells(o, F) == {<<o, f, i>> : f \in F, i \in Slot}
EntryCells(e) == {<<e, "key">>, <<e, "value">>}
RootCells == {<<0, "root_node_oid">>}

TreeCell ==
  RootCells
  \cup UNION {HeaderCells(o) \cup ChainCells(o) \cup ChildCells(o)
              \cup FieldCells(o, {"key", "value", "entries"}) : o \in Node}
  \cup UNION {EntryCells(e) : e \in Entry}

TreeValue ==
  {Zero, Torn, 1} \cup 0..MAX_KEYS \cup Node \cup Entry \cup Key \cup Val

Fields == CASE cls.layout = "inplace" -> {"key", "value"}
            [] cls.layout = "entries" -> {"entries"}
            [] cls.layout = "records" -> {"key"}

NodeCells(o) ==
  HeaderCells(o) \cup ChildCells(o) \cup FieldCells(o, Fields)
  \cup IF cls.plus THEN ChainCells(o) ELSE {}

-----------------------------------------------------------------------------
(***************************************************************************)
(* Reading a tree.  m is the memory it is read from: that of the running   *)
(* program (mem), or what an unfinished operation will have made of it.    *)
(***************************************************************************)
RootNode == mem[<<0, "root_node_oid">>]

IsLeaf(m, o) == m[<<o, "is_leaf">>] = 1
NK(m, o) == m[<<o, "nk">>]
Child(m, o, i) == m[<<o, "children", i>>]

KeyCell(m, o, i) ==
  IF cls.layout = "entries" THEN <<m[<<o, "entries", i>>], "key">>
  ELSE <<o, "key", i>>

ValueCell(m, o, i) ==
  CASE cls.layout = "inplace" -> <<o, "value", i>>
    [] cls.layout = "entries" -> <<m[<<o, "entries", i>>], "value">>
    [] cls.layout = "records" -> <<Child(m, o, i), "value">>

KeyAt(m, o, i) == m[KeyCell(m, o, i)]

is_node_full(m, o) == NK(m, o) = MAX_KEYS

\* The slot at which a search for k stops.
Position(m, o, k) ==
  Min({i \in 0..NK(m, o) : i = NK(m, o) \/ k <= KeyAt(m, o, i)})

\* Mutant: the keys are not compared for equality.
HitAt_next(m, o, k, n) == Position(m, o, k) < n

\* Whether it stops at the key, in one of the first n slots.
HitAt(m, o, k, n) ==
  LET i == Position(m, o, k) IN i < n /\ KeyAt(m, o, i) = k

\* Mutant: a key that separates two children is looked for in the left one.
Toward_left(m, o, k, n) ==
  IF IsLeaf(m, o) \/ (HitAt(m, o, k, n) /\ ~cls.plus) THEN o
  ELSE Child(m, o, Position(m, o, k))

\* A B-tree holds a record where its key is met; a B+-tree holds it in the
\* leaf that follows the key.
Toward(m, o, k, n) ==
  CASE IsLeaf(m, o) -> o
    [] ~HitAt(m, o, k, n) -> Child(m, o, Position(m, o, k))
    [] cls.plus -> Child(m, o, Position(m, o, k) + 1)
    [] OTHER -> o

\* search: the value buffer of the key.
search(m, root, k) ==
  LET at[d \in 0..MaxNode] ==
        IF d = 0 THEN root
        ELSE LET o == at[d - 1] IN Toward(m, o, k, NK(m, o))
      o == at[MaxNode]
  IN IF HitAt(m, o, k, NK(m, o)) THEN ValueCell(m, o, Position(m, o, k))
     ELSE None

\* How many slots update_if_found compares: one class looks behind the keys.
Compared(m, o) ==
  IF cls.name = "bp_pmem_concurrent_mlock" THEN MAX_KEYS ELSE NK(m, o)

\* update_if_found: as search.
update_if_found(m, root, k) ==
  LET at[d \in 0..MaxNode] ==
        IF d = 0 THEN root
        ELSE LET o == at[d - 1] IN Toward(m, o, k, Compared(m, o))
      o == at[MaxNode]
  IN IF HitAt(m, o, k, Compared(m, o)) THEN ValueCell(m, o, Position(m, o, k))
     ELSE None

\* What read shows for a key.
Find(k) ==
  LET c == IF RootNode = Zero THEN None ELSE search(mem, RootNode, k)
  IN IF c = None THEN Absent ELSE mem[c]

\* The nodes of the tree below o, and o, in the order recursive_free visits
\* them.
PostOrder(root) ==
  LET post[o \in Node] ==
        IF IsLeaf(mem, o) THEN <<o>>
        ELSE Append(FlattenSeq([i \in 1..(NK(mem, o) + 1) |->
                                  post[Child(mem, o, i - 1)]]), o)
  IN post[root]

-----------------------------------------------------------------------------
\* What the allocator returns next.
NewNode(w) == Min({o \in Node : NodeCells(o) \cap Taken(w) = {}})
NewEntry(w) == Min({e \in Entry : EntryCells(e) \cap Taken(w) = {}})

create_node(o, leaf) ==
  Allocate(NodeCells(o)) \o <<St(<<o, "is_leaf">>, leaf), St(<<o, "nk">>, 0)>>
  \o IF cls.plus THEN <<St(<<o, "previous">>, Zero), St(<<o, "next">>, Zero)>>
     ELSE <<>>

CopyChild(m, p, j, o, i) == <<St(<<p, "children", j>>, Child(m, o, i))>>

\* p->entries[j] = o->entries[i]: of a whole entry or of a pointer.  In
\* bplustree_mem_opt, of a key, and in a leaf of its record's address.
CopyEntry(m, p, j, o, i) ==
  CASE cls.layout = "inplace" ->
         <<St(<<p, "key", j>>, m[<<o, "key", i>>])>>
         \o Cp(<<p, "value", j>>, m[<<o, "value", i>>])
    [] cls.layout = "entries" ->
         <<St(<<p, "entries", j>>, m[<<o, "entries", i>>])>>
    [] cls.layout = "records" ->
         <<St(<<p, "key", j>>, m[<<o, "key", i>>])>>
         \o IF IsLeaf(m, o) THEN CopyChild(m, p, j, o, i) ELSE <<>>

\* The loops that make room at slot i, last slot first.
ShiftEntries(m, o, i) ==
  LET n == NK(m, o)
  IN FlattenSeq([j \in 1..(n - i) |-> CopyEntry(m, o, n - j + 1, o, n - j)])

\* Mutant: the loop runs first child first, and copies what it has just
\* overwritten.
ShiftChildren_upwards(m, o, i) ==
  LET n == NK(m, o)
  IN FlattenSeq([j \in 1..(n + 1 - i) |-> CopyChild(m, o, i + j, o, i)])

ShiftChildren(m, o, i) ==
  LET n == NK(m, o)
  IN FlattenSeq([j \in 1..(n + 1 - i) |->
                   CopyChild(m, o, n - j + 2, o, n - j + 1)])

\* Mutant: the sibling is not persisted.
SplitFlush_noSibling(sibling, child, parent) ==
  Flush(NodeCells(child)) \o Flush(NodeCells(parent))

SplitFlush(sibling, child, parent) ==
  Flush(NodeCells(sibling)) \o Flush(NodeCells(child)) \o Flush(NodeCells(parent))

\* The part of split_node that both kinds of split share: the parent gets the
\* sibling s as a child, and separator in its entries.
Adopt(m, parent, idx, s, separator) ==
  ShiftChildren(m, parent, idx + 1)
  \o <<St(<<parent, "children", idx + 1>>, s)>>
  \o ShiftEntries(m, parent, idx) \o separator
  \o <<St(<<parent, "nk">>, NK(m, parent) + 1)>>

\* split_node: the upper half of child moves to a new sibling, its middle
\* entry to the parent.
SplitInner(w, idx, parent, child) ==
  LET m == w.m
      T == MIN_DEGREE
      s == NewNode(w)
  IN create_node(s, m[<<child, "is_leaf">>])
     \o Snapshot(NodeCells(child)) \o Snapshot(NodeCells(s))
     \o <<St(<<s, "nk">>, T - 1)>>
     \o FlattenSeq([i \in 1..(T - 1) |-> CopyEntry(m, s, i - 1, child, i - 1 + T)])
     \o (IF IsLeaf(m, child) THEN <<>>
         ELSE FlattenSeq([i \in 1..T |-> CopyChild(m, s, i - 1, child, i - 1 + T)]))
     \o <<St(<<child, "nk">>, T - 1)>>
     \o Adopt(m, parent, idx, s, CopyEntry(m, parent, idx, child, T - 1))
     \o SplitFlush(s, child, parent)

\* Mutant: the sibling does not lead to the leaf behind it.
Chain_cut(m, child, s) ==
  <<St(<<child, "next">>, s), St(<<s, "previous">>, child)>>

\* The sibling s is entered in the leaf chain behind child.
Chain(m, child, s) ==
  LET n == m[<<child, "next">>]
  IN <<St(<<s, "next">>, n)>>
     \o (IF n = Zero THEN <<>>
         ELSE Snapshot(NodeCells(n)) \o <<St(<<n, "previous">>, s)>>
              \o Flush(NodeCells(n)))
     \o <<St(<<child, "next">>, s), St(<<s, "previous">>, child)>>

\* split_node of a leaf of a B+-tree: no record leaves the leaves, the parent
\* gets a copy of the sibling's first key.
SplitLeaf(w, idx, parent, child) ==
  LET m == w.m
      T == MIN_DEGREE
      s == NewNode(w)
  IN create_node(s, m[<<child, "is_leaf">>])
     \o Snapshot(NodeCells(child)) \o Snapshot(NodeCells(s))
     \o <<St(<<s, "nk">>, T)>>
     \o FlattenSeq([i \in 1..T |-> CopyEntry(m, s, i - 1, child, i - 2 + T)])
     \o <<St(<<child, "nk">>, T - 1)>>
     \o Adopt(m, parent, idx, s,
              <<St(<<parent, "key", idx>>, KeyAt(m, child, T - 1))>>)
     \o Chain(m, child, s)
     \o SplitFlush(s, child, parent)

split_node(w, idx, parent, child) ==
  IF cls.plus /\ IsLeaf(w.m, child) THEN SplitLeaf(w, idx, parent, child)
  ELSE SplitInner(w, idx, parent, child)

\* The record is written to slot i of leaf o.  pmem: create_entry of
\* btree_mem_opt and create_record of bplustree_mem_opt do not persist it.
PutEntry(w, o, i, k, v) ==
  LET e == NewEntry(w)
  IN CASE cls.layout = "inplace" ->
            <<St(<<o, "key", i>>, k)>> \o Cp(<<o, "value", i>>, v)
       [] cls.layout = "entries" ->
            Allocate(EntryCells(e)) \o <<St(<<e, "key">>, k)>>
            \o Cp(<<e, "value">>, v) \o <<St(<<o, "entries", i>>, e)>>
       [] cls.layout = "records" ->
            <<St(<<o, "key", i>>, k)>> \o Allocate(EntryCells(e))
            \o Cp(<<e, "value">>, v) \o <<St(<<o, "children", i>>, e)>>

\* The slot insert_not_full finds from the right.
InsertSlot(m, o, k) ==
  Max({i \in 0..NK(m, o) : i = 0 \/ KeyAt(m, o, i - 1) <= k})

\* insert_not_full of a leaf.
LeafInsert(w, k, v) ==
  LET o == w.at
      i == InsertSlot(w.m, o, k)
  IN ShiftEntries(w.m, o, i) \o PutEntry(w, o, i, k, v)
     \o <<St(<<o, "nk">>, NK(w.m, o) + 1)>> \o Flush(NodeCells(o))

\* Mutant: the middle entry that has moved up is not compared with the key.
Half_left(m, o, i, k) == i

\* Which of the two halves of a split child takes the key.
Half(m, o, i, k) == IF KeyAt(m, o, i) < k THEN i + 1 ELSE i

\* Mutant: the child is not snapshotted before it is entered.
EnterChild_noSnapshot(w, i) == [w EXCEPT !.at = Child(w.m, w.at, i)]

EnterChild(w, i) ==
  LET c == Child(w.m, w.at, i)
  IN [Then(w, Snapshot(NodeCells(c))) EXCEPT !.at = c]

\* insert_not_full of an inner node: one level down, splitting a full child.
Descend(w, k) ==
  LET i == InsertSlot(w.m, w.at, k)
      c == Child(w.m, w.at, i)
      s == Then(w, split_node(w, i, w.at, c))
  IN IF is_node_full(w.m, c) THEN EnterChild(s, Half(s.m, w.at, i, k))
     ELSE EnterChild(w, i)

insert_not_full(w, k, v) ==
  LET Down(x) == IF IsLeaf(x.m, x.at) THEN x ELSE Descend(x, k)
      level[d \in 0..MaxNode] == IF d = 0 THEN w ELSE Down(level[d - 1])
      l == level[MaxNode]
  IN Then(l, LeafInsert(l, k, v))

-----------------------------------------------------------------------------
(***************************************************************************)
(* init.  A persistent class makes a new root leaf, also in a pool that    *)
(* holds a tree already.  The length of the persisted range is that of a   *)
(* node, but it starts at the root object.                                 *)
(***************************************************************************)
init ==
  LET o == NewNode(Begun(Zero))
      assign == <<St(<<0, "root_node_oid">>, o)>>
  IN IF Volatile(cls) THEN <<St(<<0, "root_node_oid">>, Zero)>>
     ELSE InTx(Snapshot(RootCells) \o create_node(o, 1) \o assign
               \o Flush(RootCells))

(***************************************************************************)
(* insert, and update, which calls it.                                     *)
(***************************************************************************)
\* The first record of a volatile tree.
InsertFirst(k, v) ==
  LET o == NewNode(Begun(Zero))
  IN create_node(o, 1) \o <<St(<<0, "root_node_oid">>, o)>>
     \o PutEntry(Begun(o), o, 0, k, v) \o <<St(<<o, "nk">>, 1)>>

\* The key has been found.  tx: the snapshot has the length of the old value; all
\* values of a workload have the same length.
Overwrite(c, v) == InTx(Snapshot({c}) \o Cp(c, v) \o Flush({c}))

\* The root is full: a new root above it, and a split.  pmem persists the new
\* root node, twice, and never the root pointer.
InsertAboveRoot(k, v) ==
  LET r == NewNode(Begun(Zero))
      a == Then(Begun(r), create_node(r, 0) \o Snapshot(NodeCells(r))
                          \o <<St(<<r, "children", 0>>, RootNode)>>)
      s == Then(a, split_node(a, 0, r, RootNode))
      w == insert_not_full(EnterChild(s, Half(s.m, r, 0, k)), k, v)
  IN InTx(w.steps \o Flush(NodeCells(r)) \o Snapshot(RootCells)
          \o <<St(<<0, "root_node_oid">>, r)>> \o Flush(NodeCells(r)))

\* The root has room.  tx: the snapshot meant for the root node is taken of
\* the root object, which holds the node's address.
InsertBelowRoot(k, v) ==
  InTx(Snapshot(RootCells) \o insert_not_full(Begun(RootNode), k, v).steps)

insert(k, v) ==
  LET c == update_if_found(mem, RootNode, k)
  IN CASE RootNode = Zero -> InsertFirst(k, v)
       [] OTHER -> CASE c # None -> Overwrite(c, v)
                     [] c = None /\ is_node_full(mem, RootNode) ->
                          InsertAboveRoot(k, v)
                     [] OTHER -> InsertBelowRoot(k, v)

ClearRoot == <<St(<<0, "root_node_oid">>, Zero)>>

-----------------------------------------------------------------------------
TreeInit == StoredsInit(RootCells, {}, init)

\* update_if_found takes an old slot without a record for the key's.
FindsNull(k) ==
  RootNode # Zero /\ update_if_found(mem, RootNode, k) = <<Zero, "value">>

Write(t) ==
  /\ th[t].op = "insert" \/ (th[t].op = "update" /\ RootNode # Zero)
  /\ ~FindsNull(th[t].key)
  /\ Enter(t, insert(th[t].key, th[t].val), None)

Read(t) ==
  /\ th[t].op = "read" /\ RootNode # Zero
  /\ Enter(t, <<>>, search(mem, RootNode, th[t].key))

\* check() of the volatile classes, which comes before the lock.
NotInitialised(t) ==
  th[t].op \in {"read", "scan", "update"} /\ RootNode = Zero /\ CheckFails(t)

\* A miss has set the result to NULL; no string can be made of it.
CopyFound(t) == th[t].ptr # None /\ CopyOut(t)

TreeStep(t) ==
  \/ Write(t) \/ Read(t) \/ NotInitialised(t)
  \/ Exec(t) \/ Leave(t) \/ CopyFound(t) \/ MissDies(t) \/ Return(t)

\* check() in destroy of a volatile tree that was never written.
DestroyEmpty ==
  phase = "serve" /\ Quiet /\ RootNode = Zero /\ Dies

-----------------------------------------------------------------------------
TxClient == INSTANCE TxDiscipline WITH Root <- RootCells

Serving == phase = "serve" /\ Unlocked /\ RootNode # Zero

\* The nodes of the tree.
Nodes == ToSet(PostOrder(RootNode))

\* The keys below o.
KeysBelow(o) ==
  LET below[p \in Node] ==
        {KeyAt(mem, p, i) : i \in 0..(NK(mem, p) - 1)}
        \cup IF IsLeaf(mem, p) THEN {}
             ELSE UNION {below[Child(mem, p, i)] : i \in 0..NK(mem, p)}
  IN below[o]

Height(o) ==
  LET height[p \in Node] ==
        IF IsLeaf(mem, p) THEN 0
        ELSE 1 + Max({height[Child(mem, p, i)] : i \in 0..NK(mem, p)})
  IN height[o]

\* No node is shared, every node but the root holds at least MIN_DEGREE - 1
\* keys, in ascending order, and the children of a node have the same height.
Balanced ==
  /\ Cardinality(Nodes) = Len(PostOrder(RootNode))
  /\ \A o \in Nodes :
       /\ o # RootNode => NK(mem, o) >= MIN_DEGREE - 1
       /\ \A i \in 1..(NK(mem, o) - 1) : KeyAt(mem, o, i - 1) < KeyAt(mem, o, i)
       /\ ~IsLeaf(mem, o) =>
            \A i \in 1..NK(mem, o) :
              Height(Child(mem, o, i)) = Height(Child(mem, o, 0))

\* Between operations a search finds the last value written under a key, or
\* nothing if none was, through every split on the way down (insert,
\* split_node, insert_not_full) and in every later process.
MapCorrect == phase = "serve" /\ Unlocked => Shows(Find)

\* What a search or a scan reads in node o.
Used(o) ==
  LET slots == 0..(NK(mem, o) - 1)
  IN HeaderCells(o) \cup {KeyCell(mem, o, i) : i \in slots}
     \cup (IF IsLeaf(mem, o) \/ ~cls.plus
           THEN {ValueCell(mem, o, i) : i \in slots} ELSE {})
     \cup (IF IsLeaf(mem, o) THEN {}
           ELSE {<<o, "children", i>> : i \in 0..NK(mem, o)})
     \cup (IF IsLeaf(mem, o) /\ cls.plus THEN ChainCells(o) ELSE {})

\* btree_pmem and bplustree_pmem: between operations everything a search or a
\* scan would read in a node that holds a key is on the medium, whatever
\* splits have moved.  Only the pointer to the root node is left out
\* (InsertAboveRoot).
NodesPersisted ==
  Serving /\ cls.medium = "pmem" /\ cls.layout = "inplace" =>
    \A o \in Nodes : NK(mem, o) > 0 =>
      \A c \in Used(o) : may[c] = {mem[c]}

\* tx: the classes keep to TxDiscipline, except that the node that was the
\* root when the operation began is changed without a snapshot.
DisciplineBelowRoot ==
  [][cls.medium = "tx" /\ phase = "serve" =>
       \/ TxClient!Disciplined
       \/ /\ live' = live
          /\ \A c \in Cell \ NodeCells(RootNode) : mem'[c] = mem[c]]_pvars
=============================================================================
