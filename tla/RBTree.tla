------------------------------- MODULE RBTree -------------------------------
(***************************************************************************)
(* storeds/rbtree: a red-black tree.  insert puts a red leaf into the      *)
(* search tree and repairs the colours from there up, recolouring or       *)
(* rotating.  scan is not implemented: it throws (Rethrow in Driver).      *)
(***************************************************************************)
EXTENDS Composite

CONSTANT MaxNode   (* bound: nodes that fit the heap *)

Node == 1..MaxNode

RED == 0
BLACK == 1

RBClass(name, medium, lock) ==
  LET c == Class(name, medium, lock, TRUE)
  IN [f \in DOMAIN c \cup {"load"} |-> IF f = "load" THEN <<>> ELSE c[f]]

rbtree_dram == RBClass("rbtree_dram", "dram", "none")
rbtree_dram_concurrent_lock ==
  RBClass("rbtree_dram_concurrent_lock", "dram", "rwlock")
rbtree_dram_concurrent_mlock ==
  RBClass("rbtree_dram_concurrent_mlock", "dram", "mutex")
rbtree_vmem == RBClass("rbtree_vmem", "vmem", "none")
rbtree_vmem_concurrent_mlock ==
  RBClass("rbtree_vmem_concurrent_mlock", "vmem", "mutex")
rbtree_vmem_concurrent_pmlock ==
  RBClass("rbtree_vmem_concurrent_pmlock", "vmem", "mutex")
rbtree_pmem == RBClass("rbtree_pmem", "pmem", "none")
rbtree_pmem_concurrent_lock ==
  RBClass("rbtree_pmem_concurrent_lock", "pmem", "rwlock")
rbtree_pmem_concurrent_mlock ==
  RBClass("rbtree_pmem_concurrent_mlock", "pmem", "mutex")
rbtree_pmem_concurrent_vmlock ==
  RBClass("rbtree_pmem_concurrent_vmlock", "pmem", "mutex")
rbtree_pmem_tx == RBClass("rbtree_pmem_tx", "tx", "none")
rbtree_pmem_tx_concurrent_lock ==
  RBClass("rbtree_pmem_tx_concurrent_lock", "tx", "rwlock")
rbtree_pmem_tx_concurrent_mlock ==
  RBClass("rbtree_pmem_tx_concurrent_mlock", "tx", "mutex")

\* The fields of a node in the order of the struct.
Layout == <<"key", "value", "left", "right", "parent", "color">>

RootCells == {<<0, "root_node_oid">>}

\* A range that starts at field f of node o and goes on to its end.
CellsFrom(o, f) ==
  LET i == CHOOSE j \in DOMAIN Layout : Layout[j] = f
  IN {<<o, Layout[j]>> : j \in i..Len(Layout)}

NodeCells(o) == CellsFrom(o, "key")

RBCell == RootCells \cup UNION {NodeCells(o) : o \in Node}
RBValue == {Zero, Torn, RED, BLACK} \cup Node \cup Key \cup Val

-----------------------------------------------------------------------------
(***************************************************************************)
(* Reading a tree in memory m.                                             *)
(***************************************************************************)
RootOf(m) == m[<<0, "root_node_oid">>]
KeyOf(m, o) == m[<<o, "key">>]
Parent(m, o) == m[<<o, "parent">>]
Color(m, o) == m[<<o, "color">>]
Opposite(d) == IF d = "left" THEN "right" ELSE "left"

\* The side of node o on which k belongs.
Side(m, o, k) == IF k < KeyOf(m, o) THEN "left" ELSE "right"

\* The node at which the search for k below o ends: the key's, or the one
\* without a child on its side.
Stop(m, o, k) ==
  LET at[d \in 0..MaxNode] ==
        IF d = 0 THEN o
        ELSE LET p == at[d - 1]
                 c == m[<<p, Side(m, p, k)>>]
             IN IF KeyOf(m, p) = k \/ c = Zero THEN p ELSE c
  IN at[MaxNode]

\* lookup: the value buffer of the key below o.
lookup(m, o, k) ==
  IF o = Zero THEN None
  ELSE LET p == Stop(m, o, k)
       IN IF KeyOf(m, p) = k THEN <<p, "value">> ELSE None

FindBelow(o, k) ==
  LET c == lookup(mem, o, k) IN IF c = None THEN Absent ELSE mem[c]

\* What read shows for a key.
Find(k) == FindBelow(RootOf(mem), k)

-----------------------------------------------------------------------------
NewNode(w) == Min({o \in Node : NodeCells(o) \cap Taken(w) = {}})

\* pmem: the new node is not persisted.
create_new_node(o, k, v) ==
  Allocate(NodeCells(o)) \o Snapshot(NodeCells(o))
  \o <<St(<<o, "left">>, Zero), St(<<o, "right">>, Zero),
       St(<<o, "parent">>, Zero), St(<<o, "color">>, RED), St(<<o, "key">>, k)>>
  \o Cp(<<o, "value">>, v)

\* Mutant: the parent gets the node on its left, whichever side it was on.
Relink_left(m, o, c) ==
  LET p == Parent(m, o)
  IN IF p = Zero
     THEN Snapshot(NodeCells(RootOf(m))) \o <<St(<<0, "root_node_oid">>, c)>>
          \o Flush(RootCells)
     ELSE Snapshot(NodeCells(p)) \o <<St(<<p, "left">>, c)>>
          \o Flush(CellsFrom(p, "left"))

\* Where the parent of a rotated node o gets c instead.  tx: at the root the
\* snapshot is of the root node, and not of the root object that is changed.
Relink(m, o, c) ==
  LET p == Parent(m, o)
      s == IF m[<<p, "left">>] = o THEN "left" ELSE "right"
  IN IF p = Zero
     THEN Snapshot(NodeCells(RootOf(m))) \o <<St(<<0, "root_node_oid">>, c)>>
          \o Flush(RootCells)
     ELSE Snapshot(NodeCells(p)) \o <<St(<<p, s>>, c)>>
          \o Flush(CellsFrom(p, s))

\* Mutant: the root of the subtree that changes sides is not snapshotted.
Rehang_noSnapshot(o, g) ==
  IF g = Zero THEN <<>>
  ELSE <<St(<<g, "parent">>, o)>> \o Flush(CellsFrom(g, "parent"))

\* The subtree g that changes sides gets o as its parent.
Rehang(o, g) ==
  IF g = Zero THEN <<>>
  ELSE Snapshot(NodeCells(g)) \o <<St(<<g, "parent">>, o)>>
       \o Flush(CellsFrom(g, "parent"))

\* rotate_left (d = "left") and rotate_right: the child of o on the other side
\* takes its place.  pmem: the persists of the two nodes are of the local
\* variables that hold their addresses.
rotate(m, o, d) ==
  LET e == Opposite(d)
      c == m[<<o, e>>]
      g == m[<<c, d>>]
  IN Snapshot(NodeCells(o)) \o Snapshot(NodeCells(c))
     \o <<St(<<o, e>>, g)>> \o Rehang(o, g)
     \o <<St(<<c, "parent">>, Parent(m, o))>> \o Relink(m, o, c)
     \o <<St(<<c, d>>, o), St(<<o, "parent">>, c)>>

-----------------------------------------------------------------------------
(***************************************************************************)
(* fix_violation.  A tx class runs every round in a transaction of its     *)
(* own.  A node without a parent, or a red one without a grandparent, is   *)
(* met only in a pool a failure has left: Trap stands for the null pointer *)
(* that is then used, which ends the process.                              *)
(***************************************************************************)
Trap == [op |-> "trap"]

\* The condition of the loop.
Violated(m, c) ==
  /\ c # Zero /\ c # RootOf(m) /\ Color(m, c) = RED
  /\ Parent(m, c) = Zero \/ Color(m, Parent(m, c)) = RED

\* Mutant: the uncle stays red.
Recolor_twoNodes(p, g, u) ==
  Snapshot(NodeCells(u))
  \o <<St(<<g, "color">>, RED), St(<<p, "color">>, BLACK)>>
  \o Flush(NodeCells(g)) \o Flush(NodeCells(p)) \o Flush(NodeCells(u))

Recolor(p, g, u) ==
  Snapshot(NodeCells(u))
  \o <<St(<<g, "color">>, RED), St(<<p, "color">>, BLACK),
       St(<<u, "color">>, BLACK)>>
  \o Flush(NodeCells(g)) \o Flush(NodeCells(p)) \o Flush(NodeCells(u))

\* One rotation, or two when the current node is an inner grandchild; then
\* the upper two nodes swap colours, which pmem does not persist.  The
\* persistent classes go on from the old parent.
Rebalance(w, p, g, d) ==
  LET inner == w.at = w.m[<<p, Opposite(d)>>]
      top == IF inner THEN w.at ELSE p
      a == IF inner THEN Then(w, rotate(w.m, p, d)) ELSE w
      b == Then(a, rotate(a.m, g, Opposite(d)))
  IN [Then(b, <<St(<<top, "color">>, Color(b.m, g)),
                St(<<g, "color">>, Color(b.m, top))>>)
        EXCEPT !.at = IF Volatile(cls) THEN top ELSE p]

\* The loop's body; w.at becomes the node the next round looks at.
Round(w) ==
  LET m == w.m
      p == Parent(m, w.at)
      g == Parent(m, p)
      d == IF p = m[<<g, "left">>] THEN "left" ELSE "right"
      u == m[<<g, Opposite(d)>>]
      b == Then([w EXCEPT !.steps = <<>>],
                Snapshot(NodeCells(p)) \o Snapshot(NodeCells(g)))
      done == IF u # Zero /\ Color(m, u) = RED
              THEN [Then(b, Recolor(p, g, u)) EXCEPT !.at = g]
              ELSE Rebalance(b, p, g, d)
  IN CASE p = Zero -> [Then(w, <<Trap>>) EXCEPT !.at = Zero]
       [] p # Zero /\ g = Zero ->
            [Then(w, InTx(Snapshot(NodeCells(p)) \o <<Trap>>)) EXCEPT !.at = Zero]
       [] OTHER ->
            [done EXCEPT !.steps = w.steps \o InTx(done.steps)]

BlackenRoot(m) ==
  LET r == RootOf(m)
  IN InTx(Snapshot(NodeCells(r)) \o <<St(<<r, "color">>, BLACK)>>)
     \o Flush(NodeCells(r))

fix_violation(w) ==
  LET round[n \in 0..MaxNode] ==
        IF n = 0 THEN w
        ELSE LET x == round[n - 1]
             IN IF Violated(x.m, x.at) THEN Round(x) ELSE x
      end == round[MaxNode]
  IN Then(end, BlackenRoot(end.m)).steps

-----------------------------------------------------------------------------
(***************************************************************************)
(* insert and update.                                                      *)
(***************************************************************************)
InsertFirst(k, v) ==
  LET o == NewNode(Begun(Zero))
  IN fix_violation(
       Then(Begun(o), InTx(Snapshot(RootCells) \o create_new_node(o, k, v)
                           \o <<St(<<0, "root_node_oid">>, o)>>)))

\* bst_upsert, the key found at node o.
Overwrite(o, v) ==
  InTx(Snapshot(NodeCells(o)) \o Cp(<<o, "value">>, v) \o Flush({<<o, "value">>}))

\* Mutant: the parent is not snapshotted.
Attach_noSnapshot(p, k, v) ==
  LET o == NewNode(Begun(p))
      s == Side(mem, p, k)
  IN Then(Begun(o), InTx(create_new_node(o, k, v)
                         \o <<St(<<p, s>>, o), St(<<o, "parent">>, p)>>
                         \o Flush(CellsFrom(p, s))))

\* bst_upsert, the key not found: a new child of p.  pmem: the persist of the
\* new node is of the local variable that holds its address.
Attach(p, k, v) ==
  LET o == NewNode(Begun(p))
      s == Side(mem, p, k)
  IN Then(Begun(o), InTx(Snapshot(NodeCells(p)) \o create_new_node(o, k, v)
                         \o <<St(<<p, s>>, o), St(<<o, "parent">>, p)>>
                         \o Flush(CellsFrom(p, s))))

insert(k, v) ==
  LET o == Stop(mem, RootOf(mem), k)
  IN CASE RootOf(mem) = Zero -> InsertFirst(k, v)
       [] OTHER -> IF KeyOf(mem, o) = k THEN Overwrite(o, v)
                   ELSE fix_violation(Attach(o, k, v))

(***************************************************************************)
(* init leaves the tree of an existing pool alone; a volatile class starts *)
(* with an empty one.                                                      *)
(***************************************************************************)
init == IF Volatile(cls) THEN <<St(<<0, "root_node_oid">>, Zero)>> ELSE <<>>

(***************************************************************************)
(* destroy.  free_node goes from the leaves up; a tx class frees each node *)
(* in a transaction of its own.                                            *)
(***************************************************************************)
free_node(o) ==
  IF cls.medium = "tx" THEN InTx(<<Sn(NodeCells(o)), TFr(NodeCells(o))>>)
  ELSE <<Fr(NodeCells(o))>>

\* A node below itself: the recursion ends the process when its stack is full.
FreeNodes ==
  LET free[n \in 0..MaxNode, o \in Node \cup {Zero}] ==
        CASE o = Zero -> <<>>
          [] o # Zero /\ n = 0 -> <<Trap>>
          [] OTHER -> free[n - 1, mem[<<o, "left">>]]
                      \o free[n - 1, mem[<<o, "right">>]] \o free_node(o)
  IN free[MaxNode, RootOf(mem)]

destroy ==
  LET clear == <<St(<<0, "root_node_oid">>, Zero)>>
  IN FreeNodes \o
     CASE cls.medium = "dram" -> <<>>
       [] cls.medium = "vmem" -> clear
       [] cls.medium = "pmem" -> clear \o <<Fr(RootCells)>>
       [] cls.medium = "tx" -> InTx(<<Sn(RootCells)>> \o clear \o <<TFr(RootCells)>>)

-----------------------------------------------------------------------------
Init == StoredsInit(RootCells, {}, init)

\* check() of the volatile classes: there is no tree yet.
Unchecked == Volatile(cls) /\ RootOf(mem) = Zero

Write(t) ==
  /\ th[t].op = "insert" \/ (th[t].op = "update" /\ ~Unchecked)
  /\ Enter(t, insert(th[t].key, th[t].val), None)

Read(t) ==
  /\ th[t].op = "read" /\ ~Unchecked
  /\ Enter(t, <<>>, lookup(mem, RootOf(mem), th[t].key))

NotInitialised(t) ==
  th[t].op \in {"read", "update"} /\ Unchecked /\ CheckFails(t)

\* The null pointer is used: a fatal signal, or an aborted transaction whose
\* handler calls abort().
Traps(t) == prog[t] # <<>> /\ Head(prog[t]) = Trap /\ Dies

MainStep ==
  \/ Exec(main) \/ Traps(main)
  \/ InitDone([k \in Key |-> Find(k)]) \/ Close

DestroyTree == ~Unchecked /\ Destroy(destroy)

DestroyEmpty == phase = "serve" /\ Quiet /\ Unchecked /\ Dies

Next ==
  \/ \E t \in Thread :
       \/ CallLoad(t)
       \/ Write(t) \/ Read(t) \/ NotInitialised(t) \/ Traps(t) \/ ClientStep(t)
  \/ \E t \in Thread, k \in Key :
       CallRead(t, k) \/ \E n \in Version : CallWrite(t, k, n)
  \/ MainStep
  \/ DestroyTree \/ DestroyEmpty
  \/ Crash \/ Settling \/ Reopen(init)
  \/ Finished

Spec == Init /\ [][Next]_vars

-----------------------------------------------------------------------------
TxClient == INSTANCE TxDiscipline WITH Root <- RootCells

\* Between operations a lookup finds the last value written under a key, or
\* nothing if none was, whichever rotations have moved its node (bst_upsert,
\* fix_violation).  This is about the first process that uses a pool: when a
\* failure interrupts destroy, the next one finds a tree of freed nodes, and
\* its inserts are given these nodes again.
MapCorrect ==
  phase = "serve" /\ Unlocked /\ starts = 0 => Shows(Find)

InOrder ==
  LET walk[o \in Node \cup {Zero}] ==
        IF o = Zero THEN <<>>
        ELSE Append(walk[mem[<<o, "left">>]], o) \o walk[mem[<<o, "right">>]]
  IN walk[RootOf(mem)]

\* The black nodes on the way from o down its left side.
BlackHeight(o) ==
  LET height[p \in Node \cup {Zero}] ==
        IF p = Zero THEN 0
        ELSE Color(mem, p) + height[mem[<<p, "left">>]]
  IN height[o]

\* Between operations, while no failure has interrupted one, the tree is a
\* red-black tree: keys in order, children and parents linked to each other, a
\* black root, no red node with a red child, and as many black nodes on every
\* way down (fix_violation, rotate_left, rotate_right).
RedBlack ==
  phase = "serve" /\ Unlocked /\ RootOf(mem) # Zero /\ fails = 0 =>
    /\ \A i \in 1..(Len(InOrder) - 1) :
         KeyOf(mem, InOrder[i]) < KeyOf(mem, InOrder[i + 1])
    /\ Parent(mem, RootOf(mem)) = Zero /\ Color(mem, RootOf(mem)) = BLACK
    /\ \A o \in ToSet(InOrder) :
         LET children == {mem[<<o, "left">>], mem[<<o, "right">>]} \ {Zero}
         IN /\ \A c \in children :
                 Parent(mem, c) = o /\ BLACK \in {Color(mem, o), Color(mem, c)}
            /\ BlackHeight(mem[<<o, "left">>]) = BlackHeight(mem[<<o, "right">>])

\* tx: the classes keep to TxDiscipline, except that a rotation at the root
\* changes the root pointer without a snapshot (Relink).
DisciplineButRoot ==
  [][cls.medium = "tx" =>
       \/ TxClient!Disciplined
       \/ /\ live' = live
          /\ \A c \in Cell \ RootCells : mem'[c] = mem[c]]_pvars

\* The node without a parent above o.
Top(o) ==
  LET up[n \in 0..MaxNode] ==
        IF n = 0 THEN o
        ELSE LET p == up[n - 1]
             IN IF Parent(mem, p) = Zero THEN p ELSE Parent(mem, p)
  IN IF o = Zero THEN Zero ELSE up[MaxNode]

\* tx: a failure at any point of an insert's several transactions, or between
\* them, leaves a search tree in which every acknowledged write is found from
\* the topmost node.  The root pointer may still lead to a node below it, which
\* a rotation had taken down.
ImageKeepsRecords ==
  cls.medium = "tx" /\ phase = "down" /\ Recovered =>
    \A k \in Key : FindBelow(Top(RootOf(mem)), k) \in expect[k]
=============================================================================
