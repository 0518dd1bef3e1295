------------------------------ MODULE ListSteps ------------------------------
(***************************************************************************)
(* The append-only list with a head and a tail pointer, and the memory     *)
(* steps that change it.  storeds/linkedlist is such a list;               *)
(* storeds/hashlist keeps one behind its index and repeats its code.       *)
(***************************************************************************)
EXTENDS Storeds, FiniteSetsExt, SequencesExt

CONSTANTS
  MaxNode,   (* bound: nodes that fit the heap *)
  Wild       (* what malloc may leave in a field: an address of nothing *)

Node == 1..MaxNode
HeadCell == <<0, "head">>
TailCell == <<0, "tail">>
RootCells == {HeadCell, TailCell}
NodeCells(o) == {<<o, "key">>, <<o, "value">>, <<o, "next">>}
ListCell == RootCells \cup UNION {NodeCells(o) : o \in Node}
ListValue == {Zero, Wild, Torn} \cup Node \cup Key \cup Val

\* OID_NULL and an address of nothing are no nodes, a result pointer that is
\* not set points to no cell, no cell holds what stands for no record, and no
\* value, or half of one, is empty.
ASSUME ListAssumption ==
  /\ MaxNode \in Nat
  /\ ListCell \subseteq Cell /\ ListValue \subseteq Value
  /\ None \notin Cell /\ Zero \notin Node /\ Wild \notin Node
  /\ Absent \notin Value /\ Zero \notin Val \cup {Torn}

HeadP == mem[HeadCell]
TailP == mem[TailCell]

-----------------------------------------------------------------------------
\* The nodes a traversal meets: the i-th is Zero once the list has ended.
Visit ==
  LET nth[i \in 0..MaxNode] ==
        IF i = 0 THEN HeadP
        ELSE IF nth[i - 1] \in Node THEN mem[<<nth[i - 1], "next">>]
             ELSE nth[i - 1]
  IN nth

\* Mutant: the traversal does not compare keys.
FindNode_first(k) == HeadP

\* The first node with the key; Zero or Wild where the traversal ended.
FindNode(k) ==
  LET nth == Visit
      hits == {i \in 0..MaxNode :
                 nth[i] \in Node /\ mem[<<nth[i], "key">>] = k}
  IN IF hits # {} THEN nth[Min(hits)] ELSE nth[MaxNode]

\* What a walk through the list shows for a key.
Listed(k) == LET o == FindNode(k)
             IN IF o \in Node /\ mem[<<o, "key">>] = k THEN mem[<<o, "value">>]
                ELSE Absent

Reachable == {Visit[i] : i \in 0..MaxNode} \cap Node

\* The node the allocator returns.
FreeNodes == {o \in Node : NodeCells(o) \cap live = {}}
NewNode == Min(FreeNodes)

\* Bound: the heap has room for the next node.
HasRoom == FreeNodes # {}

\* insert goes through the tail pointer of a list that has a head.
BrokenTail == HeadP # Zero /\ TailP = Zero

-----------------------------------------------------------------------------
(***************************************************************************)
(* insert.  The next field of the new node is never assigned: g is what    *)
(* the allocator left there.                                               *)
(***************************************************************************)
linkedlist_dram_insert(k, v, g) ==
  LET o == NewNode IN
  <<Al(NodeCells(o)), St(<<o, "next">>, g), St(<<o, "key">>, k)>>
  \o Cp(<<o, "value">>, v)
  \o IF HeadP = Zero
     THEN <<St(HeadCell, o), St(TailCell, o)>>
     ELSE <<St(<<TailP, "next">>, o), St(TailCell, o)>>

linkedlist_pmem_insert(k, v) ==
  LET o == NewNode IN
  <<Al(NodeCells(o)), St(<<o, "key">>, k)>> \o Cp(<<o, "value">>, v)
  \o IF HeadP = Zero
     THEN <<St(HeadCell, o), St(TailCell, o), Fl(RootCells)>>
     ELSE <<St(<<TailP, "next">>, o), St(TailCell, o),
            Fl({TailCell})>>

\* Mutant: the tail pointer stays behind.
linkedlist_pmem_tx_insert_noTail(k, v) ==
  LET o == NewNode IN
  <<Bg, TAl(NodeCells(o)), St(<<o, "key">>, k)>> \o Cp(<<o, "value">>, v)
  \o (IF HeadP = Zero
      THEN <<Sn(RootCells), St(HeadCell, o), St(TailCell, o)>>
      ELSE <<Sn(NodeCells(TailP)), St(<<TailP, "next">>, o)>>)
  \o <<Cm>>

\* Mutant: the head is not tested.
linkedlist_pmem_tx_insert_noTest(k, v) ==
  LET o == NewNode IN
  <<Bg, TAl(NodeCells(o)), St(<<o, "key">>, k)>> \o Cp(<<o, "value">>, v)
  \o <<Sn(RootCells), St(HeadCell, o), St(TailCell, o), Cm>>

\* Mutant: the last node is not snapshotted before it is changed.
linkedlist_pmem_tx_insert_noSnapshot(k, v) ==
  LET o == NewNode IN
  <<Bg, TAl(NodeCells(o)), St(<<o, "key">>, k)>> \o Cp(<<o, "value">>, v)
  \o (IF HeadP = Zero
      THEN <<Sn(RootCells), St(HeadCell, o), St(TailCell, o)>>
      ELSE <<St(<<TailP, "next">>, o), St(TailCell, o)>>)
  \o <<Cm>>

linkedlist_pmem_tx_insert(k, v) ==
  LET o == NewNode IN
  <<Bg, TAl(NodeCells(o)), St(<<o, "key">>, k)>> \o Cp(<<o, "value">>, v)
  \o (IF HeadP = Zero
      THEN <<Sn(RootCells), St(HeadCell, o), St(TailCell, o)>>
      ELSE <<Sn(NodeCells(TailP)), St(<<TailP, "next">>, o),
             St(TailCell, o)>>)
  \o <<Cm>>

\* What an unassigned next field may contain.
Garbage == IF Volatile(cls) THEN {Zero, Wild} ELSE {Zero}

(***************************************************************************)
(* destroy.  The list is freed from its head, and its tail once more.      *)
(***************************************************************************)
Chain == LET nth == Visit
             n == Cardinality({i \in 0..MaxNode : nth[i] \in Node})
         IN [i \in 1..n |-> nth[i - 1]]

FreeChain(free(_)) ==
  FlattenSeq([i \in 1..Len(Chain) |->
                <<St(HeadCell, mem[<<Chain[i], "next">>]),
                  free(NodeCells(Chain[i]))>>])

ClearRoot == <<St(HeadCell, Zero), St(TailCell, Zero)>>

linkedlist_dram_destroy ==
  (IF TailP # Zero THEN <<Fr(NodeCells(TailP))>> ELSE <<>>)
  \o FreeChain(LAMBDA C : Fr(C))

linkedlist_pmem_destroy ==
  FreeChain(LAMBDA C : Fr(C))
  \o (IF TailP # Zero THEN <<FrIn(NodeCells(TailP), TailCell)>> ELSE <<>>)
  \o ClearRoot

linkedlist_pmem_tx_destroy ==
  <<Bg, Sn(RootCells)>>
  \o FreeChain(LAMBDA C : TFr(C))
  \o (IF TailP # Zero THEN <<TFr(NodeCells(TailP))>> ELSE <<>>)
  \o ClearRoot \o <<Cm>>

\* The loop of destroy follows the last node's next field.
DestroyDerefs ==
  phase = "destroy" /\ prog[main] = <<>> /\ HeadP = Wild /\ Dies

CloseList == HeadP # Wild /\ Close
=============================================================================
