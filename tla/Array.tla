-------------------------------- MODULE Array --------------------------------
(***************************************************************************)
(* storeds/array: ARRAY_SIZE value buffers, indexed by key % ARRAY_SIZE,   *)
(* in DRAM, in libvmem memory, in persistent memory with explicit persists *)
(* (pmem) and in persistent memory with transactions (tx).                 *)
(***************************************************************************)
EXTENDS Storeds, FiniteSetsExt

CONSTANTS
  ARRAY_SIZE,
  MaxArray,   (* bound: array objects that fit the pool *)
  ScanLen,    (* the lengths a scan is called with *)
  Beyond      (* what lies behind the last element *)

ASSUME ArrayAssumption == ARRAY_SIZE \in Nat \ {0} /\ MaxArray \in Nat \ {0}

ArrayObject == 1..MaxArray
RootCells == {<<0, "array">>}
ElemCells(o) == {<<o, i>> : i \in 0..(ARRAY_SIZE - 1)}
ArrayCell == RootCells \cup UNION {ElemCells(o) : o \in ArrayObject}
ArrayValue == {Zero, Torn, Beyond} \cup ArrayObject \cup Val

ArrayP == mem[<<0, "array">>]

Offset(k) == k % ARRAY_SIZE
Slot(k) == <<ArrayP, Offset(k)>>

\* Pointers, values and what is neither can be told apart.
ASSUME ContentAssumption ==
  /\ Cell = ArrayCell /\ Value = ArrayValue
  /\ None \notin Cell
  /\ Zero \notin ArrayObject \cup Val
  /\ Torn \notin Val \cup {Zero, Beyond}

\* Each key has its own slot: so it is when records are numbered in order
\* (insertorder=ordered) up to ARRAY_SIZE.  Hashed keys can share a slot.
KeysFit == \A k, l \in Key : Offset(k) = Offset(l) => k = l
Sharing(k) == {l \in Key : Offset(l) = Offset(k)}

\* The classes of storeds/array.
array_dram == Class("array_dram", "dram", "none", TRUE)
array_dram_concurrent_lock ==
  [array_dram EXCEPT !.name = "array_dram_concurrent_lock", !.lock = "rwlock"]
array_dram_concurrent_mlock ==
  [array_dram EXCEPT !.name = "array_dram_concurrent_mlock", !.lock = "mutex"]
array_vmem == Class("array_vmem", "vmem", "none", TRUE)
array_vmem_concurrent_mlock ==
  [array_vmem EXCEPT !.name = "array_vmem_concurrent_mlock", !.lock = "mutex"]
array_vmem_concurrent_pmlock ==
  [array_vmem EXCEPT !.name = "array_vmem_concurrent_pmlock", !.lock = "mutex"]
array_pmem == Class("array_pmem", "pmem", "none", TRUE)
array_pmem_concurrent_lock ==
  [array_pmem EXCEPT !.name = "array_pmem_concurrent_lock", !.lock = "rwlock"]
array_pmem_concurrent_mlock ==
  [array_pmem EXCEPT !.name = "array_pmem_concurrent_mlock", !.lock = "mutex"]
array_pmem_concurrent_vmlock ==
  [array_pmem EXCEPT !.name = "array_pmem_concurrent_vmlock", !.lock = "mutex"]
array_pmem_tx == Class("array_pmem_tx", "tx", "none", TRUE)
array_pmem_tx_concurrent_lock ==
  [array_pmem_tx EXCEPT !.name = "array_pmem_tx_concurrent_lock",
                        !.lock = "rwlock"]
array_pmem_tx_concurrent_mlock ==
  [array_pmem_tx EXCEPT !.name = "array_pmem_tx_concurrent_mlock",
                        !.lock = "mutex"]

\* What they have in common; every start has room for another array.
ASSUME ClassAssumption ==
  \A c \in Classes : c.upsert /\ c.bound.restarts < MaxArray

-----------------------------------------------------------------------------
(***************************************************************************)
(* init allocates the array, also in a pool that holds one already.        *)
(***************************************************************************)
NewArray == Min({o \in ArrayObject : ElemCells(o) \cap live = {}})

array_dram_init ==
  <<Al(ElemCells(NewArray)), St(<<0, "array">>, NewArray)>>

array_pmem_init ==
  <<AlTo(ElemCells(NewArray), <<0, "array">>, NewArray), Fl(RootCells)>>

array_pmem_tx_init ==
  <<Bg, Sn(RootCells), TAl(ElemCells(NewArray)),
    St(<<0, "array">>, NewArray), Cm>>

init ==
  CASE Volatile(cls) -> array_dram_init
    [] cls.medium = "pmem" -> array_pmem_init
    [] cls.medium = "tx" -> array_pmem_tx_init

(***************************************************************************)
(* insert and update: both overwrite the slot of the key.                  *)
(***************************************************************************)
array_dram_write(k, v) == Cp(Slot(k), v)

\* Mutant: the copy is not persisted.
array_pmem_write_unflushed(k, v) == Cp(Slot(k), v)

array_pmem_write(k, v) == Cp(Slot(k), v) \o <<Fl({Slot(k)})>>

\* Mutant: the slot is not snapshotted.
array_pmem_tx_write_noSnapshot(k, v) == <<Bg>> \o Cp(Slot(k), v) \o <<Cm>>

array_pmem_tx_write(k, v) == <<Bg, Sn({Slot(k)})>> \o Cp(Slot(k), v) \o <<Cm>>

write(k, v) ==
  CASE Volatile(cls) -> array_dram_write(k, v)
    [] cls.medium = "pmem" -> array_pmem_write(k, v)
    [] cls.medium = "tx" -> array_pmem_tx_write(k, v)

(***************************************************************************)
(* destroy.                                                                *)
(***************************************************************************)

array_dram_destroy == <<Fr(ElemCells(ArrayP))>>

array_pmem_destroy ==
  <<FrIn(ElemCells(ArrayP), <<0, "array">>), St(<<0, "array">>, Zero),
    Fr(RootCells)>>

array_pmem_tx_destroy ==
  <<Bg, Sn(RootCells), TFr(ElemCells(ArrayP)), St(<<0, "array">>, Zero),
    TFr(RootCells), Cm>>

destroy ==
  CASE Volatile(cls) -> array_dram_destroy
    [] cls.medium = "pmem" -> array_pmem_destroy
    [] cls.medium = "tx" -> array_pmem_tx_destroy

\* What read shows; an empty buffer is no record.
Find(k) ==
  IF ArrayP = Zero \/ mem[Slot(k)] = Zero THEN Absent ELSE mem[Slot(k)]

\* scan: len buffers from the key's on, but never more than ARRAY_SIZE.  The
\* index is not wrapped: the buffers can lie behind the end of the array.
Scanned(k, len) ==
  {IF Offset(k) + i < ARRAY_SIZE THEN mem[<<ArrayP, Offset(k) + i>>] ELSE Beyond
     : i \in {j \in 0..(ARRAY_SIZE - 1) : j < len}}

-----------------------------------------------------------------------------
\* The root object of a pool that was destroyed is what pmemobj_root returns
\* again when the pool is opened.
ArrayInit == StoredsInit(RootCells, {}, init)

CallWrite(t, k, n) ==
  \E op \in {"insert", "update"} : Call(t, op, k, ValOf(k, n))

CallRead(t, k) == Call(t, "read", k, 0)

CallScan(t, k) == Call(t, "scan", k, 0)

Write(t) ==
  /\ th[t].op \in {"insert", "update"}
  /\ Enter(t, write(th[t].key, th[t].val), None)

Read(t) == th[t].op = "read" /\ Enter(t, <<>>, Slot(th[t].key))

Scan(t) ==
  /\ th[t].op = "scan"
  /\ \E len \in ScanLen : EnterScan(t, Scanned(th[t].key, len))

ThreadStep(t) == Write(t) \/ Read(t) \/ Scan(t) \/ ClientStep(t)

MainStep == Exec(main) \/ InitDone([k \in Key |-> Find(k)]) \/ Close

Next ==
  \/ \E t \in Thread, k \in Key :
       \/ CallRead(t, k) \/ CallScan(t, k)
       \/ \E n \in Version : CallWrite(t, k, n)
  \/ \E t \in Thread : ThreadStep(t)
  \/ MainStep
  \/ Destroy(destroy)
  \/ Crash \/ Settling \/ Reopen(init)
  \/ Finished

Spec == ArrayInit /\ [][Next]_vars

\* A thread that can move is scheduled; calls are bounded, so that a lock that
\* is released stays free for its last waiter in the end.
FairSpec ==
  /\ Spec
  /\ \A t \in Thread : WF_vars(ThreadStep(t))
  /\ WF_vars(MainStep)

-----------------------------------------------------------------------------
TxClient == INSTANCE TxDiscipline WITH Root <- RootCells

\* Between operations every slot shows the last value written under its key.
MapCorrect == phase = "serve" /\ Unlocked => Shows(Find)

\* Whatever the keys are, it shows the last value written under one of the keys
\* that share it: a value is never torn or left over from another slot.
SlotShared ==
  phase = "serve" /\ Unlocked =>
    \A k \in Key : \E l \in Sharing(k) : Find(k) \in expect[l]

\* pmem: what a power failure leaves holds every acknowledged write; only a
\* buffer that was being overwritten may be torn.  tx: not even that one.
\* The next start allocates a new array.
ImageDurable ==
  Recovered /\ starts = 0 => IF cls.medium = "tx" THEN Shows(Find)
               ELSE cls.medium = "pmem" => ShowsOrTorn(Find)

\* tx: every store goes to a range the transaction has snapshotted or
\* allocated, so that TxDiscipline's theorem applies to these classes.
Discipline == [][cls.medium = "tx" => TxClient!Disciplined]_pvars

(***************************************************************************)
(* The inductive invariant behind these.                                   *)
(***************************************************************************)
RootP == <<0, "array">>
Elem == UNION {ElemCells(o) : o \in ArrayObject}
Shown(x) == IF x = Zero THEN Absent ELSE x

\* What a failure now would leave in a cell, if its lines are flushed.
Back(c) == IF c \in DOMAIN undo THEN undo[c] ELSE mem[c]

\* What each medium makes of a store, and of the end of the process.
MediumOK ==
  /\ vol = IF Volatile(cls) THEN Cell ELSE {}
  /\ Volatile(cls) /\ power # "up" => \A c \in Cell : may[c] = {Zero}
  /\ \A c \in Cell : mem[c] \in may[c]
  /\ cls.medium = "tx" => \A c \in Cell \ DOMAIN undo : may[c] = {mem[c]}
  /\ cls.medium = "pmem" => may[RootP] = {mem[RootP]}

\* The log belongs to a transaction, and a transaction to a tx class.
LogOK ==
  /\ ~intx => undo = NoUndo /\ fresh = {} /\ dying = {}
  /\ intx => power = "up" /\ cls.medium = "tx"
  /\ phase = "serve" /\ intx => \E t \in Thread : Updating(t)
  /\ \A c \in DOMAIN undo \cap Elem : undo[c] # Torn

\* The array the root points to, and the room for others.
ArraysOK ==
  /\ ArrayP \in ArrayObject \cup {Zero}
  /\ phase = "serve" => /\ ArrayP \in ArrayObject
                        /\ ElemCells(ArrayP) \subseteq live
                        /\ fresh = {} /\ dying = {}
  /\ RootP \in DOMAIN undo => undo[RootP] \in ArrayObject \cup {Zero}
  /\ \A o \in ArrayObject : o > starts + 1 => ElemCells(o) \cap live = {}
  /\ starts <= cls.bound.restarts

\* A torn buffer belongs to an array that stays allocated, and in the array in
\* use to an insert or update that has steps to perform.
TornOK ==
  /\ \A c \in Elem : Torn \in may[c] => c \in live \ (fresh \cup dying)
  /\ phase \in {"serve", "destroy"} /\ ArrayP # Zero =>
       \A c \in ElemCells(ArrayP) : Torn \in may[c] =>
         \E t \in Thread : /\ Updating(t) /\ prog[t] # <<>>
                           /\ c = Slot(th[t].key)

\* The steps main has still to perform in init, and what it has done.
InitSteps(o) ==
  LET E == ElemCells(o)  p == prog[main] IN
  /\ o <= starts + 1
  /\ \A c \in E : Torn \notin may[c]
  /\ Volatile(cls) =>
       \/ p = <<Al(E), St(RootP, o)>> /\ E \cap live = {}
       \/ p = <<St(RootP, o)>> /\ E \subseteq live
       \/ p = <<>> /\ E \subseteq live /\ ArrayP = o
  /\ cls.medium = "pmem" =>
       \/ p = <<AlTo(E, RootP, o), Fl(RootCells)>> /\ E \cap live = {}
       \/ p \in {<<Fl(RootCells)>>, <<>>} /\ E \subseteq live /\ ArrayP = o
  /\ cls.medium = "tx" =>
       \/ /\ p = <<Bg, Sn(RootCells), TAl(E), St(RootP, o), Cm>>
          /\ ~intx /\ E \cap live = {}
       \/ /\ p = <<Sn(RootCells), TAl(E), St(RootP, o), Cm>>
          /\ intx /\ undo = NoUndo /\ fresh = {} /\ dying = {}
          /\ E \cap live = {}
       \/ /\ p = <<TAl(E), St(RootP, o), Cm>>
          /\ intx /\ DOMAIN undo = RootCells /\ fresh = {} /\ dying = {}
          /\ E \cap live = {}
       \/ /\ p = <<St(RootP, o), Cm>>
          /\ intx /\ DOMAIN undo = RootCells /\ fresh = E /\ dying = {}
          /\ E \subseteq live
       \/ /\ p = <<Cm>>
          /\ intx /\ DOMAIN undo = RootCells /\ fresh = E /\ dying = {}
          /\ E \subseteq live /\ ArrayP = o
       \/ p = <<>> /\ ~intx /\ E \subseteq live /\ ArrayP = o

\* The steps an insert or update has still to perform.
WriteSteps(t) ==
  LET s == Slot(th[t].key)  v == th[t].val  p == prog[t] IN
  /\ p = <<>> => mem[s] = v /\ may[s] = {v}
  /\ Volatile(cls) => p \in {<<St(s, Torn), St(s, v)>>, <<St(s, v)>>, <<>>}
  /\ cls.medium = "pmem" =>
       \/ p \in {<<St(s, Torn), St(s, v), Fl({s})>>, <<St(s, v), Fl({s})>>,
                 <<>>}
       \/ p = <<Fl({s})>> /\ mem[s] = v
  /\ cls.medium = "tx" =>
       \/ /\ p = <<Bg, Sn({s}), St(s, Torn), St(s, v), Cm>>
          /\ ~intx /\ mem[s] # Torn
       \/ /\ p = <<Sn({s}), St(s, Torn), St(s, v), Cm>>
          /\ intx /\ undo = NoUndo /\ mem[s] # Torn
       \/ p = <<St(s, Torn), St(s, v), Cm>> /\ intx /\ DOMAIN undo = {s}
       \/ p = <<St(s, v), Cm>> /\ intx /\ DOMAIN undo = {s}
       \/ p = <<Cm>> /\ intx /\ DOMAIN undo = {s} /\ mem[s] = v
       \/ p = <<>> /\ ~intx

\* The steps main has still to perform in destroy.
DestroySteps ==
  LET E == ElemCells(ArrayP)  p == prog[main] IN
  /\ Volatile(cls) => p \in {<<Fr(E)>>, <<>>} /\ ArrayP # Zero
  /\ cls.medium = "pmem" =>
       \/ /\ p = <<FrIn(E, RootP), St(RootP, Zero), Fr(RootCells)>>
          /\ ArrayP # Zero
       \/ /\ p \in {<<St(RootP, Zero), Fr(RootCells)>>, <<Fr(RootCells)>>, <<>>}
          /\ ArrayP = Zero
  /\ cls.medium = "tx" =>
       \/ /\ p = <<Bg, Sn(RootCells), TFr(E), St(RootP, Zero), TFr(RootCells),
                   Cm>>
          /\ ~intx /\ ArrayP # Zero
       \/ /\ p = <<Sn(RootCells), TFr(E), St(RootP, Zero), TFr(RootCells), Cm>>
          /\ intx /\ undo = NoUndo /\ fresh = {} /\ ArrayP # Zero
       \/ /\ p \in {<<TFr(E), St(RootP, Zero), TFr(RootCells), Cm>>,
                    <<St(RootP, Zero), TFr(RootCells), Cm>>}
          /\ intx /\ DOMAIN undo = RootCells /\ fresh = {} /\ ArrayP # Zero
       \/ /\ p \in {<<TFr(RootCells), Cm>>, <<Cm>>}
          /\ intx /\ DOMAIN undo = RootCells /\ fresh = {}
          /\ ArrayP = Zero
       \/ p = <<>> /\ ~intx /\ ArrayP = Zero

StepsOK ==
  /\ phase = "init" => \E o \in ArrayObject : InitSteps(o)
  /\ \A t \in Thread : Updating(t) => WriteSteps(t)
  /\ phase = "destroy" => DestroySteps

\* Some key that shares the slot of k may show x.
Written(k, x) == \E l \in Sharing(k) : Shown(x) \in expect[l]

\* A slot shows what one of its keys may show, or is torn.
SlotsOK ==
  phase = "serve" =>
    \A k \in Key : mem[Slot(k)] = Torn \/ Written(k, mem[Slot(k)])

\* A read points to its slot until it has made its copy.
ReadsSlot ==
  \A t \in Thread : th[t].op = "read" /\ th[t].pc \in {"in", "copy"}
                      => th[t].ptr = Slot(th[t].key)

\* pmem: whatever lines have been written back, a power failure leaves what
\* the keys of a slot may show.  tx: the log does.
ImageOK ==
  starts = 0 =>
    /\ phase \in {"init", "destroy"} \/ (~Volatile(cls) /\ Back(RootP) = Zero)
         => \A k \in Key : Absent \in expect[k]
    /\ phase = "init" => \A c \in Elem : may[c] = {Zero}
    /\ cls.medium = "pmem" /\ ArrayP # Zero =>
         \A k \in Key : \A x \in may[Slot(k)] :
           Written(k, x) \/ (x = Torn /\ Sharing(k) \cap dirty # {})
    /\ cls.medium = "tx" /\ Back(RootP) # Zero =>
         \A k \in Key : Written(k, Back(<<Back(RootP), Offset(k)>>))

IInv ==
  /\ MemoryTypeOK /\ CallInv /\ MediumOK /\ LogOK /\ ArraysOK /\ TornOK
  /\ StepsOK /\ SlotsOK /\ ReadsSlot /\ ImageOK /\ ScanWhole
  /\ KeysFit => ReadLegal
=============================================================================
