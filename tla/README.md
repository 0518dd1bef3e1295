# Verification of ycsb-storedsbench

ycsb-storedsbench is a YCSB client in C++ that benchmarks index structures in
DRAM, in libvmem memory and in persistent memory, with and without
transactions, single-threaded, concurrent and parallel.  This directory holds
TLA+ models of its core, the TLC instances that check them, and proofs.

## 1. The system

| Component | State | Operations | Interacts with |
|---|---|---|---|
| Drivers: `ycsbc.cc`, `ycsbc_parallel.cc`, the `_non_numa` variants, `core/client.h`, `core/core_workload.*` | threads, futures, key counter | load, transactions, join, destroy | `DB`, one for all threads or one for each |
| `ycsbc_lock_overhead.cc` | the same and `start_barrier` | the same, with a spin barrier | the same |
| `StoredsDB` (`db/storeds_db.cc`) | a pointer to one storeds class | Read, Scan, Update, Insert | the class |
| storeds classes (`storeds/*/`) | an array, list, hash table, skiplist, hashlist, B-tree, B+-tree or red-black tree; a lock | init, read, scan, update, insert, destroy | libpmemobj, pthread |
| libpmemobj | pools | persist, alloc, transactions, recovery | external |

A structure exists as a family of classes: `_dram`, `_vmem`, `_pmem` (explicit
persists), `_pmem_tx` (transactions), and of each `_concurrent_mlock` (a
mutex), `_concurrent_lock` (a rwlock) and, in places, a lock in the other
medium (`_vmlock`, `_pmlock`).  A class of a family repeats the code of the
others: the lock is taken after `check()` and released on every path out.

What is hard to test here, and what the properties are for:

- a power failure between two stores, or between a store and its persist;
- the exact ranges the code persists or snapshots: a range that is too short
  shows only after a failure at the right instruction;
- `StoredsDB::Read` uses the pointer a class returned after the class has
  released its lock;
- a restart on an existing pool: what `init` replaces, what a volatile index
  no longer knows, what freed memory still contains;
- interleavings of clients, and of clients with main;
- memory that is never initialised, and memory freed twice.

`PROJECT.json` lists these hazards line by line.

## 2. The modules

| Module | Models |
|---|---|
| `PMem` | a pool as the code uses it through libpmemobj (external): what a load returns, what the medium may hold, transactions, failure and recovery |
| `TxDiscipline`, `TxDisciplineProofs` | the abstract contract of a `_tx` class, and the proof that it makes operations atomic |
| `Storeds`, `StoredsProofs` | one class behind `StoredsDB`: calls, locks, the late copy of `Read`, init, destroy, crash, restart; what all structures share of an invariant, and that every action keeps it |
| `ListSteps` | the singly linked list and the memory steps of its operations, which the code of linkedlist and of hashlist repeats |
| `Composite` | operations made of many stores, put together piece by piece; the load phase of a tree |
| `TreeSteps` | the nodes, the search and the splits that the code of btree, bplustree and their `_mem_opt` variants repeats |
| `LinkedList`, `Array`, `HashTable`, `SkipList`, `HashList`, `BTree`, `BPlusTree`, `RBTree` | the structures, all classes that `GetDB` can create |
| `ArrayProofs` | the memory steps of an array keep its invariant; so do its other actions, and what follows |
| `ProgramProofs` | what a program of memory steps leaves, allocates and logs, whichever structure it belongs to |
| `LinkedProofs`, `HashProofs`, `SkipProofs` | the invariants of the linked list, the hash table and the skiplist, that every action keeps them, and what follows |
| `Driver`, `DriverProofs` | main and the client threads of ycsbc and ycsbc_parallel; unique insert keys; the order of load, transactions and destroy |
| `LockOverhead` | the same with the barrier of ycsbc_lock_overhead |
| `MC*` | small instances |

`Storeds` EXTENDS `PMem`; a structure EXTENDS `Storeds`, `LinkedList` and
`HashList` through `ListSteps`, the trees through `Composite`, `BTree` and
`BPlusTree` through `TreeSteps` too; `LockOverhead` EXTENDS `Driver`.  `MCLists`
EXTENDS `LinkedList` and INSTANCEs `HashList` (whose classes and cells are in
`HashListClasses`): a behaviour is one of either.
`Array`, `HashTable`, `SkipList` and the trees INSTANCE `TxDiscipline` to check
how far their tx classes satisfy the premise of its theorem.

### Persistent memory

A cell `<<object, field>>` is a field of a struct.  `mem[c]` is what a load
returns, `may[c]` the set of values the medium may hold.  A store adds to
`may`, a persist reduces it to the current value, a commit does so for the
snapshotted ranges and the new objects.  A power failure applies the log and
lets every other cell settle on any value it may hold.  A process that exits
loses only volatile cells.  The copy of a value takes two stores, with `Torn`
in between, so that a half-copied value can be seen and can survive.
`pmemobj_alloc` does not clear memory; `pmemobj_zalloc` does.  A range that is
longer than what is left of its object (the trees pass the size of a node for a
range that starts at a field, or at the root object) ends with the object.

### Classes and operations

A structure defines, for every operation of a `dram`, `pmem` and `tx` class,
the sequence of memory steps it performs, computed when its lock has been
taken; `Storeds` executes these one at a time, between those of other threads
and failures.  The steps are in the order of the source, with the ranges of the
source: `linkedlist_pmem_tx_insert` snapshots the last node and not the root,
as the code does; `skiplist_pmem_insert` does not persist the new node, because
the code persists the local variable that holds its address.  Reads and scans
compute their result when the lock is held, since a mutex or rwlock excludes
writers until then; `Read`'s copy is a step of its own after the unlock.

A record has one field: `StoredsDB::Insert` and `Update` call the class once
for each field of the record, so that n fields are n calls.

An insert into a tree splits or rotates nodes and reads what it has just
written, so that its steps are built against a memory that is carried along
(`Then` and `After` of `Composite`).  The media make the same assignments; what
is persisted (`Flush`) or snapshotted (`Snapshot`) in between is theirs.  A
transaction inside a transaction is flattened, as libpmemobj does.  Snapshots of
a value have the length of the old one, and every value has the same length.  A
class may carry a load phase, the keys inserted before other calls, to grow a
tree before two threads meet on it.

`TreeSteps` is the B-tree with splits on the way down.  `BTree` covers
storeds/btree, whose nodes hold their entries in place, and
storeds/btree_mem_opt, whose nodes point to entries allocated one by one.
`BPlusTree` covers storeds/bplustree and storeds/bplustree_mem_opt: a leaf split
copies a key to the parent and enters the new leaf in the chain (`SplitLeaf`,
`Chain`), a record is in the leaf behind an equal key (`Toward`), scan walks the
chain (`Scanned`), destroy takes leaves out of it, or not, as the class does
(`LeaveChain`).  The one class that compares a slot behind the last key is a
case of its own (`Compared`).

`RBTree` is storeds/rbtree.  `rotate` is rotate_left and rotate_right, `Round`
the body of fix_violation's loop; a tx class runs the insertion into the search
tree, every round and the blackening of the root in a transaction each, and
destroy frees each node in one.  `Trap` stands where the code uses a null
pointer: a red root that a failure has left has no grandparent to give, and a
node below itself has no end.

The history variables `expect` (what a correct map may show for a key) and
`dirty` (keys with an unfinished write) take no part in any guard except that a
list is called to insert only keys it does not have: linkedlist's insert
appends without a lookup, and that no key is inserted twice is `InsertOnce` of
`Driver`.

Undefined behaviour is a choice: a string made from an uninitialised pointer
(`CopyOut`, `MissDies`), a `next` field malloc left unset (`Garbage`, `Derefs`),
a second free (`DoubleFree` or unnoticed).

### Drivers

`Spawn`, `Join`, `StartRun`, `Destroy` are main's steps, `DoInsert`,
`DoTransaction` and the `...Returns` actions those of a client; an exception
from an unimplemented scan stays in the future until main's `get()`
(`Rethrow`).  The key distributions are the set `Drawn`.

## 3. Runs

A class carries its own bounds: the keys and calls, the failures and the
restarts of a behaviour (`Bounded` in `Storeds`).  A run looks at every class
of a structure without failures and at the tx classes (for arrays, hashlists
and trees at pmem too) with one power failure at any memory step; lists,
hashlists and trees are also opened again.

| Run | Shows |
|---|---|
| `tx_recovery` | `AtomicRecovery`, for every disciplined client of two cells |
| `lists` | all eight lists and ten hashlists: `ListMapCorrect` (what read finds, through the list or the index, is the last value written), `TailIsLast`, `ReadLegal` (the late copy returns a value current during the call, or one torn by an update, never another key's), `IndexKept` (index and list agree between operations), `AppendOnly`, `RestartKeeps` (opening a pool again leaves its list alone); `ImageDurable` of tx |
| `array` | all thirteen arrays: `MapCorrect`, `ScanWhole` (a scan, which copies under the lock, sees no half value), `ImageDurable` (pmem: only the value being written may be torn; tx: not even that), `Discipline`, `CallsEnd` |
| `hash` | all eleven tables, keys that collide and that do not: `MapCorrect`, `KeysUnique`, `DestroyFreesAll` (every entry, and each once), `ImageDurable` and `Discipline` of tx |
| `skip` | all eleven skiplists, every outcome of the coin: `MapCorrect`, `LevelsNested`, `Discipline` of tx, from which durability follows by `Atomicity` |
| `btree` | all twenty trees: `MapCorrect`, `TreeShape` (sorted keys in their parents' ranges, occupancy, equal depth), `NodesPersisted` (between the operations of a pmem tree the medium holds its nodes), `EntriesStay` (`ReadLegal` of the trees of entries), `DisciplineBelowRoot` |
| `bplus` | all nineteen trees: `MapCorrect`, `PlusShape` (as above, and a leaf chain through all leaves both ways), `ScanComplete` (a scan returns exactly the records with the next keys), `NodesPersisted`, `LeavesFreedOnce` (destroy), `DisciplineBelowRoot` |
| `rbtree` | all thirteen trees: `MapCorrect`, `RedBlack` (order, parent links, colours, black height), `ImageKeepsRecords` (a failure inside or between the transactions of an insert loses no record), `DisciplineButRoot` |
| `driver` | `InsertOnce`, `LoadComplete` (transactions start with `recordcount` records in each DB; in ycsbc, which divides, with all but fewer than `num_threads`), `DestroyAlone` (destroy comes after the last call; the throughput is printed for the operations performed, in ycsbc for fewer than `num_threads` more), `Ends` |
| `list_append`, `btree_read`, `lock_barrier` | violated, see section 5 |

Bounds.  Two threads are enough for every pair of operations to meet; a third
would wait like the second.  Two keys share a chain, a slot order or a level;
the skiplist has a third so that a node is linked between two others.  Two
values for each key tell an old value from a new one.  Three calls (four for
the list) allow an insert, an update of it and a read of it to overlap.  One
failure at any memory step covers every prefix of an operation; a second would
start from an image like the first.  Five records, five
operations and two threads leave a remainder of each.  B-trees and B+-trees have a minimum degree of 2, the least at which
a split leaves a key on both sides; loads of up to nine keys, ascending,
descending and towards the middle, grow them so that the calls after it split a
leaf, an inner node and the root, and reach a third level.  The red-black trees
are loaded so that the next record needs no rotation, one or two, and so that a
recolouring meets the next violation two levels up, on both sides.  Every tree
class starts from the empty tree; the loads of B-trees and B+-trees
are given to one class for each way of storing a tree, and two clients meet on a
full leaf in classes that stand for both kinds of lock and both layouts: within a
kind the classes share their code.
`MaxNode`, `MaxEntry`, `MaxTable`, `MaxArray` are large enough for every
allocation the calls make: pools do not fill up.  The hash table, the
skiplist and the lists say so in a guard, `HasRoom`: an insert that is to add an
entry finds room for it.

Fairness.  `CallsEnd` and `Ends` assume weak fairness of each thread
(`ThreadStep`, `DelegateClient`) and of main: the operating system runs a
thread that can run.  Nothing is assumed of the lock's order; calls are
bounded, so a waiter cannot be overtaken for ever.

Properties that hold only in the first process that uses a pool say so
(`starts = 0`): `init` of array, hashmap and skiplist replaces the structure of
an existing pool, the hashlist index starts empty, a skiplist head may be
placed in uncleared memory, a list node in memory that still holds the `next` of
the node before it, and a red-black tree whose destroy was interrupted leads to
freed nodes.

## 4. Proofs

Every theorem is proved for all values of the constants, under the assumptions
its module names.  The invariants below were first checked by TLC as invariants
of the runs' instances.

### Transactions

`TxDisciplineProofs`: for every set of cells and values and every client,

- `TypeCorrect == Spec => []TypeOK`,
- `Atomicity == Spec => []AtomicRecovery`: if each store goes to a cell the
  transaction has snapshotted or allocated, and memory is allocated and freed
  through transactions, then a failure at any point leaves exactly the pool of
  the last commit.

`AtomicRecovery` speaks of the time after a failure only and is not inductive.
`IInv` adds what must be true while code runs: a committed cell outside the log
is unchanged in memory and on the medium (`Untouched`), the log holds the
committed contents (`LogHoldsStable`), the live cells are the committed ones
and those of the open transaction (`LiveSplit`), and log and allocations are
empty outside a transaction.  Assumptions: `Zero \in Value`, `Root \subseteq
Cell`.

That the tx classes of the array, the hash table and the skiplist satisfy the
premise is proved below.  Those of btree and
bplustree satisfy it except for stores into the root node
(`DisciplineBelowRoot`): insert snapshots the root object and not the node it
points to.  Those of rbtree satisfy it except for the root pointer
(`DisciplineButRoot`), with the mistake the other way round.  Those of
linkedlist do not satisfy it, which is the finding `list_append`.

### Drivers

For every positive number of threads and records and every number of operations,

- `TypeCorrect == Spec => []TypeOK` and `KeysOnce == Spec => []InsertOnce`;
- `LoadBeforeRun == Spec => []LoadComplete` and
  `DestroyedAlone == Spec => []DestroyAlone`.

`InsertOnce` alone does not say where the next key comes from.  `IInv` adds
that keys being inserted and keys of inserted records are below the counter of
their workload (`HeldBelow`, `InsertedBelow`), and that a client in a call has
that call still to count (`CallsCounted`), which type correctness needs.

`LoadComplete` and `DestroyAlone` compare what was done with recordcount and
operationcount, not with what the clients were told; `Remainder` is the
arithmetic that connects them.  `LoadComplete` is about all records at once, and each client knows only how many
it has inserted.  `LInv` connects the two: the keys below a counter are inserted
or being inserted (`NoGap`); a counter is the number of the keys its clients
have drawn (`DrawsCounted`, by the cardinalities of `FiniteSetTheorems`); every
client works through its share or is gone (`Staged`, `SharesKept`), and main has
the futures of those it has joined (`Collected`).  When the last client has been
joined, none is inserting, so the counter is the number of records and no key
below it is missing; `LoadedBefore` keeps that while the transactions run.

### One class behind StoredsDB

`CallInv` of `Storeds` is the part of an invariant that does not depend on the
structure: who calls when (`CallsServed`, `Asked`), who holds the lock
(`HoldsLock`) and that, therefore, an update is alone between lock and unlock
(`Excluded`); whose memory steps are whose (`ProgramsOwned`); and that the
history says what it should (`WritesExpected`, `LegalGrows`).  `StoredsProofs`
proves, action by action, that each keeps it, whatever the structure's programs
are: mutual exclusion for any number of threads and each kind of lock.

Assumptions (`StoredsAssumption`, `BoundAssumption`): there are threads and main
is none of them, keys are natural numbers, a class has a known kind of memory and
of lock, values fit cells.

### Arrays

`ArrayProofs` is about all thirteen classes, any number of threads, keys, calls,
power failures and restarts, and any order of their steps:

- `ArrayInvariance == Spec => []IInv`, which includes type correctness;
- `ArrayShowsWrites` (`MapCorrect`), `ReadsAreLegal` (`ReadLegal`) and
  `FailureLosesNoWrite` (`ImageDurable`), for keys that have a slot each;
- `SlotsShowTheirKeys` (`SlotShared`) for all keys: read finds a whole value of
  a key that shares the slot;
- `ScansSeeWholeValues` (`ScanWhole`) for all keys;
- `TxClassesDisciplined == Spec => Discipline`;
- `TxClassesRefineDiscipline == Spec /\ cls.medium = "tx" => Tx!Spec`: the
  array's initial states and steps are those of `TxDiscipline`, or stutters, so
  that its theorem gives `TxClassesRecover`: a failure anywhere leaves the pool
  of the last `TX_END`.

None of these properties is inductive.  `IInv` says in addition

- what the medium holds when no failure has happened yet (`MediumOK`: in a tx
  pool a cell outside the log is flushed; the root pointer of a pmem pool is);
- that a log, and memory allocated or freed in a transaction, belongs to the one
  thread that has a transaction open, and never holds half a value (`LogOK`);
- where the array is, which objects are still unused at this start (`ArraysOK`);
- that a torn buffer, in memory or on the medium, has a writer that has steps to
  perform (`TornOK`): the reason why a scan under the lock sees none, and why a
  torn buffer of a failed process is not met again - the next `init` takes
  other memory;
- for each of the memory steps still to perform in `init`, in a write and in
  `destroy`, what the steps before it have achieved (`InitSteps`, `WriteSteps`,
  `DestroySteps`);
- what slots show while an operation runs (`SlotsOK`), and what every choice of
  written back lines, or the log, would make of them (`ImageOK`).  `Back(c)` is
  the contents a failure would restore; `Written(k, x)` allows a slot the values
  of all keys that share it.

`ArrayProofs` has first the steps of init, of writes and of destroy: what a step
does to memory (`WriteEffect` and its like, one lemma for each medium), then
that the invariant is kept; and one lemma for each other action.

Assumptions.  `ContentAssumption`: a pointer, a value, `Zero` and `Torn` can be
told apart (values are strings, `Zero` is cleared memory, `Torn` marks half a
copy; it takes no part in any guard).  `ClassAssumption`: the classes are those
of storeds/array, with restarts for which there is room.  `KeysFit` is not
assumed of the model but is a hypothesis of the three theorems that need it.
`ARRAY_SIZE` is 1000000 (`array_common.h:19`) and the workloads have
`recordcount=1000000`: their ordered keys have a slot each.  Hashed keys, the
default, can share one, and the code then keeps one record for both.

### Hash tables

`HashProofs` is about all eleven classes, any number of threads, keys, buckets,
calls, power failures and restarts, and whatever coefficients `init` draws:

- `HashInvariance == Spec => []IInv`, which includes type correctness;
- `HashShowsWrites` (`MapCorrect`) and `HashKeysUnique` (`KeysUnique`);
- `HashTxDisciplined == Spec => Discipline`;
- `HashTxRefinesDiscipline == Spec /\ cls.medium = "tx" => Tx!Spec`, and from
  it and `Atomicity`, `HashTxRecovers`: a failure anywhere leaves the pool of
  the last `TX_END`;
- `HashFailureLosesNoWrite` (`ImageDurable`): what that pool shows is every
  write that has returned, and of one that has not the old or the new value.

The programs of the array have a fixed order of a few steps, and its invariant
says what each of them finds.  An insert into a hash table allocates, links an
entry before the head of a chain, and is different in each medium, so the
invariant speaks of where a program leads instead.  `Yields(p, m, F)`: the
program p, performed in the memory m, ends in the memory F.  `WillHold(p, want)`:
for some F and some lists `ch` of the buckets, F is a well-formed table
(`TableMade`, `Linked`), every entry is in the bucket of its key and alone with
it (`Keyed`), and what is found under each key is in `want` (`Wanted`).
`TableInv` says this of the program of init, of each update, and of the empty
program between operations.  A memory step of the one that has the lock brings
memory nearer to the same F, so that the content of an operation is looked at
once, when it starts (`EnterFinds`), and not at every step.

Two more parts carry it.  `Starts`: each start takes a table no earlier one has
used, and only destroy frees, so that no entry of the list can be allocated
again.  `TxPrograms`: what is left of a tx program stores only to cells that the
log, or a step before, covers (`LogsFirst`); this is what `Discipline` needs.
`ProgramProofs` has the lemmas that say what a program put together from parts
yields, allocates and logs; they mention no structure.

`HashFailureLosesNoWrite` needs what `HashTxRecovers` leaves open, namely what
the committed pool holds, and an invariant about the history variable `stable`:
`ImageInv`, inductive together with `IInv` and with that of `TxDiscipline`
(`DurableInv`).  Before the first restart of a tx class the pool of the last
commit has no table yet, or is a table that shows what is expected (`TableShown`,
the same four conditions as above), or is one whose root pointer destroy has
cleared, on the medium too.  `Commits` says why a commit keeps this: a program is
empty or ends with `TX_END` (`EndsTx`), so that `TX_END` is the last step of a
program and what `WillHold` promises of its end is what is committed; until then
`expect` allows the old value and the new.  destroy's program ends with no table,
and from its start on nothing need be found.

`Walk` is a recursive function over 0..MaxEntry.  That it follows `ch` (`WalkIs`,
`ChainIs`) is proved by an induction over numbers that uses a set
(`NumbersByInduction`, from the least element of a set of numbers), where the
library's theorems would need an operator.  That a list ends within the walk is
a count: its entries are distinct, since their keys are, and come from a finite
heap (`DistinctFit`).

Assumptions.  `HashAssumption`: there is a bucket, the prime of the hash function
is positive, tables and entries are numbered.  `ContentAssumption`: OID_NULL is no
object and not the number of buckets.  `ClassAssumption`: the classes are those of
storeds/hashmap, whose update is an insert, and each start finds room for its
table.  Every entry is added under the guard `HasRoom`.

### Skiplists

`SkipProofs` is about all eleven classes, any number of threads, keys, levels,
calls, power failures and restarts, and every outcome of the coin:

- `SkipInvariance == Spec => []IInv`, which includes type correctness;
- `SkipShowsWrites` (`MapCorrect`) and `SkipLevelsNested` (`LevelsNested`);
- `SkipTxDisciplined == Spec => Discipline`;
- `SkipTxRefinesDiscipline == Spec /\ cls.medium = "tx" => Tx!Spec`, and from
  it and `Atomicity`, `SkipTxRecovers`: a failure anywhere, between the links of
  two levels too, leaves the pool of the last `TX_END`.

`IInv` has two parts.  `BaseInv` is true in every process: calls, locks and types
(`CallInv` and the like, from `StoredsProofs`); the log covers what a tx program
is still to store (`TxPrograms`); a pointer leads to a node or nowhere, and so do
those that are still to be stored (`PointersTyped`); init has made a head, or its
program will (`HeadMade`); and nothing is freed before destroy (`NothingFreed`).
It has to be that weak: a restart takes memory for the new head that may be a
node of the old list, does not clear its pointers, and so enters the old list
anywhere, or a circle.  The discipline must hold there nevertheless, which it
does because what an operation stores to are cells of nodes it has snapshotted,
wherever its search has ended.

`LevelsInv` is true of the first process.  `HoldsIn(m, A, p, want)`: the memory F
that the program p makes of m holds a list.  ns gives the nodes of each level.
On every level a pointer leads from a node, or the head, to the node of that
level with the next larger key (`Linked`); no two nodes share a key (`Keyed`); a
node on a level is on all levels below (`Nested`); the nodes show what is wanted
(`Wanted`); and head and nodes are allocated, so that no new node is one of them
(`KeptIn`).  Sets of nodes ordered by their keys take the place of sequences: the
successor of a node is said by comparing keys, so that what an insert changes is
one pointer of one node on each level it links.

The search is two recursive functions, one that walks along a level and one that
descends.  `FindIs` says where it arrives: on each level at the last node whose
key is smaller.  A walk ends because its nodes have different keys and the heap
is finite; the descent goes on because the node it has reached is on the level
below (`Nested`).  `ChainIs` says what `Chain` lists.  Both are inductions over
numbers through a set (`NumbersByInduction`).  The effect of an insert on the
levels it links is one lemma for all media (`Grows`, `Joins`): the stores of a
level touch only that level's pointers, so that the path that was found before
the first store is still right at the last.

Assumptions.  `SkipAssumption`: there is a level and a node.  `ContentAssumption`:
a null pointer is no node.  `ClassAssumption`: update is an insert.  A node is
added, and a pool is opened again, under the guard `HasRoom`.

### Linked lists

`LinkedProofs` is about the eight modelled classes of storeds/linkedlist, any
number of threads, keys, nodes, calls, power failures and restarts:

- `LinkedInvariance == Spec => []IInv`, which includes type correctness;
- `LinkedShowsWrites` (`MapCorrect`) and `LinkedTailIsLast` (`TailIsLast`);
- `LinkedReadsLegal` (`ReadLegal`), in the first process;
- `LinkedFailureLosesNoWrite` (`ImageDurable`): the pool a tx class leaves after
  any failure shows every write that has returned, and of one that has not the
  old or the new value;
- `LinkedAppendsOnly == Spec /\ [](starts = 0) => AppendOnly`.

`IInv` is again `BaseInv`, true in every process, and `ListInv`, true in the
first.  What is particular to a list is in three conjuncts.

- `create_node` never writes `next`, and a walk that misses a key follows the
  `next` of the last node.  `LeadsTo` says what is there: a node, a null pointer
  or, in memory of malloc, an address of nothing.  `Ended` says which of them: no
  `next` field leads to a node but those of the nodes before the last.  This has
  to speak of the nodes that are still free too, since the next insert takes one
  as it is.
- Nobody looks for the key before inserting it.  `InsertsNew` says that the
  clients do (section 2): a key that is being inserted has no record and no other
  insert under way, and so `Keyed`, one node to a key, is kept by an append.
- `Linked`: head, `next` and tail follow the sequence ns of nodes.  The tail is
  part of it because an insert reads it once, when it starts, to know which
  `next` to set; `TailIsLast` is this conjunct, in terms of a walk.

As for the hash table, `HoldsIn(m, A, p, want)` speaks of the memory that the
program p makes of m, so that an operation is looked at when it starts
(`InsertKeepsList`, `UpdateKeepsList`) and a memory step only brings memory
nearer to it (`ExecHolds`).  The steps of every medium have one effect each
(`InsertDoes`, `UpdateDoes`), and what follows of the list are two lemmas about
sequences (`Appended`, `Overwritten`).  The free of a destroy is bounded by what
its program frees (`FreesChain`), whichever chain the root leads to: after a
restart that need not be a list, and nothing is claimed of it.

`LinkedReadsLegal` needs a second invariant, since a read copies its value after
the unlock and updates go on meanwhile.  `ReadsInv` says that from the lock to
the answer a read points into a node with its key (`FoundIn`), and that whatever
stands there, now or after any part of the operation under way, is a value the
key may show or half of one (`Mild`: a program puts nothing else into a field
that is the value of that key).  No node is freed while its thread is inside:
destroy comes after the last call.  It is claimed for the first process only,
since after a power failure the list of a pmem class may be any part of what it
was.

`LinkedFailureLosesNoWrite` cannot use `Atomicity`: insert assigns the tail pointer
of a list with nodes without having added it to the transaction, so a tx list is
no client of `TxDiscipline`.  Its third invariant says what holds nevertheless.
`PoolKept`: every cell of the committed pool but the tail is in the log with its
committed value, or is untouched, in memory and on the medium.  `Transacts`: what
is left of a program stores only to what is logged or to the tail (`LogsFirst`)
and ends with `TX_END` (`EndsTx`); init performs nothing.  `CommitShows`: the
committed pool is a list that shows what is expected, or its head is cleared and
nothing need be found (`HeadKept`: nobody frees the head, destroy ends with it
cleared).  A failure applies the log, and since a walk starts at the head and
never reads the tail (`Met`), what it finds is what the commit left
(`ImageShowsDurable`).  That is the claim for the first process; what the next
one makes of a tail that was not rolled back is the finding `list_append`.

`AppendOnly` is about every memory step of an insert, and `ListInv` speaks only of
the end of an operation.  `GrowthInv` speaks of what is left of a program: it
gives each pointer that a walk follows (`LinkCell`) one value, and one that leads
to a node no other than it has (`Growing`).  An insert sets the pointer of its
new node and the last of the list; neither leads to a node, by `Ended`.  Then a
step keeps every pointer to a node (`Kept`), and a walk that met a node meets it
again (`KeptReaches`, an induction along the walk).  That the hypothesis is
needed is again what `list_append` shows.

Assumptions.  `ListAssumption`: null pointer and address of nothing are no nodes,
the cells and values of the list are among those of the pool, what stands for
no record is no value, and neither is the zero of an empty field, whole or half
written.  `ListInit`: no class inserts the key of an update.

### What stays with TLC

- Liveness (`CallsEnd`, `Ends`, `BarrierPassed`): out of the prover's reach, as
  is `ENABLED`.
- `DestroyFreesAll` of the hash table: it needs that between operations the live
  cells are exactly those of the root, the table and its chains, and in destroy
  exactly those that its program has still to free.
- `MapCorrect` and the shapes of trees.  Induction over a set of
  numbers reaches a walk of bounded length, as it does for the hash table and the
  skiplist; the programs of a tree are computed by recursive functions that search
  and rebuild it, and what a split or a rotation does to every tree is not of this
  kind.
- The hashlist: its list is that of `ListSteps`, behind an index that a restart
  loses.
- `RestartKeeps` of the lists: it is about the processes after the first, and of
  what a list holds in these `ListInv` claims nothing.
- The durability of the skiplist's tx classes: `SkipTxRecovers` says that the
  committed pool comes back, not which records it holds.
- The findings, which are counterexamples.

## 5. Where code and documents disagree

- `list_append`: `LinkedlistPmemTx::insert` assigns `tail` without a snapshot.
  A failure before `TX_END` rolls the list back and leaves `tail` on a released
  node; after a restart an insert is lost or cuts the "Appended only" list.
- `btree_read`: read of the trees with entries in place returns a pointer into
  the node, and `StoredsDB::Read` copies from it after the unlock; an insert in
  between moves the entries, and the reader gets the value of another key.
- `lock_barrier`: loading clients wait at a barrier for main, which votes only
  after it has joined them.

Seen in the model and not the subject of a run:

- `StoredsDB::Read` returns kOK on a record miss (`core/db.h:45` promises a
  non-zero code);
- `init` of the persistent array, hashmap and skiplist replaces what the pool
  holds;
- destroy of the lists frees the last node twice; reused nodes of a destroyed
  list bring their old `next` with them;
- the volatile index of a hashlist is not rebuilt after a restart: insert
  appends a second node for a key that "already exists";
- `array_dram.cc:93`: the slot is `key % ARRAY_SIZE`, and `insertorder` is "hashed"
  by default, so that keys share slots and an insert replaces another record;
- ycsbc divides recordcount and operationcount by the threads and drops the
  remainder: transactions draw keys that were never inserted, and the throughput
  (`ycsbc.cc:108`) is operationcount by the time, although fewer operations ran.
  The properties say how much is lost, and that ycsbc_parallel loses nothing;
- the pmem classes of hashmap, skiplist and rbtree do not persist a new entry or
  node: `ht_pmem.cc:223` persists the bucket slot, `skiplist_pmem.cc:175` and
  `rbtree_pmem.cc:189` the local variable that holds the address; hl_pmem does
  not persist an update.  Their mode is named "PMEM-Persist";
- btree and bplustree: the tx insert snapshots the root object and not the root
  node (`btree_pmem_tx.cc:363`, `bplustree_pmem_tx.cc:478`); the pmem insert does
  not persist the root pointer (`btree_pmem.cc:328`, `bplustree_pmem.cc:447`);
  bt_pmem and bp_pmem do not persist a new entry or record; destroy of the trees
  of entries, and of the tx trees of records, frees the nodes and leaves these;
- bplustree: reads of trees with entries in place return a pointer that the next
  insert invalidates, as in `btree_read`; bp_pmem frees the neighbours of a leaf
  in destroy and then frees them again; bp_pmem_concurrent_mlock compares a slot
  behind the last key, and in a pool that was destroyed and opened again finds a
  key there whose record is gone;
- rbtree: a rotation at the root snapshots the root node and not the root object
  (`rbtree_pmem_tx.cc:265`); a failure between the two transactions of the first
  insert leaves a red root, and the insert that next needs its parent aborts; a
  failure in destroy leaves a pointer to freed nodes.

## 6. Not modelled

- `TX_ONABORT` and failed allocations: every handler ends the process, and the
  bounds leave room for every allocation.
- the lock-free lists: built only by their own test handlers, out of `GetDB`'s
  reach, over vendored libatomic_ops.
- print functions of the trees, and scan of hashmap, hashlist, linkedlist, btree
  and rbtree, which throws (`Rethrow` in `Driver`).
- key distributions (floating point statistics), properties files, timers, CPU
  affinity, scripts, vendored atomic_ops, and the DBs of the original YCSB-C.

## 7. Plan

Done: `PMem`, `TxDiscipline` with its theorem, `Storeds` with the part of an
invariant that structures share, the five linear and hashed structures, the three
trees, `LockOverhead`; `Driver`, `Array` and `SkipList` with all their safety
properties proved, `HashTable` with four of five, `LinkedList` with its state
invariants and, in the first process, `AppendOnly`.

Next: `DestroyFreesAll` of the hash table; what the pool of a skiplist holds after
a failure, along the lines of the two `ImageInv`; the hashlist, whose proof can
use `LinkedProofs`' lemmas about sequences.
