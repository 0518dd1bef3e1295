-------------------------------- MODULE PMem --------------------------------
(***************************************************************************)
(* Persistent memory as the storeds classes use it through libpmemobj:     *)
(* plain stores, pmemobj_persist / pmemobj_memcpy_persist, pmemobj_alloc,  *)
(* and transactions (TX_BEGIN, pmemobj_tx_add_range, pmemobj_tx_alloc,     *)
(* TX_END).  The library itself is external to the repository: it is       *)
(* modelled from the calls the repository makes.                           *)
(*                                                                         *)
(* A cell is a field of an object.  Its contents are described twice: mem  *)
(* is what a load returns, and may is the set of values the medium can     *)
(* hold for it if the power fails now.  A store adds its value to may (the *)
(* cache line may or may not be evicted before the failure), a persist     *)
(* reduces may to the current contents.  Cells in vol are ordinary DRAM    *)
(* (or libvmem) memory and never survive.                                  *)
(***************************************************************************)
EXTENDS Naturals, FiniteSets

CONSTANTS
  Cell,    (* addresses: <<object, field>> in the structure modules *)
  Value,   (* what a cell can hold *)
  Zero     (* the contents of memory that was never written, and OID_NULL *)

ASSUME ZeroAssumption == Zero \in Value

VARIABLES
  mem,     (* Cell -> Value: what a load returns *)
  may,     (* Cell -> SUBSET Value: what the medium may hold *)
  vol,     (* cells that live in volatile memory *)
  live,    (* allocated cells *)
  intx,    (* TRUE between TX_BEGIN and TX_END *)
  undo,    (* the ranges snapshotted in the transaction, with old contents *)
  fresh,   (* the cells allocated in the transaction *)
  dying,   (* the cells freed in the transaction, released when it commits *)
  power,   (* "up", "failed" (power lost) or "exited" (process ended) *)
  stable,  (* history: mem when the last transaction committed *)
  slive    (* history: live when the last transaction committed *)

pvars == <<mem, may, vol, live, intx, undo, fresh, dying, power, stable, slive>>

NoUndo == [c \in {} |-> Zero]

(***************************************************************************)
(* A new pool: zero-filled, with the root object allocated in it.          *)
(***************************************************************************)
PoolInit(volatile, root) ==
  /\ mem = [c \in Cell |-> Zero]
  /\ may = [c \in Cell |-> {Zero}]
  /\ vol = volatile
  /\ live = root
  /\ intx = FALSE
  /\ undo = NoUndo
  /\ fresh = {}
  /\ dying = {}
  /\ power = "up"
  /\ stable = [c \in Cell |-> Zero]
  /\ slive = root

-----------------------------------------------------------------------------
(***************************************************************************)
(* What running code does to the pool.                                     *)
(***************************************************************************)

\* An assignment or a strcpy / memcpy through a direct pointer.
Store(c, v) ==
  /\ power = "up"
  /\ mem' = [mem EXCEPT ![c] = v]
  /\ may' = [may EXCEPT ![c] = IF c \in vol THEN {v} ELSE @ \cup {v}]
  /\ UNCHANGED <<vol, live, intx, undo, fresh, dying, power, stable, slive>>

\* pmemobj_persist of a range.
Persist(C) ==
  /\ power = "up"
  /\ may' = [c \in Cell |-> IF c \in C THEN {mem[c]} ELSE may[c]]
  /\ UNCHANGED <<mem, vol, live, intx, undo, fresh, dying, power, stable,
                 slive>>

\* pmemobj_alloc, malloc, vmem_malloc: the memory keeps its old contents.
Alloc(C) ==
  /\ power = "up"
  /\ C \cap live = {}
  /\ live' = live \cup C
  /\ UNCHANGED <<mem, may, vol, intx, undo, fresh, dying, power, stable, slive>>

\* pmemobj_alloc into a field c of an object in the pool: the allocation and
\* the assignment of the new object's address v are one durable step.
AllocTo(C, c, v) ==
  /\ power = "up"
  /\ C \cap live = {}
  /\ live' = live \cup C
  /\ mem' = [mem EXCEPT ![c] = v]
  /\ may' = [may EXCEPT ![c] = {v}]
  /\ UNCHANGED <<vol, intx, undo, fresh, dying, power, stable, slive>>

\* pmemobj_zalloc into a field c: as AllocTo, with zeroed memory.
ZAllocTo(C, c, v) ==
  /\ power = "up"
  /\ C \cap live = {}
  /\ live' = live \cup C
  /\ mem' = [d \in Cell |-> IF d = c THEN v
                            ELSE IF d \in C THEN Zero ELSE mem[d]]
  /\ may' = [d \in Cell |-> IF d = c THEN {v}
                            ELSE IF d \in C THEN {Zero} ELSE may[d]]
  /\ UNCHANGED <<vol, intx, undo, fresh, dying, power, stable, slive>>

\* pmemobj_free, free, vmem_free.
Free(C) ==
  /\ power = "up"
  /\ live' = live \ C
  /\ UNCHANGED <<mem, may, vol, intx, undo, fresh, dying, power, stable, slive>>

\* pmemobj_free through a field c of the pool: the field becomes OID_NULL in
\* the same durable step.
FreeFrom(C, c) ==
  /\ power = "up"
  /\ live' = live \ C
  /\ mem' = [mem EXCEPT ![c] = Zero]
  /\ may' = [may EXCEPT ![c] = {Zero}]
  /\ UNCHANGED <<vol, intx, undo, fresh, dying, power, stable, slive>>

TxBegin ==
  /\ power = "up"
  /\ ~intx
  /\ intx' = TRUE
  /\ UNCHANGED <<mem, may, vol, live, undo, fresh, dying, power, stable, slive>>

\* pmemobj_tx_add_range: only what is not yet in the log is copied to it.
TxAddRange(C) ==
  /\ power = "up"
  /\ intx
  /\ undo' = [c \in DOMAIN undo \cup C |->
                IF c \in DOMAIN undo THEN undo[c] ELSE mem[c]]
  /\ UNCHANGED <<mem, may, vol, live, intx, fresh, dying, power, stable, slive>>

\* pmemobj_tx_alloc: undone if the transaction does not commit.
TxAlloc(C) ==
  /\ power = "up"
  /\ intx
  /\ C \cap live = {}
  /\ live' = live \cup C
  /\ fresh' = fresh \cup C
  /\ UNCHANGED <<mem, may, vol, intx, undo, dying, power, stable, slive>>

\* pmemobj_tx_zalloc.
TxZAlloc(C) ==
  /\ power = "up"
  /\ intx
  /\ C \cap live = {}
  /\ live' = live \cup C
  /\ fresh' = fresh \cup C
  /\ mem' = [c \in Cell |-> IF c \in C THEN Zero ELSE mem[c]]
  /\ may' = [c \in Cell |-> IF c \in C THEN {Zero} ELSE may[c]]
  /\ UNCHANGED <<vol, intx, undo, dying, power, stable, slive>>

\* pmemobj_tx_free: takes effect when the transaction commits.
TxFree(C) ==
  /\ power = "up"
  /\ intx
  /\ dying' = dying \cup C
  /\ UNCHANGED <<mem, may, vol, live, intx, undo, fresh, power, stable, slive>>

\* Mutant: new objects are not flushed.
TxCommit_unflushed ==
  /\ power = "up"
  /\ intx
  /\ may' = [c \in Cell |-> IF c \in DOMAIN undo THEN {mem[c]} ELSE may[c]]
  /\ live' = live \ dying
  /\ intx' = FALSE
  /\ undo' = NoUndo
  /\ fresh' = {}
  /\ dying' = {}
  /\ stable' = mem
  /\ slive' = live \ dying
  /\ UNCHANGED <<mem, vol, power>>

\* TX_END of the outermost transaction: the ranges of the log and the new
\* objects are flushed, nothing else is; freed objects are released.
TxCommit ==
  /\ power = "up"
  /\ intx
  /\ may' = [c \in Cell |-> IF c \in DOMAIN undo \cup fresh THEN {mem[c]}
                            ELSE may[c]]
  /\ live' = live \ dying
  /\ intx' = FALSE
  /\ undo' = NoUndo
  /\ fresh' = {}
  /\ dying' = {}
  /\ stable' = mem
  /\ slive' = live \ dying
  /\ UNCHANGED <<mem, vol, power>>

-----------------------------------------------------------------------------
(***************************************************************************)
(* Failures.  Recovery in pmemobj_open rolls an open transaction back from *)
(* its log and releases what it allocated; this is folded into the failure *)
(* step, because no code runs between the two.                             *)
(***************************************************************************)

\* What the loss of the process alone leaves in a cell.
AfterExit(c) ==
  IF c \in vol THEN Zero
  ELSE IF c \in DOMAIN undo THEN undo[c] ELSE mem[c]

\* What the medium may hold for a cell after the log is applied.
AfterFailure(c) ==
  IF c \in vol THEN {Zero}
  ELSE IF c \in DOMAIN undo THEN {undo[c]} ELSE may[c]

Fail(how) ==
  /\ power = "up"
  /\ power' = how
  /\ mem' = [c \in Cell |-> AfterExit(c)]
  /\ may' = [c \in Cell |-> AfterFailure(c)]
  /\ live' = (live \ fresh) \ vol
  /\ intx' = FALSE
  /\ undo' = NoUndo
  /\ fresh' = {}
  /\ dying' = {}
  /\ UNCHANGED <<vol, stable, slive>>

PowerFail == Fail("failed")

\* exit, abort or a failed assert: the caches survive, so unflushed stores
\* are still loadable and still at risk.
ProcessExit == Fail("exited")

\* After a power failure each cell settles on one value it may hold; the
\* order in which that is decided is immaterial.
Unsettled == {c \in Cell : may[c] # {mem[c]}}

Settle(c, v) ==
  /\ power = "failed"
  /\ c \in Unsettled
  /\ v \in may[c]
  /\ mem' = [mem EXCEPT ![c] = v]
  /\ may' = [may EXCEPT ![c] = {v}]
  /\ UNCHANGED <<vol, live, intx, undo, fresh, dying, power, stable, slive>>

SettleNext ==
  /\ Unsettled # {}
  /\ LET c == CHOOSE d \in Unsettled : TRUE
     IN \E v \in may[c] : Settle(c, v)

\* The image the next process finds is decided.
Recovered == power = "exited" \/ (power = "failed" /\ Unsettled = {})

\* pmemobj_open by the next process.
Open ==
  /\ Recovered
  /\ power' = "up"
  /\ UNCHANGED <<mem, may, vol, live, intx, undo, fresh, dying, stable, slive>>

-----------------------------------------------------------------------------
\* Every variable has its type.
MemoryTypeOK ==
  /\ mem \in [Cell -> Value]
  /\ may \in [Cell -> SUBSET Value]
  /\ vol \subseteq Cell /\ live \subseteq Cell
  /\ intx \in BOOLEAN
  /\ DOMAIN undo \subseteq Cell /\ undo \in [DOMAIN undo -> Value]
  /\ fresh \subseteq Cell /\ dying \subseteq Cell
  /\ power \in {"up", "failed", "exited"}
=============================================================================
