---------------------------- MODULE TxDiscipline ----------------------------
(***************************************************************************)
(* What a storeds tx class has to do for TX_BEGIN .. TX_END to make its    *)
(* operations atomic: every store inside or outside a transaction goes to  *)
(* a cell that the transaction has snapshotted or allocated, and memory is *)
(* allocated and freed through the transaction only.  Any client of PMem   *)
(* that keeps to it finds, after a failure at any point, exactly the pool  *)
(* of the last commit.  The structure modules check the premise of their   *)
(* tx classes; TxDisciplineProofs proves the conclusion from it.           *)
(***************************************************************************)
EXTENDS PMem

CONSTANT Root   (* the cells of the pool's root object *)

ASSUME RootAssumption == Root \subseteq Cell

\* Every call any client can make, and every failure.
AnyStep ==
  \/ \E c \in Cell, v \in Value : Store(c, v)
  \/ \E C \in SUBSET Cell :
       \/ Persist(C) \/ Alloc(C) \/ Free(C)
       \/ TxAddRange(C) \/ TxAlloc(C) \/ TxZAlloc(C) \/ TxFree(C)
  \/ \E C \in SUBSET Cell, c \in Cell, v \in Value :
       AllocTo(C, c, v) \/ ZAllocTo(C, c, v) \/ FreeFrom(C, c)
  \/ TxBegin \/ TxCommit
  \/ PowerFail \/ ProcessExit \/ SettleNext \/ Open

\* The discipline, as a predicate on the steps of running code.
Covered(c) == c \in vol \cup DOMAIN undo \cup fresh

WritesCovered == \A c \in live : mem'[c] # mem[c] => Covered(c)

AllocatesInTx == (live' \ live) \ vol \subseteq fresh'

FreesInTx == (live \ live') \ vol # {} => intx /\ ~intx'

Disciplined ==
  power = "up" /\ power' = "up" => WritesCovered /\ AllocatesInTx /\ FreesInTx

\* The client may keep some of its cells outside the pool.
Init == \E V \in SUBSET (Cell \ Root) : PoolInit(V, Root)

Next == AnyStep /\ Disciplined

Spec == Init /\ [][Next]_pvars

-----------------------------------------------------------------------------
\* Every variable has its type.
TypeOK ==
  /\ mem \in [Cell -> Value]
  /\ may \in [Cell -> SUBSET Value]
  /\ vol \subseteq Cell /\ live \subseteq Cell
  /\ intx \in BOOLEAN
  /\ DOMAIN undo \subseteq Cell /\ undo \in [DOMAIN undo -> Value]
  /\ fresh \subseteq Cell /\ dying \subseteq Cell
  /\ power \in {"up", "failed", "exited"}
  /\ stable \in [Cell -> Value] /\ slive \subseteq Cell

\* A failure at any point, once the log has been applied, leaves the pool of
\* the last TX_END: the same objects allocated, with the same contents.
AtomicRecovery ==
  Recovered => /\ live = slive \ vol
               /\ \A c \in live : mem[c] = stable[c]

-----------------------------------------------------------------------------
(***************************************************************************)
(* The inductive invariant behind AtomicRecovery.                          *)
(***************************************************************************)

\* What the last commit left allocated in the pool.
Committed == slive \ vol

\* A committed cell that is not in the log is as it was, also on the medium.
Untouched ==
  \A c \in Committed \ DOMAIN undo : mem[c] = stable[c] /\ may[c] = {stable[c]}

\* The log holds the committed contents of every committed cell in it.
LogHoldsStable == \A c \in Committed \cap DOMAIN undo : undo[c] = stable[c]

\* The pool's live cells are the committed ones and those of the open
\* transaction.
LiveSplit ==
  /\ live \ vol = Committed \cup (fresh \ vol)
  /\ fresh \cap Committed = {}

LogEmptyOutside == ~intx => undo = NoUndo /\ fresh = {} /\ dying = {}

DownOutside == power # "up" => ~intx /\ live \cap vol = {}

IInv ==
  /\ TypeOK /\ Untouched /\ LogHoldsStable /\ LiveSplit
  /\ LogEmptyOutside /\ DownOutside
=============================================================================
