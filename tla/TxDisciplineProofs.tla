------------------------- MODULE TxDisciplineProofs -------------------------
(***************************************************************************)
(* Proofs about TxDiscipline, for every pool and every client.             *)
(***************************************************************************)
EXTENDS TxDiscipline, TLAPS

\* The empty log of PMem.
LEMMA NoUndoFacts == DOMAIN NoUndo = {} /\ NoUndo \in [{} -> Value]
  BY DEF NoUndo

\* PoolInit establishes the inductive invariant: an empty log and a medium
\* that agrees with memory.
LEMMA InitIInv == Init => IInv
<1> SUFFICES ASSUME NEW V \in SUBSET (Cell \ Root), PoolInit(V, Root)
             PROVE IInv
  BY DEF Init
<1> USE ZeroAssumption, RootAssumption, NoUndoFacts DEF PoolInit
<1>1. TypeOK  BY DEF TypeOK
<1>2. Untouched  BY DEF Untouched, Committed
<1>3. LogHoldsStable  BY DEF LogHoldsStable
<1>4. LiveSplit  BY DEF LiveSplit, Committed
<1>5. LogEmptyOutside /\ DownOutside  BY DEF LogEmptyOutside, DownOutside
<1> QED  BY <1>1, <1>2, <1>3, <1>4, <1>5 DEF IInv

\* Every library call and every failure keeps the variables in their types.
LEMMA StepTypeOK == TypeOK /\ [Next]_pvars => TypeOK'
<1> SUFFICES ASSUME TypeOK, [Next]_pvars PROVE TypeOK'
  OBVIOUS
<1> USE ZeroAssumption, NoUndoFacts DEF TypeOK
<1>1. ASSUME NEW c \in Cell, NEW v \in Value, Store(c, v) PROVE TypeOK'
  BY <1>1 DEF Store
<1>2. ASSUME NEW C \in SUBSET Cell,
             \/ Persist(C) \/ Alloc(C) \/ Free(C) \/ TxAddRange(C)
             \/ TxAlloc(C) \/ TxZAlloc(C) \/ TxFree(C)
      PROVE TypeOK'
  <2>1. CASE Persist(C)  BY <2>1 DEF Persist
  <2>2. CASE Alloc(C)  BY <2>2 DEF Alloc
  <2>3. CASE Free(C)  BY <2>3 DEF Free
  <2>4. CASE TxAddRange(C)  BY <2>4 DEF TxAddRange
  <2>5. CASE TxAlloc(C)  BY <2>5 DEF TxAlloc
  <2>6. CASE TxZAlloc(C)  BY <2>6 DEF TxZAlloc
  <2>7. CASE TxFree(C)  BY <2>7 DEF TxFree
  <2> QED  BY <1>2, <2>1, <2>2, <2>3, <2>4, <2>5, <2>6, <2>7
<1>3. ASSUME NEW C \in SUBSET Cell, NEW c \in Cell, NEW v \in Value,
             AllocTo(C, c, v) \/ ZAllocTo(C, c, v) \/ FreeFrom(C, c)
      PROVE TypeOK'
  <2>1. CASE AllocTo(C, c, v)  BY <2>1 DEF AllocTo
  <2>2. CASE ZAllocTo(C, c, v)  BY <2>2 DEF ZAllocTo
  <2>3. CASE FreeFrom(C, c)  BY <2>3 DEF FreeFrom
  <2> QED  BY <1>3, <2>1, <2>2, <2>3
<1>4. CASE TxBegin  BY <1>4 DEF TxBegin
<1>5. CASE TxCommit  BY <1>5 DEF TxCommit
<1>6. ASSUME NEW how \in {"failed", "exited"}, Fail(how) PROVE TypeOK'
  <2>1. mem' \in [Cell -> Value]  BY <1>6 DEF Fail, AfterExit
  <2>2. may' \in [Cell -> SUBSET Value]  BY <1>6 DEF Fail, AfterFailure
  <2> QED  BY <1>6, <2>1, <2>2 DEF Fail
<1>7. ASSUME NEW c \in Cell, NEW v \in Value, Settle(c, v) PROVE TypeOK'
  BY <1>7 DEF Settle
<1>8. CASE SettleNext
  BY <1>7, <1>8 DEF SettleNext, Unsettled
<1>9. CASE Open  BY <1>9 DEF Open
<1>10. CASE UNCHANGED pvars  BY <1>10 DEF pvars
<1> QED
  BY <1>1, <1>2, <1>3, <1>4, <1>5, <1>6, <1>8, <1>9, <1>10
  DEF Next, AnyStep, PowerFail, ProcessExit

\* A disciplined step keeps the parts of IInv that relate memory, medium and
\* log to the last commit.
LEMMA StepIInv == IInv /\ [Next]_pvars => IInv'
<1> SUFFICES ASSUME IInv, [Next]_pvars PROVE IInv'
  OBVIOUS
<1> USE NoUndoFacts
<1>0. TypeOK /\ TypeOK'  BY StepTypeOK DEF IInv
<1> DEFINE Rest == /\ Untouched /\ LogHoldsStable /\ LiveSplit
                   /\ LogEmptyOutside /\ DownOutside
<1>a. Rest  BY DEF IInv
<1> SUFFICES Rest'  BY <1>0 DEF IInv
<1> USE <1>0, <1>a
    DEF TypeOK, Untouched, LogHoldsStable, LiveSplit, LogEmptyOutside,
        DownOutside, Committed
<1>1. ASSUME NEW c \in Cell, NEW v \in Value, Store(c, v), Disciplined
      PROVE Rest'
  <2> USE DEF Disciplined, WritesCovered, Covered
  <2>1. Untouched'  BY <1>1 DEF Store
  <2> QED  BY <1>1, <2>1 DEF Store
<1>2. ASSUME NEW C \in SUBSET Cell, Disciplined,
             \/ Persist(C) \/ Alloc(C) \/ Free(C) \/ TxAddRange(C)
             \/ TxAlloc(C) \/ TxZAlloc(C) \/ TxFree(C)
      PROVE Rest'
  <2> USE DEF Disciplined
  <2>1. CASE Persist(C)  BY <2>1 DEF Persist
  <2>2. CASE Alloc(C)  BY <1>2, <2>2 DEF Alloc, AllocatesInTx
  <2>3. CASE Free(C)  BY <1>2, <2>3 DEF Free, FreesInTx
  <2>4. CASE TxAddRange(C)
    <3>1. Untouched'  BY <2>4 DEF TxAddRange
    <3>2. LogHoldsStable'  BY <2>4 DEF TxAddRange
    <3> QED  BY <2>4, <3>1, <3>2 DEF TxAddRange
  <2>5. CASE TxAlloc(C)
    BY <2>5 DEF TxAlloc
  <2>6. CASE TxZAlloc(C)
    <3>1. C \cap Committed = {}  BY <2>6 DEF TxZAlloc
    <3>2. Untouched'  BY <2>6, <3>1 DEF TxZAlloc
    <3>3. LiveSplit'  BY <2>6, <3>1 DEF TxZAlloc
    <3> QED  BY <2>6, <3>2, <3>3 DEF TxZAlloc
  <2>7. CASE TxFree(C)  BY <2>7 DEF TxFree
  <2> QED  BY <1>2, <2>1, <2>2, <2>3, <2>4, <2>5, <2>6, <2>7
<1>3. ASSUME NEW C \in SUBSET Cell, NEW c \in Cell, NEW v \in Value,
             AllocTo(C, c, v) \/ ZAllocTo(C, c, v) \/ FreeFrom(C, c),
             Disciplined
      PROVE Rest'
  <2> USE DEF Disciplined, WritesCovered, Covered
  <2>1. CASE AllocTo(C, c, v) \/ ZAllocTo(C, c, v)
    <3>1. C \cap Committed = {}  BY <2>1 DEF AllocTo, ZAllocTo
    <3>2. Untouched'  BY <1>3, <2>1, <3>1 DEF AllocTo, ZAllocTo
    <3>3. LiveSplit'  BY <1>3, <2>1, <3>1 DEF AllocTo, ZAllocTo, AllocatesInTx
    <3> QED  BY <2>1, <3>2, <3>3 DEF AllocTo, ZAllocTo
  <2>2. CASE FreeFrom(C, c)
    <3>1. Untouched'  BY <1>3, <2>2 DEF FreeFrom
    <3>2. LiveSplit'  BY <1>3, <2>2 DEF FreeFrom, FreesInTx
    <3> QED  BY <2>2, <3>1, <3>2 DEF FreeFrom
  <2> QED  BY <1>3, <2>1, <2>2
<1>4. CASE TxBegin  BY <1>4 DEF TxBegin
<1>5. CASE TxCommit
  <2>1. Untouched'  BY <1>5 DEF TxCommit
  <2>2. LiveSplit'  BY <1>5 DEF TxCommit
  <2> QED  BY <1>5, <2>1, <2>2 DEF TxCommit
<1>6. ASSUME NEW how \in {"failed", "exited"}, Fail(how) PROVE Rest'
  <2>1. Untouched'  BY <1>6 DEF Fail, AfterExit, AfterFailure
  <2>2. LiveSplit'  BY <1>6 DEF Fail
  <2> QED  BY <1>6, <2>1, <2>2 DEF Fail
<1>7. ASSUME NEW c \in Cell, NEW v \in Value, Settle(c, v) PROVE Rest'
  BY <1>7 DEF Settle, Unsettled
<1>8. CASE SettleNext  BY <1>7, <1>8 DEF SettleNext, Unsettled
<1>9. CASE Open  BY <1>9 DEF Open
<1>10. CASE UNCHANGED pvars  BY <1>10 DEF pvars
<1> QED
  BY <1>1, <1>2, <1>3, <1>4, <1>5, <1>6, <1>8, <1>9, <1>10
  DEF Next, AnyStep, PowerFail, ProcessExit

\* In a recovered pool the log is empty, so every live cell is a committed
\* cell that nothing has touched since.
LEMMA IInvRecovery == IInv => AtomicRecovery
<1> SUFFICES ASSUME IInv, Recovered PROVE /\ live = slive \ vol
                                          /\ \A c \in live : mem[c] = stable[c]
  BY DEF AtomicRecovery
<1>1. power # "up"  BY DEF Recovered
<1>2. undo = NoUndo /\ fresh = {} /\ live \cap vol = {}
  BY <1>1 DEF IInv, DownOutside, LogEmptyOutside
<1> QED
  BY <1>2, NoUndoFacts DEF IInv, Untouched, LiveSplit, Committed

\* The variables of any client of the pool keep their types.
THEOREM TypeCorrect == Spec => []TypeOK
<1>1. Init => TypeOK  BY InitIInv DEF IInv
<1> QED  BY <1>1, StepTypeOK, PTL DEF Spec

\* A client that writes, allocates and frees through its transactions only
\* finds after any failure exactly the pool of its last TX_END.
THEOREM Atomicity == Spec => []AtomicRecovery
  BY InitIInv, StepIInv, IInvRecovery, PTL DEF Spec
=============================================================================
