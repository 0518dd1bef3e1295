----------------------------- MODULE ArrayProofs -----------------------------
(***************************************************************************)
(* For every number of threads, keys, calls, failures and restarts: each   *)
(* step of the classes of storeds/array keeps Array's IInv; so they show   *)
(* what was written, also after a failure, and the tx classes keep to      *)
(* TxDiscipline.                                                           *)
(***************************************************************************)
EXTENDS Array, StoredsProofs, SequenceTheorems, WellFoundedInduction

-----------------------------------------------------------------------------
(***************************************************************************)
(* Sequences and numbers.                                                  *)
(***************************************************************************)
LEMMA ConcatIs ==
  ASSUME NEW S, NEW s \in Seq(S), NEW t \in Seq(S), NEW u \in Seq(S),
         Len(u) = Len(s) + Len(t),
         \A i \in 1..Len(u) : u[i] = IF i <= Len(s) THEN s[i] ELSE t[i - Len(s)]
  PROVE  s \o t = u
<1>1. /\ s \o t \in Seq(S) /\ Len(s \o t) = Len(u)
      /\ \A i \in 1..Len(u) : (s \o t)[i] = u[i]
  BY ConcatProperties
<1> QED BY <1>1, SeqEqual

LEMMA Concat21 ==
  ASSUME NEW a, NEW b, NEW c PROVE <<a, b>> \o <<c>> = <<a, b, c>>
<1> DEFINE S == {a, b, c}  s == <<a, b>>  t == <<c>>  u == <<a, b, c>>
<1>1. s \in Seq(S) /\ t \in Seq(S) /\ u \in Seq(S) OBVIOUS
<1>2. Len(s) = 2 /\ Len(t) = 1 /\ Len(u) = Len(s) + Len(t) OBVIOUS
<1>3. \A i \in 1..Len(u) : u[i] = IF i <= Len(s) THEN s[i] ELSE t[i - Len(s)]
  OBVIOUS
<1> HIDE DEF S, s, t, u
<1>4. s \o t = u BY <1>1, <1>2, <1>3, ConcatIs, Zenon
<1> QED BY <1>4 DEF s, t, u

LEMMA Concat221 ==
  ASSUME NEW a, NEW b, NEW c, NEW d, NEW e
  PROVE  <<a, b>> \o <<c, d>> \o <<e>> = <<a, b, c, d, e>>
<1> DEFINE S == {a, b, c, d, e}  s == <<a, b>>  t == <<c, d>>
           st == <<a, b, c, d>>  u == <<e>>  stu == <<a, b, c, d, e>>
<1>1. /\ s \in Seq(S) /\ t \in Seq(S) /\ st \in Seq(S) /\ u \in Seq(S)
      /\ stu \in Seq(S)
  OBVIOUS
<1>2. /\ Len(s) = 2 /\ Len(t) = 2 /\ Len(st) = Len(s) + Len(t)
      /\ Len(u) = 1 /\ Len(stu) = Len(st) + Len(u)
  OBVIOUS
<1>3. \A i \in 1..Len(st) : st[i] = IF i <= Len(s) THEN s[i] ELSE t[i - Len(s)]
  OBVIOUS
<1>4. \A i \in 1..Len(stu) :
        stu[i] = IF i <= Len(st) THEN st[i] ELSE u[i - Len(st)]
  OBVIOUS
<1> HIDE DEF S, s, t, st, u, stu
<1>5. s \o t = st BY <1>1, <1>2, <1>3, ConcatIs, Zenon
<1>6. st \o u = stu BY <1>1, <1>2, <1>4, ConcatIs, Zenon
<1> QED BY <1>5, <1>6 DEF s, t, st, u, stu

\* A set of numbers that is not empty has a least member.
LEMMA MinMember ==
  ASSUME NEW T \in SUBSET Nat, T # {}
  PROVE  Min(T) \in T /\ \A y \in T : Min(T) <= y
<1> DEFINE R == OpToRel(<, Nat)
<1>1. \A x, y \in Nat : <<x, y>> \in R <=> x < y BY DEF OpToRel
<1> HIDE DEF R
<1>2. PICK x \in T : \A y \in T : ~(<<y, x>> \in R)
  BY WFMin, NatLessThanWellFounded, Zenon DEF R
<1>3. \A y \in T : x <= y
  <2> TAKE y \in T
  <2>1. x \in Nat /\ y \in Nat OBVIOUS
  <2>2. ~(y < x) BY <1>1, <1>2, <2>1
  <2> QED BY <2>1, <2>2
<1> QED BY <1>3 DEF Min

-----------------------------------------------------------------------------
(***************************************************************************)
(* Where the cells are, and what can be in them.                           *)
(***************************************************************************)
LEMMA Cells ==
  /\ RootCells = {RootP} /\ RootP \in Cell /\ RootP \notin Elem
  /\ Cell = {RootP} \cup Elem
  /\ \A o \in ArrayObject : ElemCells(o) \subseteq Elem
                            /\ ElemCells(o) \subseteq Cell
  /\ \A c \in Elem : \E o \in ArrayObject : c \in ElemCells(o)
  /\ \A o, q \in ArrayObject : o # q => ElemCells(o) \cap ElemCells(q) = {}
<1>1. \A o \in ArrayObject : o # 0 BY DEF ArrayObject
<1> QED BY <1>1, ContentAssumption
        DEF RootCells, RootP, Elem, ElemCells, ArrayCell

LEMMA Slots ==
  ASSUME NEW o \in ArrayObject, NEW k \in Key
  PROVE  /\ <<o, Offset(k)>> \in ElemCells(o)
         /\ \A l \in Key : <<o, Offset(k)>> = <<o, Offset(l)>>
                             <=> l \in Sharing(k)
         /\ k \in Sharing(k)
<1>1. k \in Nat /\ ARRAY_SIZE \in Nat \ {0}
  BY StoredsAssumption, ArrayAssumption
<1>2. k % ARRAY_SIZE \in 0..(ARRAY_SIZE - 1) BY <1>1
<1> QED BY <1>2 DEF Offset, ElemCells, Sharing

LEMMA Contents ==
  /\ Zero \in Value /\ Torn \in Value /\ ArrayObject \subseteq Value
  /\ Val \subseteq Value /\ Beyond \in Value
  /\ Torn # Zero /\ Torn # Beyond /\ Torn \notin Val
  /\ Zero \notin Val /\ Zero \notin ArrayObject
  /\ \A v \in Val : Shown(v) = v
  /\ Shown(Zero) = Absent /\ Shown(Torn) = Torn
  /\ \A x \in Value : Shown(x) \in Value \cup {Absent}
BY ContentAssumption DEF ArrayValue, Shown

\* A class is volatile, or pmem, or tx, and updates whatever key it is given.
LEMMA Media ==
  ASSUME CallInv
  PROVE  /\ \/ Volatile(cls) /\ cls.medium \notin {"pmem", "tx"}
            \/ ~Volatile(cls) /\ cls.medium = "pmem"
            \/ ~Volatile(cls) /\ cls.medium = "tx"
         /\ cls.upsert /\ cls.bound.restarts < MaxArray
BY StoredsAssumption, ClassAssumption DEF CallInv, CallTypeOK, Volatile

-----------------------------------------------------------------------------
(***************************************************************************)
(* An insert or update.                                                    *)
(***************************************************************************)

\* The program it starts with.
LEMMA WritePrograms ==
  ASSUME CallInv, NEW k, NEW v
  PROVE  LET s == Slot(k) IN
    /\ Volatile(cls) => write(k, v) = <<St(s, Torn), St(s, v)>>
    /\ cls.medium = "pmem" =>
         write(k, v) = <<St(s, Torn), St(s, v), Fl({s})>>
    /\ cls.medium = "tx" =>
         write(k, v) = <<Bg, Sn({s}), St(s, Torn), St(s, v), Cm>>
<1> DEFINE s == Slot(k)
<1>1. Cp(s, v) = <<St(s, Torn), St(s, v)>> BY DEF Cp
<1>2. array_pmem_write(k, v) = <<St(s, Torn), St(s, v), Fl({s})>>
  BY <1>1, Concat21 DEF array_pmem_write
<1>3. array_pmem_tx_write(k, v) = <<Bg, Sn({s}), St(s, Torn), St(s, v), Cm>>
  BY <1>1, Concat221 DEF array_pmem_tx_write
<1>4. array_dram_write(k, v) = <<St(s, Torn), St(s, v)>>
  BY <1>1 DEF array_dram_write
<1> HIDE DEF s
<1>5. /\ Volatile(cls) => write(k, v) = array_dram_write(k, v)
      /\ cls.medium = "pmem" => write(k, v) = array_pmem_write(k, v)
      /\ cls.medium = "tx" => write(k, v) = array_pmem_tx_write(k, v)
  BY Media DEF write
<1> QED BY <1>2, <1>3, <1>4, <1>5 DEF s

\* What a memory step of it amounts to.
WriteEffect(t) ==
  LET s == Slot(th[t].key)  v == th[t].val IN
  /\ MemoryTypeOK'
  /\ \A c \in Cell \ {s} : mem'[c] = mem[c] /\ may'[c] = may[c]
  /\ UNCHANGED <<vol, live, fresh, dying, power>>
  /\ mem'[s] \in {mem[s], Torn, v} /\ mem'[s] \in may'[s]
  /\ may'[s] \subseteq may[s] \cup {Torn, v}
  /\ intx' => cls.medium = "tx" /\ power = "up"
  /\ ~intx' => undo' = NoUndo /\ fresh = {} /\ dying = {}
  /\ DOMAIN undo' \subseteq {s}
  /\ s \in DOMAIN undo' => undo'[s] # Torn
  /\ cls.medium = "tx" =>
       /\ IF s \in DOMAIN undo' THEN undo'[s] \in {Back(s), v}
          ELSE mem'[s] \in {Back(s), v} /\ may'[s] = {mem'[s]}
       /\ \A c \in Cell \ {s} : c \notin DOMAIN undo
  /\ LET p == prog'[t] IN
     /\ p = <<>> => mem'[s] = v /\ may'[s] = {v}
     /\ Volatile(cls) => p \in {<<St(s, Torn), St(s, v)>>, <<St(s, v)>>, <<>>}
     /\ cls.medium = "pmem" =>
          \/ p \in {<<St(s, Torn), St(s, v), Fl({s})>>, <<St(s, v), Fl({s})>>,
                    <<>>}
          \/ p = <<Fl({s})>> /\ mem'[s] = v
     /\ cls.medium = "tx" =>
          \/ /\ p = <<Sn({s}), St(s, Torn), St(s, v), Cm>>
             /\ intx' /\ undo' = NoUndo /\ mem'[s] # Torn
          \/ p = <<St(s, Torn), St(s, v), Cm>> /\ intx' /\ DOMAIN undo' = {s}
          \/ p = <<St(s, v), Cm>> /\ intx' /\ DOMAIN undo' = {s}
          \/ p = <<Cm>> /\ intx' /\ DOMAIN undo' = {s} /\ mem'[s] = v
          \/ p = <<>> /\ ~intx'

\* The slot it writes and the value.
LEMMA WriteSlot ==
  ASSUME IInv, NEW t \in Thread, Updating(t)
  PROVE  /\ phase = "serve" /\ power = "up" /\ th[t].key \in Key
         /\ th[t].val \in Val /\ th[t].val \in Value
         /\ Slot(th[t].key) \in ElemCells(ArrayP)
         /\ Slot(th[t].key) \in Elem /\ Slot(th[t].key) \in Cell
         /\ Slot(th[t].key) \in live /\ fresh = {} /\ dying = {}
         /\ Slot(th[t].key) # RootP /\ ArrayP \in ArrayObject
<1>1. /\ th[t].key \in Key /\ th[t].val \in Val /\ phase = "serve"
      /\ power = "up"
  BY DEF IInv, CallInv, Asked, CallsServed, Quiet, Updating
<1>2. /\ ArrayP \in ArrayObject /\ ElemCells(ArrayP) \subseteq live
      /\ fresh = {} /\ dying = {}
  BY <1>1 DEF IInv, ArraysOK
<1>3. Slot(th[t].key) \in ElemCells(ArrayP) BY <1>1, <1>2, Slots DEF Slot
<1> QED BY <1>1, <1>2, <1>3, Cells, Contents

LEMMA WriteEffectVolatile ==
  ASSUME IInv, NEW t \in Thread, Updating(t), Exec(t), Volatile(cls)
  PROVE  WriteEffect(t)
<1> DEFINE s == Slot(th[t].key)  v == th[t].val
<1>1. s \in Cell /\ v \in Value /\ Torn \in Value /\ power = "up"
      /\ fresh = {} /\ dying = {}
  BY WriteSlot, Contents
<1>2. MemoryTypeOK /\ s \in vol /\ ~intx /\ undo = NoUndo
      /\ cls.medium \notin {"pmem", "tx"}
  BY <1>1, Media DEF IInv, MediumOK, LogOK
<1>3. /\ prog[t] # <<>> /\ MemoryStep(Head(prog[t]))
      /\ prog'[t] = Tail(prog[t])
  BY ExecIs DEF IInv, Actor
<1>4. prog[t] \in {<<St(s, Torn), St(s, v)>>, <<St(s, v)>>, <<>>}
  BY DEF IInv, StepsOK, WriteSteps
<1> HIDE DEF s, v
<1>5. \E x \in {Torn, v} :
        /\ Store(s, x)
        /\ \/ x = Torn /\ prog'[t] = <<St(s, v)>>
           \/ x = v /\ prog'[t] = <<>>
  <2>1. CASE prog[t] = <<St(s, Torn), St(s, v)>>
    <3>1. MemoryStep(St(s, Torn)) /\ prog'[t] = <<St(s, v)>>
      BY <1>3, <2>1, HeadsAndTails
    <3> QED BY <3>1, StepIs
  <2>2. CASE prog[t] = <<St(s, v)>>
    <3>1. MemoryStep(St(s, v)) /\ prog'[t] = <<>>
      BY <1>3, <2>2, HeadsAndTails
    <3> QED BY <3>1, StepIs
  <2> QED BY <1>3, <1>4, <2>1, <2>2
<1>6. PICK x \in {Torn, v} :
        /\ Store(s, x)
        /\ \/ x = Torn /\ prog'[t] = <<St(s, v)>>
           \/ x = v /\ prog'[t] = <<>>
  BY <1>5
<1>7. MemoryTypeOK' BY <1>1, <1>2, <1>6, StoreTypes
<1>8. /\ \A c \in Cell \ {s} : mem'[c] = mem[c] /\ may'[c] = may[c]
      /\ UNCHANGED <<vol, live, fresh, dying, power, intx, undo>>
      /\ mem'[s] = x /\ may'[s] = {x}
  BY <1>1, <1>2, <1>6 DEF Store, MemoryTypeOK
<1>9. prog'[t] = <<>> => x = v BY <1>6, HeadsAndTails
<1> QED BY <1>1, <1>2, <1>6, <1>7, <1>8, <1>9, NoUndoFacts
        DEF WriteEffect, s, v

LEMMA WriteEffectPmem ==
  ASSUME IInv, NEW t \in Thread, Updating(t), Exec(t), cls.medium = "pmem"
  PROVE  WriteEffect(t)
<1> DEFINE s == Slot(th[t].key)  v == th[t].val
<1>1. /\ s \in Cell /\ v \in Value /\ Torn \in Value /\ power = "up"
      /\ fresh = {} /\ dying = {} /\ {s} \subseteq Cell
  BY WriteSlot, Contents
<1>2. /\ MemoryTypeOK /\ vol = {} /\ ~intx /\ undo = NoUndo /\ ~Volatile(cls)
      /\ mem[s] \in may[s]
  BY <1>1, Media DEF IInv, MediumOK, LogOK
<1>3. /\ prog[t] # <<>> /\ MemoryStep(Head(prog[t]))
      /\ prog'[t] = Tail(prog[t])
  BY ExecIs DEF IInv, Actor
<1>4. \/ prog[t] \in {<<St(s, Torn), St(s, v), Fl({s})>>,
                      <<St(s, v), Fl({s})>>, <<>>}
      \/ prog[t] = <<Fl({s})>> /\ mem[s] = v
  BY DEF IInv, StepsOK, WriteSteps
<1> HIDE DEF s, v
<1>5. ASSUME NEW x \in {Torn, v}, Store(s, x),
             \/ prog'[t] = <<St(s, v), Fl({s})>>
             \/ prog'[t] = <<Fl({s})>> /\ x = v
      PROVE  WriteEffect(t)
  <2>1. MemoryTypeOK' BY <1>1, <1>2, <1>5, StoreTypes
  <2>2. /\ \A c \in Cell \ {s} : mem'[c] = mem[c] /\ may'[c] = may[c]
        /\ UNCHANGED <<vol, live, fresh, dying, power, intx, undo>>
        /\ mem'[s] = x /\ may'[s] = may[s] \cup {x}
    BY <1>1, <1>2, <1>5 DEF Store, MemoryTypeOK
  <2>3. prog'[t] # <<>> BY <1>5
  <2> QED BY <1>1, <1>2, <1>5, <2>1, <2>2, <2>3, NoUndoFacts
          DEF WriteEffect, s, v
<1>6. CASE prog[t] = <<St(s, Torn), St(s, v), Fl({s})>>
  <2>1. MemoryStep(St(s, Torn)) /\ prog'[t] = <<St(s, v), Fl({s})>>
    BY <1>3, <1>6, HeadsAndTails
  <2> QED BY <1>5, <2>1, StepIs
<1>7. CASE prog[t] = <<St(s, v), Fl({s})>>
  <2>1. MemoryStep(St(s, v)) /\ prog'[t] = <<Fl({s})>>
    BY <1>3, <1>7, HeadsAndTails
  <2> QED BY <1>5, <2>1, StepIs
<1>8. CASE prog[t] = <<Fl({s})>> /\ mem[s] = v
  <2>1. MemoryStep(Fl({s})) /\ prog'[t] = <<>>
    BY <1>3, <1>8, HeadsAndTails
  <2>2. Persist({s}) BY <2>1, StepIs
  <2>3. MemoryTypeOK' BY <1>1, <1>2, <2>2, PersistTypes
  <2>4. /\ \A c \in Cell \ {s} : mem'[c] = mem[c] /\ may'[c] = may[c]
        /\ UNCHANGED <<vol, live, fresh, dying, power, intx, undo>>
        /\ mem'[s] = mem[s] /\ may'[s] = {mem[s]}
    BY <1>1, <2>2 DEF Persist
  <2> QED BY <1>1, <1>2, <1>8, <2>1, <2>3, <2>4, NoUndoFacts
          DEF WriteEffect, s, v
<1> QED BY <1>3, <1>4, <1>6, <1>7, <1>8

LEMMA WriteEffectTx ==
  ASSUME IInv, NEW t \in Thread, Updating(t), Exec(t), cls.medium = "tx"
  PROVE  WriteEffect(t)
<1> DEFINE s == Slot(th[t].key)  v == th[t].val
           Others == \A c \in Cell \ {s} : mem'[c] = mem[c] /\ may'[c] = may[c]
<1>1. /\ s \in Cell /\ s \in Elem /\ v \in Value /\ Torn \in Value
      /\ power = "up" /\ fresh = {} /\ dying = {} /\ {s} \subseteq Cell
      /\ v # Torn
  BY WriteSlot, Contents
<1>2. /\ MemoryTypeOK /\ vol = {} /\ ~Volatile(cls) /\ mem[s] \in may[s]
      /\ \A c \in Cell \ DOMAIN undo : may[c] = {mem[c]}
      /\ ~intx => undo = NoUndo
      /\ s \in DOMAIN undo => undo[s] # Torn
  BY <1>1, Media DEF IInv, MediumOK, LogOK
<1>3. /\ prog[t] # <<>> /\ MemoryStep(Head(prog[t]))
      /\ prog'[t] = Tail(prog[t])
  BY ExecIs DEF IInv, Actor
<1>4. \/ /\ prog[t] = <<Bg, Sn({s}), St(s, Torn), St(s, v), Cm>>
         /\ ~intx /\ mem[s] # Torn
      \/ /\ prog[t] = <<Sn({s}), St(s, Torn), St(s, v), Cm>>
         /\ intx /\ undo = NoUndo /\ mem[s] # Torn
      \/ prog[t] = <<St(s, Torn), St(s, v), Cm>> /\ intx /\ DOMAIN undo = {s}
      \/ prog[t] = <<St(s, v), Cm>> /\ intx /\ DOMAIN undo = {s}
      \/ prog[t] = <<Cm>> /\ intx /\ DOMAIN undo = {s} /\ mem[s] = v
      \/ prog[t] = <<>> /\ ~intx
  BY DEF IInv, StepsOK, WriteSteps
<1> HIDE DEF s, v
<1>5. CASE /\ prog[t] = <<Bg, Sn({s}), St(s, Torn), St(s, v), Cm>>
           /\ ~intx /\ mem[s] # Torn
  <2>1. MemoryStep(Bg) /\ prog'[t] = <<Sn({s}), St(s, Torn), St(s, v), Cm>>
    BY <1>3, <1>5, HeadsAndTails
  <2>2. TxBegin BY <2>1, StepIs
  <2>3. MemoryTypeOK' BY <1>1, <1>2, <2>2, TxTypes
  <2>4. /\ UNCHANGED <<mem, may, vol, live, fresh, dying, power, undo>>
        /\ intx'
    BY <2>2 DEF TxBegin
  <2>5. prog'[t] # <<>> BY <2>1
  <2> QED BY <1>1, <1>2, <1>5, <2>1, <2>3, <2>4, <2>5, NoUndoFacts
          DEF WriteEffect, Back, s, v
<1>6. CASE /\ prog[t] = <<Sn({s}), St(s, Torn), St(s, v), Cm>>
           /\ intx /\ undo = NoUndo /\ mem[s] # Torn
  <2>1. MemoryStep(Sn({s})) /\ prog'[t] = <<St(s, Torn), St(s, v), Cm>>
    BY <1>3, <1>6, HeadsAndTails
  <2>2. TxAddRange({s}) BY <2>1, StepIs
  <2>3. MemoryTypeOK' BY <1>1, <1>2, <2>2, TxTypes
  <2>4. /\ UNCHANGED <<mem, may, vol, live, fresh, dying, power, intx>>
        /\ DOMAIN undo' = {s} /\ undo'[s] = mem[s]
    BY <1>6, <2>2, NoUndoFacts DEF TxAddRange
  <2>5. prog'[t] # <<>> BY <2>1
  <2> QED BY <1>1, <1>2, <1>6, <2>1, <2>3, <2>4, <2>5, NoUndoFacts
          DEF WriteEffect, Back, s, v
<1>7. ASSUME NEW x \in {Torn, v}, Store(s, x), intx, DOMAIN undo = {s},
             \/ prog'[t] = <<St(s, v), Cm>>
             \/ prog'[t] = <<Cm>> /\ x = v
      PROVE  WriteEffect(t)
  <2>1. MemoryTypeOK' BY <1>1, <1>2, <1>7, StoreTypes
  <2>2. /\ Others
        /\ UNCHANGED <<vol, live, fresh, dying, power, intx, undo>>
        /\ mem'[s] = x /\ may'[s] = may[s] \cup {x}
    BY <1>1, <1>2, <1>7 DEF Store, MemoryTypeOK
  <2>3. prog'[t] # <<>> BY <1>7
  <2> QED BY <1>1, <1>2, <1>7, <2>1, <2>2, <2>3
          DEF WriteEffect, Back, s, v
<1>8. CASE /\ prog[t] = <<St(s, Torn), St(s, v), Cm>>
           /\ intx /\ DOMAIN undo = {s}
  <2>1. MemoryStep(St(s, Torn)) /\ prog'[t] = <<St(s, v), Cm>>
    BY <1>3, <1>8, HeadsAndTails
  <2> QED BY <1>7, <1>8, <2>1, StepIs
<1>9. CASE prog[t] = <<St(s, v), Cm>> /\ intx /\ DOMAIN undo = {s}
  <2>1. MemoryStep(St(s, v)) /\ prog'[t] = <<Cm>>
    BY <1>3, <1>9, HeadsAndTails
  <2> QED BY <1>7, <1>9, <2>1, StepIs
<1>10. CASE prog[t] = <<Cm>> /\ intx /\ DOMAIN undo = {s} /\ mem[s] = v
  <2>1. MemoryStep(Cm) /\ prog'[t] = <<>>
    BY <1>3, <1>10, HeadsAndTails
  <2>2. TxCommit BY <2>1, StepIs
  <2>3. MemoryTypeOK' BY <1>1, <1>2, <2>2, TxTypes
  <2>4. /\ Others /\ may'[s] = {mem[s]}
        /\ UNCHANGED <<mem, vol, live, fresh, dying, power>>
        /\ ~intx' /\ undo' = NoUndo
    BY <1>1, <1>10, <2>2 DEF TxCommit
  <2> QED BY <1>1, <1>2, <1>10, <2>1, <2>3, <2>4, NoUndoFacts
          DEF WriteEffect, Back, s, v
<1> QED BY <1>3, <1>4, <1>5, <1>6, <1>8, <1>9, <1>10

LEMMA WriteEffects ==
  ASSUME IInv, NEW t \in Thread, Updating(t), Exec(t) PROVE WriteEffect(t)
BY Media, WriteEffectVolatile, WriteEffectPmem, WriteEffectTx, Zenon DEF IInv

\* A step of it keeps the invariant.
LEMMA WriteKeeps ==
  ASSUME IInv, NEW t \in Thread, Updating(t), Exec(t) PROVE IInv'
<1> DEFINE s == Slot(th[t].key)  v == th[t].val
<1>1. /\ phase = "serve" /\ th[t].key \in Key /\ v \in Val /\ v \in Value
      /\ s \in ElemCells(ArrayP) /\ s \in Elem /\ s \in Cell /\ s \in live
      /\ fresh = {} /\ dying = {} /\ s # RootP /\ ArrayP \in ArrayObject
      /\ power = "up"
  BY WriteSlot
<1>2. WriteEffect(t) BY WriteEffects
<1>3. /\ \A b \in Actor \ {t} : prog'[b] = prog[b]
      /\ UNCHANGED <<cls, phase, th, rd, wr, expect, dirty, calls, fails,
                     starts>>
  BY ExecIs, Zenon DEF IInv, Actor
<1>4. CallInv' BY ExecCalls DEF IInv, Actor
<1>5. MemoryTypeOK' BY <1>2 DEF WriteEffect
<1>6. /\ \A c \in Cell \ {s} : mem'[c] = mem[c] /\ may'[c] = may[c]
      /\ UNCHANGED <<vol, live, fresh, dying, power>>
      /\ mem'[s] \in {mem[s], Torn, v} /\ mem'[s] \in may'[s]
      /\ may'[s] \subseteq may[s] \cup {Torn, v}
      /\ DOMAIN undo' \subseteq {s}
      /\ s \in DOMAIN undo' => undo'[s] # Torn
  BY <1>2 DEF WriteEffect
<1>7. /\ intx' => cls.medium = "tx" /\ power = "up"
      /\ ~intx' => undo' = NoUndo /\ fresh = {} /\ dying = {}
  BY <1>2 DEF WriteEffect
<1>8. cls.medium = "tx" =>
        /\ IF s \in DOMAIN undo' THEN undo'[s] \in {Back(s), v}
           ELSE mem'[s] \in {Back(s), v} /\ may'[s] = {mem'[s]}
        /\ \A c \in Cell \ {s} : c \notin DOMAIN undo
  BY <1>2 DEF WriteEffect
<1>9. prog'[t] = <<>> => may'[s] = {v} BY <1>2 DEF WriteEffect
<1>10. ArrayP' = ArrayP /\ mem'[RootP] = mem[RootP] /\ may'[RootP] = may[RootP]
  BY <1>1, <1>6, Cells DEF ArrayP, RootP
<1>11. \A k : Slot(k)' = Slot(k) BY <1>10 DEF Slot
<1>12. \A c, o : Volatile(c)' = Volatile(c) /\ ElemCells(o)' = ElemCells(o)
  BY DEF Volatile, ElemCells
<1>13. v \in expect[th[t].key] /\ th[t].key \in dirty
  <2>1. Writes(th[t].op, th[t].key)
    BY Media DEF IInv, Writes, Updating
  <2> QED BY <2>1 DEF IInv, CallInv, WritesExpected
<1>14. \A k \in Key :
         Slot(k) \in Cell /\ (Slot(k) = s <=> th[t].key \in Sharing(k))
  BY <1>1, Slots, Cells DEF Slot
<1>15. v # Torn /\ v # Zero /\ Shown(v) = v /\ Shown(Torn) = Torn
  BY <1>1, Contents
<1>16. \A u \in Thread : Updating(u)' <=> Updating(u) BY <1>3 DEF Updating
<1>17. \A k \in Key : mem[Slot(k)] = Torn \/ Written(k, mem[Slot(k)])
  BY <1>1 DEF IInv, SlotsOK
<1>18. MediumOK'
  <2>1. vol' = IF Volatile(cls') THEN Cell ELSE {}
    BY <1>3, <1>6 DEF IInv, MediumOK
  <2>2. \A c \in Cell : mem'[c] \in may'[c]
    BY <1>6 DEF IInv, MediumOK
  <2>3. cls'.medium = "tx" =>
          \A c \in Cell \ DOMAIN undo' : may'[c] = {mem'[c]}
    BY <1>3, <1>6, <1>8 DEF IInv, MediumOK
  <2>4. cls'.medium = "pmem" => may'[RootP] = {mem'[RootP]}
    BY <1>3, <1>10 DEF IInv, MediumOK
  <2> QED BY <1>1, <1>6, <1>12, <2>1, <2>2, <2>3, <2>4 DEF MediumOK
<1>19. LogOK' BY <1>1, <1>3, <1>6, <1>7, <1>16 DEF LogOK
<1>20. ArraysOK'
  BY <1>1, <1>3, <1>6, <1>10, <1>12 DEF IInv, ArraysOK
<1>21. TornOK'
  <2>1. \A c \in Elem : Torn \in may'[c] => c \in live' \ (fresh' \cup dying')
    BY <1>1, <1>6, Cells DEF IInv, TornOK
  <2>2. \A c \in ElemCells(ArrayP) : Torn \in may'[c] =>
          \E u \in Thread : /\ Updating(u) /\ prog'[u] # <<>>
                            /\ c = Slot(th[u].key)
    <3> SUFFICES ASSUME NEW c \in ElemCells(ArrayP), Torn \in may'[c]
                 PROVE  \E u \in Thread : /\ Updating(u) /\ prog'[u] # <<>>
                                          /\ c = Slot(th[u].key)
      OBVIOUS
    <3>1. CASE c = s BY <1>9, <1>15, <3>1
    <3>2. CASE c # s
      <4>1. c \in Cell /\ Torn \in may[c] BY <1>1, <1>6, <3>2, Cells
      <4>2. PICK u \in Thread : /\ Updating(u) /\ prog[u] # <<>>
                                /\ c = Slot(th[u].key)
        BY <1>1, <4>1, Contents DEF IInv, TornOK
      <4>3. u # t BY <3>2, <4>2
      <4> QED BY <1>3, <4>2, <4>3 DEF Actor
    <3> QED BY <3>1, <3>2
  <2>3. ElemCells(ArrayP)' = ElemCells(ArrayP) BY <1>10 DEF ElemCells
  <2> QED BY <1>3, <1>11, <1>16, <2>1, <2>2, <2>3 DEF TornOK
<1>22. StepsOK'
  <2>1. WriteSteps(t)'
    <3>1. Slot(th[t].key)' = s BY <1>3, <1>11
    <3>2. th' = th /\ cls' = cls BY <1>3
    <3> QED BY <1>2, <3>1, <3>2 DEF WriteEffect, WriteSteps, Volatile
  <2>2. \A u \in Thread : Updating(u)' => u = t
    BY <1>16 DEF IInv, CallInv, Excluded, Updating
  <2> QED BY <1>1, <1>3, <2>1, <2>2 DEF StepsOK
<1>23. SlotsOK'
  <2>1. ASSUME NEW k \in Key
        PROVE  mem'[Slot(k)] = Torn \/ Written(k, mem'[Slot(k)])
    <3>1. CASE th[t].key \in Sharing(k)
      BY <1>6, <1>13, <1>14, <1>15, <1>17, <3>1 DEF Written
    <3>2. CASE th[t].key \notin Sharing(k)
      BY <1>6, <1>14, <1>17, <3>2 DEF Written
    <3> QED BY <3>1, <3>2
  <2> QED BY <1>3, <1>11, <2>1 DEF SlotsOK, Written, Shown, Sharing, Offset
<1>24. ReadsSlot' BY <1>3, <1>11 DEF IInv, ReadsSlot
<1>25. ImageOK'
  <2> SUFFICES ASSUME starts = 0
               PROVE  /\ Back(RootP)' # Zero
                      /\ cls.medium = "pmem" =>
                           \A k \in Key : \A x \in may'[Slot(k)] :
                             \/ Written(k, x)
                             \/ x = Torn /\ Sharing(k) \cap dirty # {}
                      /\ cls.medium = "tx" /\ Back(RootP)' # Zero =>
                           \A k \in Key :
                             Written(k, Back(<<Back(RootP), Offset(k)>>)')
    BY <1>1, <1>3, <1>11 DEF ImageOK, Written, Shown, Sharing, Offset
  <2>1. ArrayP # Zero /\ Back(RootP)' = ArrayP
    BY <1>1, <1>6, <1>10, Contents DEF Back, ArrayP, RootP
  <2>2. ASSUME cls.medium = "pmem", NEW k \in Key, NEW x \in may'[Slot(k)]
        PROVE  Written(k, x) \/ (x = Torn /\ Sharing(k) \cap dirty # {})
    <3>1. \A y \in may[Slot(k)] :
            Written(k, y) \/ (y = Torn /\ Sharing(k) \cap dirty # {})
      BY <2>1, <2>2 DEF IInv, ImageOK
    <3>2. CASE th[t].key \in Sharing(k)
      BY <1>6, <1>13, <1>14, <1>15, <2>2, <3>1, <3>2 DEF Written
    <3>3. CASE th[t].key \notin Sharing(k)
      BY <1>6, <1>14, <2>2, <3>1, <3>3 DEF Written
    <3> QED BY <3>2, <3>3
  <2>3. ASSUME cls.medium = "tx", NEW k \in Key
        PROVE  Written(k, Back(<<Back(RootP), Offset(k)>>)')
    <3>1. RootP \notin DOMAIN undo /\ RootP \notin DOMAIN undo'
      BY <1>1, <1>6, <1>8, <2>3, Cells
    <3>2. Back(RootP) = ArrayP /\ Back(RootP)' = ArrayP
      BY <1>10, <3>1 DEF Back, ArrayP, RootP
    <3>3. Back(<<Back(RootP), Offset(k)>>)' = Back(Slot(k))'
          /\ Back(<<Back(RootP), Offset(k)>>) = Back(Slot(k))
      BY <1>10, <3>2 DEF Slot, Offset
    <3>4. Written(k, Back(Slot(k)))
      BY <2>1, <2>3, <3>2, <3>3 DEF IInv, ImageOK
    <3>5. CASE th[t].key \in Sharing(k)
      <4>1. Back(s)' \in {Back(s), v}
        <5>1. s' = s BY <1>3, <1>11
        <5> QED BY <1>8, <2>3, <5>1 DEF Back
      <4>2. s' = s /\ Slot(k) = s BY <1>3, <1>11, <1>14, <3>5
      <4>3. /\ Back(<<Back(RootP), Offset(k)>>)' = Back(s)'
            /\ Back(Slot(k)) = Back(s)
        BY <1>11, <3>3, <4>2
      <4> QED BY <1>13, <1>15, <3>4, <3>5, <4>1, <4>3 DEF Written
    <3>6. CASE th[t].key \notin Sharing(k)
      <4>1. Slot(k) \in Cell \ {s} BY <1>14, <3>6
      <4>2. Slot(k) \notin DOMAIN undo' /\ Slot(k) \notin DOMAIN undo
        BY <1>6, <1>8, <2>3, <4>1
      <4>3. Back(Slot(k))' = mem'[Slot(k)] /\ Back(Slot(k)) = mem[Slot(k)]
        BY <1>11, <4>2 DEF Back
      <4> QED BY <1>6, <3>3, <3>4, <4>1, <4>3
    <3> QED BY <3>5, <3>6
  <2> QED BY <2>1, <2>2, <2>3
<1>26. (KeysFit => ReadLegal)' /\ ScanWhole'
  BY <1>3 DEF IInv, ReadLegal, ScanWhole, KeysFit, Offset
<1> QED BY <1>4, <1>5, <1>18, <1>19, <1>20, <1>21, <1>22, <1>23, <1>24,
           <1>25, <1>26 DEF IInv

-----------------------------------------------------------------------------
(***************************************************************************)
(* init.                                                                   *)
(***************************************************************************)

\* What a memory step of it amounts to; o is the array it allocates.
InitEffect(o) ==
  LET E == ElemCells(o) IN
  /\ MemoryTypeOK'
  /\ \A c \in Elem : mem'[c] = mem[c] /\ may'[c] = may[c]
  /\ UNCHANGED <<vol, power>>
  /\ mem'[RootP] \in {mem[RootP], o} /\ mem'[RootP] \in may'[RootP]
  /\ cls.medium = "pmem" => may'[RootP] = {mem'[RootP]}
  /\ live \subseteq live' /\ live' \subseteq live \cup E
  /\ fresh' \subseteq E /\ dying' = {}
  /\ intx' => cls.medium = "tx" /\ power = "up"
  /\ ~intx' => undo' = NoUndo /\ fresh' = {}
  /\ DOMAIN undo \subseteq {RootP} /\ DOMAIN undo' \subseteq {RootP}
  /\ cls.medium = "tx" =>
       IF RootP \in DOMAIN undo' THEN undo'[RootP] = Back(RootP)
       ELSE /\ mem'[RootP] \in {Back(RootP), o}
            /\ may'[RootP] = {mem'[RootP]}
  /\ InitSteps(o)'

\* What holds before each of its steps.
LEMMA InitFacts ==
  ASSUME IInv, phase = "init", Exec(main), NEW o \in ArrayObject, InitSteps(o)
  PROVE  /\ MemoryTypeOK /\ power = "up" /\ main \in Actor
         /\ vol = IF Volatile(cls) THEN Cell ELSE {}
         /\ mem[RootP] \in may[RootP]
         /\ ~intx => undo = NoUndo /\ fresh = {} /\ dying = {}
         /\ cls.medium = "tx" => \A c \in Cell \ DOMAIN undo : may[c] = {mem[c]}
         /\ cls.medium = "pmem" => may[RootP] = {mem[RootP]}
         /\ prog[main] # <<>> /\ MemoryStep(Head(prog[main]))
         /\ prog'[main] = Tail(prog[main])
         /\ cls' = cls /\ starts' = starts
         /\ o <= starts + 1 /\ \A c \in ElemCells(o) : Torn \notin may[c]
         /\ ElemCells(o) \subseteq Elem /\ ElemCells(o) \subseteq Cell
         /\ RootP \in Cell \ Elem /\ Cell = {RootP} \cup Elem
         /\ RootCells = {RootP} /\ o \in Value /\ RootP \notin ElemCells(o)
<1>1. main \in Actor BY DEF Actor
<1>2. /\ MemoryTypeOK /\ power = "up"
      /\ vol = IF Volatile(cls) THEN Cell ELSE {}
      /\ mem[RootP] \in may[RootP]
      /\ ~intx => undo = NoUndo /\ fresh = {} /\ dying = {}
      /\ cls.medium = "tx" => \A c \in Cell \ DOMAIN undo : may[c] = {mem[c]}
      /\ cls.medium = "pmem" => may[RootP] = {mem[RootP]}
  BY Cells DEF IInv, CallInv, CallsServed, MediumOK, LogOK
<1>3. /\ prog[main] # <<>> /\ MemoryStep(Head(prog[main]))
      /\ prog'[main] = Tail(prog[main]) /\ cls' = cls /\ starts' = starts
  BY <1>1, ExecIs DEF IInv
<1>4. o <= starts + 1 /\ \A c \in ElemCells(o) : Torn \notin may[c]
  BY DEF InitSteps
<1>5. o \in Value BY Contents
<1> QED BY <1>1, <1>2, <1>3, <1>4, <1>5, Cells

LEMMA InitEffectVolatile ==
  ASSUME IInv, phase = "init", Exec(main), NEW o \in ArrayObject, InitSteps(o),
         Volatile(cls)
  PROVE  InitEffect(o)
<1> DEFINE E == ElemCells(o)
<1> USE InitFacts
<1>1. cls.medium \notin {"pmem", "tx"} /\ ~intx
  BY Media DEF IInv, LogOK
<1>2. ElemCells(o)' = E /\ RootP' = RootP /\ Volatile(cls)'
  BY DEF ElemCells, RootP, Volatile
<1>3. \/ prog[main] = <<Al(E), St(RootP, o)>> /\ E \cap live = {}
      \/ prog[main] = <<St(RootP, o)>> /\ E \subseteq live
  BY DEF InitSteps
<1>4. CASE prog[main] = <<Al(E), St(RootP, o)>> /\ E \cap live = {}
  <2>1. MemoryStep(Al(E)) /\ prog'[main] = <<St(RootP, o)>>
    BY <1>4, HeadsAndTails
  <2>2. Alloc(E) BY <2>1, StepIs
  <2>3. MemoryTypeOK' BY <2>2, AllocTypes
  <2>4. /\ UNCHANGED <<mem, may, vol, power, intx, undo, fresh, dying>>
        /\ live' = live \cup E
    BY <2>2 DEF Alloc
  <2>5. InitSteps(o)'
    BY <1>1, <1>2, <2>1, <2>4 DEF InitSteps
  <2> QED BY <1>1, <2>3, <2>4, <2>5, NoUndoFacts DEF InitEffect
<1>5. CASE prog[main] = <<St(RootP, o)>> /\ E \subseteq live
  <2>1. MemoryStep(St(RootP, o)) /\ prog'[main] = <<>>
    BY <1>5, HeadsAndTails
  <2>2. Store(RootP, o) BY <2>1, StepIs
  <2>3. MemoryTypeOK' BY <2>2, StoreTypes
  <2>4. /\ \A c \in Elem : mem'[c] = mem[c] /\ may'[c] = may[c]
        /\ UNCHANGED <<vol, live, power, intx, undo, fresh, dying>>
        /\ mem'[RootP] = o /\ may'[RootP] = {o}
    BY <2>2 DEF Store, MemoryTypeOK
  <2>5. ArrayP' = o BY <2>4 DEF ArrayP, RootP
  <2>6. InitSteps(o)'
    BY <1>1, <1>2, <1>5, <2>1, <2>4, <2>5 DEF InitSteps
  <2> QED BY <1>1, <2>3, <2>4, <2>6, NoUndoFacts DEF InitEffect
<1> QED BY <1>3, <1>4, <1>5

LEMMA InitEffectPmem ==
  ASSUME IInv, phase = "init", Exec(main), NEW o \in ArrayObject, InitSteps(o),
         cls.medium = "pmem"
  PROVE  InitEffect(o)
<1> DEFINE E == ElemCells(o)
<1> USE InitFacts
<1>1. ~Volatile(cls) /\ ~intx /\ cls.medium # "tx"
  BY Media DEF IInv, LogOK
<1>2. ElemCells(o)' = E /\ RootP' = RootP /\ ~Volatile(cls)'
      /\ RootCells' = RootCells
  BY <1>1 DEF ElemCells, RootP, RootCells, Volatile
<1>3. \/ prog[main] = <<AlTo(E, RootP, o), Fl(RootCells)>>
      \/ prog[main] = <<Fl(RootCells)>> /\ E \subseteq live /\ ArrayP = o
  BY DEF InitSteps
<1>4. CASE prog[main] = <<AlTo(E, RootP, o), Fl(RootCells)>>
  <2>1. MemoryStep(AlTo(E, RootP, o)) /\ prog'[main] = <<Fl(RootCells)>>
    BY <1>4, HeadsAndTails
  <2>2. AllocTo(E, RootP, o) BY <2>1, StepIs
  <2>3. MemoryTypeOK' BY <2>2, AllocToTypes
  <2>4. /\ \A c \in Elem : mem'[c] = mem[c] /\ may'[c] = may[c]
        /\ UNCHANGED <<vol, power, intx, undo, fresh, dying>>
        /\ live' = live \cup E
        /\ mem'[RootP] = o /\ may'[RootP] = {o}
    BY <2>2 DEF AllocTo, MemoryTypeOK
  <2>5. ArrayP' = o BY <2>4 DEF ArrayP, RootP
  <2>6. InitSteps(o)'
    BY <1>1, <1>2, <2>1, <2>4, <2>5 DEF InitSteps
  <2> QED BY <1>1, <2>3, <2>4, <2>6, NoUndoFacts DEF InitEffect
<1>5. CASE prog[main] = <<Fl(RootCells)>> /\ E \subseteq live /\ ArrayP = o
  <2>1. MemoryStep(Fl(RootCells)) /\ prog'[main] = <<>>
    BY <1>5, HeadsAndTails
  <2>2. Persist(RootCells) BY <2>1, StepIs
  <2>3. MemoryTypeOK' BY <2>2, PersistTypes
  <2>4. /\ \A c \in Elem : mem'[c] = mem[c] /\ may'[c] = may[c]
        /\ UNCHANGED <<mem, vol, live, power, intx, undo, fresh, dying>>
        /\ may'[RootP] = {mem[RootP]}
    BY <2>2 DEF Persist
  <2>5. ArrayP' = o BY <1>5, <2>4 DEF ArrayP
  <2>6. InitSteps(o)'
    BY <1>1, <1>2, <1>5, <2>1, <2>4, <2>5 DEF InitSteps
  <2> QED BY <1>1, <2>3, <2>4, <2>6, NoUndoFacts DEF InitEffect
<1> QED BY <1>3, <1>4, <1>5

LEMMA InitEffectTx ==
  ASSUME IInv, phase = "init", Exec(main), NEW o \in ArrayObject, InitSteps(o),
         cls.medium = "tx"
  PROVE  InitEffect(o)
<1> DEFINE E == ElemCells(o)
<1> USE InitFacts
<1>1. ~Volatile(cls) /\ cls.medium # "pmem" BY Media DEF IInv
<1>2. ElemCells(o)' = E /\ RootP' = RootP /\ ~Volatile(cls)'
      /\ RootCells' = RootCells
  BY <1>1 DEF ElemCells, RootP, RootCells, Volatile
<1>3. \/ /\ prog[main] = <<Bg, Sn(RootCells), TAl(E), St(RootP, o), Cm>>
         /\ ~intx /\ E \cap live = {}
      \/ /\ prog[main] = <<Sn(RootCells), TAl(E), St(RootP, o), Cm>>
         /\ intx /\ undo = NoUndo /\ fresh = {} /\ dying = {}
         /\ E \cap live = {}
      \/ /\ prog[main] = <<TAl(E), St(RootP, o), Cm>>
         /\ intx /\ DOMAIN undo = RootCells /\ fresh = {} /\ dying = {}
         /\ E \cap live = {}
      \/ /\ prog[main] = <<St(RootP, o), Cm>>
         /\ intx /\ DOMAIN undo = RootCells /\ fresh = E /\ dying = {}
         /\ E \subseteq live
      \/ /\ prog[main] = <<Cm>>
         /\ intx /\ DOMAIN undo = RootCells /\ fresh = E /\ dying = {}
         /\ E \subseteq live /\ ArrayP = o
  BY DEF InitSteps
<1>4. CASE /\ prog[main] = <<Bg, Sn(RootCells), TAl(E), St(RootP, o), Cm>>
           /\ ~intx /\ E \cap live = {}
  <2>1. MemoryStep(Bg)
        /\ prog'[main] = <<Sn(RootCells), TAl(E), St(RootP, o), Cm>>
    BY <1>4, HeadsAndTails
  <2>2. TxBegin BY <2>1, StepIs
  <2>3. MemoryTypeOK' BY <2>2, TxTypes
  <2>4. /\ UNCHANGED <<mem, may, vol, live, power, undo, fresh, dying>>
        /\ intx'
    BY <2>2 DEF TxBegin
  <2>5. InitSteps(o)'
    BY <1>1, <1>2, <1>4, <2>1, <2>4 DEF InitSteps
  <2> QED BY <1>1, <1>4, <2>3, <2>4, <2>5, NoUndoFacts DEF InitEffect, Back
<1>5. CASE /\ prog[main] = <<Sn(RootCells), TAl(E), St(RootP, o), Cm>>
           /\ intx /\ undo = NoUndo /\ fresh = {} /\ dying = {}
           /\ E \cap live = {}
  <2>1. MemoryStep(Sn(RootCells))
        /\ prog'[main] = <<TAl(E), St(RootP, o), Cm>>
    BY <1>5, HeadsAndTails
  <2>2. TxAddRange(RootCells) BY <2>1, StepIs
  <2>3. MemoryTypeOK' BY <2>2, TxTypes
  <2>4. /\ UNCHANGED <<mem, may, vol, live, power, intx, fresh, dying>>
        /\ DOMAIN undo' = {RootP} /\ undo'[RootP] = mem[RootP]
    BY <1>5, <2>2, NoUndoFacts DEF TxAddRange
  <2>5. InitSteps(o)'
    BY <1>1, <1>2, <1>5, <2>1, <2>4 DEF InitSteps
  <2> QED BY <1>1, <1>5, <2>3, <2>4, <2>5, NoUndoFacts DEF InitEffect, Back
<1>6. CASE /\ prog[main] = <<TAl(E), St(RootP, o), Cm>>
           /\ intx /\ DOMAIN undo = RootCells /\ fresh = {} /\ dying = {}
           /\ E \cap live = {}
  <2>1. MemoryStep(TAl(E)) /\ prog'[main] = <<St(RootP, o), Cm>>
    BY <1>6, HeadsAndTails
  <2>2. TxAlloc(E) BY <2>1, StepIs
  <2>3. MemoryTypeOK' BY <2>2, AllocTypes
  <2>4. /\ UNCHANGED <<mem, may, vol, power, intx, undo, dying>>
        /\ live' = live \cup E /\ fresh' = E
    BY <1>6, <2>2 DEF TxAlloc
  <2>5. InitSteps(o)'
    BY <1>1, <1>2, <1>6, <2>1, <2>4 DEF InitSteps
  <2> QED BY <1>1, <1>6, <2>3, <2>4, <2>5 DEF InitEffect, Back
<1>7. CASE /\ prog[main] = <<St(RootP, o), Cm>>
           /\ intx /\ DOMAIN undo = RootCells /\ fresh = E /\ dying = {}
           /\ E \subseteq live
  <2>1. MemoryStep(St(RootP, o)) /\ prog'[main] = <<Cm>>
    BY <1>7, HeadsAndTails
  <2>2. Store(RootP, o) BY <2>1, StepIs
  <2>3. MemoryTypeOK' BY <2>2, StoreTypes
  <2>4. /\ \A c \in Elem : mem'[c] = mem[c] /\ may'[c] = may[c]
        /\ UNCHANGED <<vol, live, power, intx, undo, fresh, dying>>
        /\ mem'[RootP] = o /\ o \in may'[RootP]
    BY <2>2 DEF Store, MemoryTypeOK
  <2>5. ArrayP' = o BY <2>4 DEF ArrayP, RootP
  <2>6. InitSteps(o)'
    BY <1>1, <1>2, <1>7, <2>1, <2>4, <2>5 DEF InitSteps
  <2> QED BY <1>1, <1>7, <2>3, <2>4, <2>6 DEF InitEffect, Back
<1>8. CASE /\ prog[main] = <<Cm>>
           /\ intx /\ DOMAIN undo = RootCells /\ fresh = E /\ dying = {}
           /\ E \subseteq live /\ ArrayP = o
  <2>1. MemoryStep(Cm) /\ prog'[main] = <<>>
    BY <1>8, HeadsAndTails
  <2>2. TxCommit BY <2>1, StepIs
  <2>3. MemoryTypeOK' BY <2>2, TxTypes
  <2>4. /\ UNCHANGED <<mem, vol, power>>
        /\ live' = live /\ ~intx' /\ undo' = NoUndo /\ fresh' = {}
        /\ dying' = {}
        /\ \A c \in Cell : may'[c] = IF c \in {RootP} \cup E THEN {mem[c]}
                                     ELSE may[c]
    BY <1>8, <2>2 DEF TxCommit
  <2>5. \A c \in Elem : may'[c] = may[c]
    BY <1>8, <2>4
  <2>6. ArrayP' = o /\ mem'[RootP] = o BY <1>8, <2>4 DEF ArrayP, RootP
  <2>7. InitSteps(o)'
    BY <1>1, <1>2, <1>8, <2>1, <2>4, <2>5, <2>6 DEF InitSteps
  <2> QED BY <1>1, <1>8, <2>3, <2>4, <2>5, <2>6, <2>7, NoUndoFacts
          DEF InitEffect
<1> QED BY <1>3, <1>4, <1>5, <1>6, <1>7, <1>8

\* A step of it keeps the invariant.
LEMMA InitKeeps ==
  ASSUME IInv, phase = "init", Exec(main) PROVE IInv'
<1>1. PICK o \in ArrayObject : InitSteps(o) BY DEF IInv, StepsOK
<1>2. InitEffect(o)
  BY <1>1, Media, InitEffectVolatile, InitEffectPmem, InitEffectTx, Zenon
     DEF IInv
<1> DEFINE E == ElemCells(o)
<1>3. /\ UNCHANGED <<cls, phase, th, rd, wr, expect, dirty, calls, fails,
                     starts>>
      /\ main \in Actor
  BY ExecIs, Zenon DEF IInv, Actor
<1>4. CallInv' BY ExecCalls DEF IInv, Actor
<1>5. /\ MemoryTypeOK' /\ InitSteps(o)'
      /\ \A c \in Elem : mem'[c] = mem[c] /\ may'[c] = may[c]
      /\ UNCHANGED <<vol, power>>
      /\ mem'[RootP] \in {mem[RootP], o} /\ mem'[RootP] \in may'[RootP]
      /\ cls.medium = "pmem" => may'[RootP] = {mem'[RootP]}
      /\ live \subseteq live' /\ live' \subseteq live \cup E
      /\ fresh' \subseteq E /\ dying' = {}
      /\ intx' => cls.medium = "tx" /\ power = "up"
      /\ ~intx' => undo' = NoUndo /\ fresh' = {}
      /\ DOMAIN undo \subseteq {RootP} /\ DOMAIN undo' \subseteq {RootP}
  BY <1>2 DEF InitEffect
<1>6. cls.medium = "tx" =>
        IF RootP \in DOMAIN undo' THEN undo'[RootP] = Back(RootP)
        ELSE /\ mem'[RootP] \in {Back(RootP), o}
             /\ may'[RootP] = {mem'[RootP]}
  BY <1>2 DEF InitEffect
<1>7. /\ ArrayP \in ArrayObject \cup {Zero}
      /\ RootP \in DOMAIN undo => undo[RootP] \in ArrayObject \cup {Zero}
      /\ Back(RootP) \in ArrayObject \cup {Zero}
  BY DEF IInv, ArraysOK, Back, ArrayP, RootP
<1>8. ArrayP' \in ArrayObject \cup {Zero}
  BY <1>1, <1>5, <1>7 DEF ArrayP, RootP
<1>9. \A u \in Thread : th[u].pc = "idle" /\ ~Updating(u)'
  BY <1>3 DEF IInv, CallInv, CallsServed, Quiet, Updating
<1>10. /\ \A c : Volatile(c)' = Volatile(c)
       /\ \A q : ElemCells(q)' = ElemCells(q)
  BY DEF Volatile, ElemCells
<1>11. E \subseteq Elem /\ Elem \subseteq Cell /\ RootP \notin Elem
       /\ Cell = {RootP} \cup Elem
  BY Cells
<1>12. MediumOK'
  <2>1. vol' = IF Volatile(cls') THEN Cell ELSE {}
    BY <1>3, <1>5 DEF IInv, MediumOK
  <2>2. \A c \in Cell : mem'[c] \in may'[c]
    BY <1>5, <1>11 DEF IInv, MediumOK
  <2>3. cls'.medium = "tx" =>
          \A c \in Cell \ DOMAIN undo' : may'[c] = {mem'[c]}
    BY <1>3, <1>5, <1>6, <1>11 DEF IInv, MediumOK
  <2>4. cls'.medium = "pmem" => may'[RootP] = {mem'[RootP]}
    BY <1>3, <1>5
  <2>5. power' = "up" BY <1>5 DEF IInv, CallInv, CallsServed
  <2> QED BY <1>10, <2>1, <2>2, <2>3, <2>4, <2>5 DEF MediumOK
<1>13. LogOK'
  BY <1>3, <1>5, <1>11 DEF LogOK
<1>14. ArraysOK'
  <2>1. ArrayP' \in ArrayObject \cup {Zero} BY <1>8
  <2>2. RootP \in DOMAIN undo' => undo'[RootP] \in ArrayObject \cup {Zero}
    <3>1. CASE cls.medium = "tx" BY <1>6, <1>7, <3>1
    <3>2. CASE cls.medium # "tx" BY <1>5, <3>2, NoUndoFacts
    <3> QED BY <3>1, <3>2
  <2>3. \A q \in ArrayObject : q > starts' + 1 => ElemCells(q) \cap live' = {}
    <3> SUFFICES ASSUME NEW q \in ArrayObject, q > starts + 1
                 PROVE  ElemCells(q) \cap live' = {}
      BY <1>3
    <3>1. q # o
      <4>1. q \in Nat /\ o \in Nat /\ starts \in Nat /\ o <= starts + 1
        BY <1>1, ArrayAssumption
           DEF ArrayObject, InitSteps, IInv, CallInv, CallTypeOK
      <4> QED BY <4>1
    <3>2. ElemCells(q) \cap E = {} BY <3>1, Cells
    <3>3. ElemCells(q) \cap live = {} BY DEF IInv, ArraysOK
    <3> QED BY <1>5, <3>2, <3>3
  <2>4. phase' # "serve" /\ starts' <= cls'.bound.restarts
    BY <1>3 DEF IInv, ArraysOK
  <2> QED BY <1>10, <2>1, <2>2, <2>3, <2>4 DEF ArraysOK
<1>15. TornOK'
  <2>1. \A c \in Elem : Torn \in may'[c] => c \in live' \ (fresh' \cup dying')
    <3>1. \A c \in E : Torn \notin may[c] BY <1>1 DEF InitSteps
    <3> QED BY <1>5, <3>1 DEF IInv, TornOK
  <2> QED BY <1>3, <2>1 DEF TornOK
<1>16. StepsOK' BY <1>3, <1>5, <1>9, <1>10 DEF StepsOK, ArrayObject
<1>17. SlotsOK' BY <1>3 DEF SlotsOK
<1>18. ReadsSlot' /\ (KeysFit => ReadLegal)' /\ ScanWhole'
  BY <1>3, <1>9 DEF IInv, ReadsSlot, ReadLegal, ScanWhole, KeysFit, Offset
<1>19. ImageOK'
  <2> SUFFICES ASSUME starts = 0
               PROVE  /\ \A k \in Key : Absent \in expect[k]
                      /\ \A c \in Elem : may'[c] = {Zero}
                      /\ cls.medium = "pmem" /\ ArrayP' # Zero =>
                           \A k \in Key : \A x \in may'[Slot(k)'] :
                             Written(k, x)
                      /\ cls.medium = "tx" /\ Back(RootP)' # Zero =>
                           \A k \in Key :
                             Written(k, Back(<<Back(RootP), Offset(k)>>)')
    BY <1>3 DEF ImageOK, Written, Shown, Sharing, Offset
  <2>1. \A k \in Key : Absent \in expect[k] BY DEF IInv, ImageOK
  <2>2. \A c \in Elem : may'[c] = {Zero}
    BY <1>5 DEF IInv, ImageOK
  <2>3. \A c \in Elem : mem'[c] = Zero
    BY <1>5, <1>11, <2>2 DEF IInv, MediumOK
  <2>4. ASSUME cls.medium = "pmem", ArrayP' # Zero, NEW k \in Key,
               NEW x \in may'[Slot(k)']
        PROVE  Written(k, x)
    <3>1. Slot(k)' \in Elem /\ k \in Sharing(k)
      BY <1>8, <2>4, Slots, Cells DEF Slot, Offset
    <3> QED BY <2>1, <2>2, <2>4, <3>1, Contents DEF Written
  <2>5. ASSUME cls.medium = "tx", Back(RootP)' # Zero, NEW k \in Key
        PROVE  Written(k, Back(<<Back(RootP), Offset(k)>>)')
    <3>1. Back(RootP)' \in ArrayObject
      BY <1>1, <1>6, <1>7, <2>5 DEF Back, RootP
    <3>2. PICK q \in ArrayObject : q = Back(RootP)' BY <3>1
    <3>3. <<q, Offset(k)>> \in Elem /\ k \in Sharing(k) BY Slots, Cells
    <3>4. <<q, Offset(k)>> \notin DOMAIN undo' BY <1>5, <1>11, <3>3
    <3>5. Back(<<Back(RootP), Offset(k)>>)' = mem'[<<q, Offset(k)>>]
      BY <3>2, <3>4 DEF Back, Offset
    <3> QED BY <2>1, <2>3, <3>3, <3>5, Contents DEF Written
  <2> QED BY <2>1, <2>2, <2>4, <2>5
<1> QED BY <1>4, <1>5, <1>12, <1>13, <1>14, <1>15, <1>16, <1>17, <1>18,
           <1>19 DEF IInv

-----------------------------------------------------------------------------
(***************************************************************************)
(* destroy.                                                                *)
(***************************************************************************)

\* What a memory step of it amounts to.
DestroyEffect ==
  /\ MemoryTypeOK'
  /\ \A c \in Elem : mem'[c] = mem[c] /\ may'[c] = may[c]
  /\ \A c \in Elem : Torn \in may[c] => c \in live' \ dying'
  /\ UNCHANGED <<vol, power>>
  /\ mem'[RootP] \in {mem[RootP], Zero} /\ mem'[RootP] \in may'[RootP]
  /\ cls.medium = "pmem" => may'[RootP] = {mem'[RootP]}
  /\ live' \subseteq live /\ fresh' = {}
  /\ intx' => cls.medium = "tx" /\ power = "up"
  /\ ~intx' => undo' = NoUndo /\ dying' = {}
  /\ DOMAIN undo \subseteq {RootP} /\ DOMAIN undo' \subseteq {RootP}
  /\ cls.medium = "tx" =>
       IF RootP \in DOMAIN undo' THEN undo'[RootP] = Back(RootP)
       ELSE /\ mem'[RootP] \in {Back(RootP), Zero}
            /\ may'[RootP] = {mem'[RootP]}
  /\ DestroySteps'

\* What holds before each of its steps.
LEMMA DestroyFacts ==
  ASSUME IInv, phase = "destroy", Exec(main)
  PROVE  /\ MemoryTypeOK /\ power = "up" /\ DestroySteps
         /\ vol = IF Volatile(cls) THEN Cell ELSE {}
         /\ mem[RootP] \in may[RootP]
         /\ ~intx => undo = NoUndo /\ fresh = {} /\ dying = {}
         /\ cls.medium = "tx" => \A c \in Cell \ DOMAIN undo : may[c] = {mem[c]}
         /\ cls.medium = "pmem" => may[RootP] = {mem[RootP]}
         /\ prog[main] # <<>> /\ MemoryStep(Head(prog[main]))
         /\ prog'[main] = Tail(prog[main])
         /\ cls' = cls
         /\ ArrayP # Zero => /\ ElemCells(ArrayP) \subseteq Elem
                             /\ ElemCells(ArrayP) \subseteq Cell
                             /\ \A c \in ElemCells(ArrayP) : Torn \notin may[c]
         /\ \A c \in Elem : Torn \in may[c] => c \in live \ (fresh \cup dying)
         /\ RootP \in Cell \ Elem /\ Cell = {RootP} \cup Elem
         /\ RootCells = {RootP} /\ RootCells \subseteq Cell
         /\ ArrayP = mem[RootP] /\ Zero \in Value
<1>1. main \in Actor BY DEF Actor
<1>2. /\ MemoryTypeOK /\ power = "up" /\ DestroySteps
      /\ vol = IF Volatile(cls) THEN Cell ELSE {}
      /\ mem[RootP] \in may[RootP]
      /\ ~intx => undo = NoUndo /\ fresh = {} /\ dying = {}
      /\ cls.medium = "tx" => \A c \in Cell \ DOMAIN undo : may[c] = {mem[c]}
      /\ cls.medium = "pmem" => may[RootP] = {mem[RootP]}
  BY Cells DEF IInv, CallInv, CallsServed, MediumOK, LogOK, StepsOK
<1>3. /\ prog[main] # <<>> /\ MemoryStep(Head(prog[main]))
      /\ prog'[main] = Tail(prog[main]) /\ cls' = cls
  BY <1>1, ExecIs DEF IInv
<1>4. \A c \in Elem : Torn \in may[c] => c \in live \ (fresh \cup dying)
  BY DEF IInv, TornOK
<1>5. ASSUME ArrayP # Zero
      PROVE  /\ ElemCells(ArrayP) \subseteq Elem
             /\ ElemCells(ArrayP) \subseteq Cell
             /\ \A c \in ElemCells(ArrayP) : Torn \notin may[c]
  <2>1. ArrayP \in ArrayObject BY <1>5 DEF IInv, ArraysOK
  <2>2. \A t \in Thread : ~Updating(t)
    BY DEF IInv, CallInv, CallsServed, Quiet, Updating
  <2>3. \A c \in ElemCells(ArrayP) : Torn \notin may[c]
    BY <1>5, <2>2 DEF IInv, TornOK
  <2> QED BY <2>1, <2>3, Cells
<1>6. ArrayP = mem[RootP] BY DEF ArrayP, RootP
<1> QED BY <1>1, <1>2, <1>3, <1>4, <1>5, <1>6, Cells, Contents

LEMMA DestroyEffectVolatile ==
  ASSUME IInv, phase = "destroy", Exec(main), Volatile(cls)
  PROVE  DestroyEffect
<1> DEFINE E == ElemCells(ArrayP)
<1> USE DestroyFacts
<1>1. cls.medium \notin {"pmem", "tx"} /\ ~intx BY Media DEF IInv, LogOK
<1>2. prog[main] = <<Fr(E)>> /\ ArrayP # Zero BY DEF DestroySteps
<1>3. MemoryStep(Fr(E)) /\ prog'[main] = <<>> BY <1>2, HeadsAndTails
<1>4. Free(E) BY <1>3, StepIs
<1>5. MemoryTypeOK' BY <1>2, <1>4, AllocTypes
<1>6. /\ UNCHANGED <<mem, may, vol, power, intx, undo, fresh, dying>>
      /\ live' = live \ E
  BY <1>4 DEF Free
<1>7. ArrayP' = ArrayP /\ Volatile(cls)' BY <1>6 DEF ArrayP, Volatile
<1>8. DestroySteps' BY <1>1, <1>2, <1>3, <1>6, <1>7 DEF DestroySteps
<1> QED BY <1>1, <1>2, <1>5, <1>6, <1>8, NoUndoFacts DEF DestroyEffect

LEMMA DestroyEffectPmem ==
  ASSUME IInv, phase = "destroy", Exec(main), cls.medium = "pmem"
  PROVE  DestroyEffect
<1> DEFINE E == ElemCells(ArrayP)
<1> USE DestroyFacts
<1>1. ~Volatile(cls) /\ ~intx /\ cls.medium # "tx"
  BY Media DEF IInv, LogOK
<1>2. ~Volatile(cls)' /\ RootP' = RootP /\ RootCells' = RootCells
  BY <1>1 DEF Volatile, RootP, RootCells
<1>3. \/ /\ prog[main] = <<FrIn(E, RootP), St(RootP, Zero), Fr(RootCells)>>
         /\ ArrayP # Zero
      \/ /\ prog[main] = <<St(RootP, Zero), Fr(RootCells)>> /\ ArrayP = Zero
      \/ /\ prog[main] = <<Fr(RootCells)>> /\ ArrayP = Zero
  BY DEF DestroySteps
<1>4. CASE /\ prog[main] = <<FrIn(E, RootP), St(RootP, Zero), Fr(RootCells)>>
           /\ ArrayP # Zero
  <2>1. /\ MemoryStep(FrIn(E, RootP))
        /\ prog'[main] = <<St(RootP, Zero), Fr(RootCells)>>
    BY <1>4, HeadsAndTails
  <2>2. FreeFrom(E, RootP) BY <2>1, StepIs
  <2>3. MemoryTypeOK' BY <1>4, <2>2, AllocToTypes
  <2>4. /\ \A c \in Elem : mem'[c] = mem[c] /\ may'[c] = may[c]
        /\ UNCHANGED <<vol, power, intx, undo, fresh, dying>>
        /\ live' = live \ E
        /\ mem'[RootP] = Zero /\ may'[RootP] = {Zero}
    BY <2>2 DEF FreeFrom, MemoryTypeOK
  <2>5. ArrayP' = Zero BY <2>4 DEF ArrayP, RootP
  <2>6. DestroySteps'
    BY <1>1, <1>2, <2>1, <2>4, <2>5 DEF DestroySteps
  <2> QED BY <1>1, <1>4, <2>3, <2>4, <2>6, NoUndoFacts DEF DestroyEffect
<1>5. CASE prog[main] = <<St(RootP, Zero), Fr(RootCells)>> /\ ArrayP = Zero
  <2>1. MemoryStep(St(RootP, Zero)) /\ prog'[main] = <<Fr(RootCells)>>
    BY <1>5, HeadsAndTails
  <2>2. Store(RootP, Zero) BY <2>1, StepIs
  <2>3. MemoryTypeOK' BY <2>2, StoreTypes
  <2>4. /\ \A c \in Elem : mem'[c] = mem[c] /\ may'[c] = may[c]
        /\ UNCHANGED <<vol, live, power, intx, undo, fresh, dying>>
        /\ mem'[RootP] = Zero /\ may'[RootP] = {Zero}
    BY <1>1, <1>5, <2>2 DEF Store, MemoryTypeOK
  <2>5. ArrayP' = Zero BY <2>4 DEF ArrayP, RootP
  <2>6. DestroySteps'
    BY <1>1, <1>2, <2>1, <2>4, <2>5 DEF DestroySteps
  <2> QED BY <1>1, <2>3, <2>4, <2>6, NoUndoFacts DEF DestroyEffect
<1>6. CASE prog[main] = <<Fr(RootCells)>> /\ ArrayP = Zero
  <2>1. MemoryStep(Fr(RootCells)) /\ prog'[main] = <<>>
    BY <1>6, HeadsAndTails
  <2>2. Free(RootCells) BY <2>1, StepIs
  <2>3. MemoryTypeOK' BY <2>2, AllocTypes
  <2>4. /\ UNCHANGED <<mem, may, vol, power, intx, undo, fresh, dying>>
        /\ live' = live \ {RootP}
    BY <2>2 DEF Free
  <2>5. ArrayP' = Zero BY <1>6, <2>4 DEF ArrayP
  <2>6. DestroySteps'
    BY <1>1, <1>2, <2>1, <2>4, <2>5 DEF DestroySteps
  <2> QED BY <1>1, <2>3, <2>4, <2>6, NoUndoFacts DEF DestroyEffect
<1> QED BY <1>3, <1>4, <1>5, <1>6

LEMMA DestroyEffectTx ==
  ASSUME IInv, phase = "destroy", Exec(main), cls.medium = "tx"
  PROVE  DestroyEffect
<1> DEFINE E == ElemCells(ArrayP)
<1> USE DestroyFacts
<1>1. ~Volatile(cls) /\ cls.medium # "pmem" BY Media DEF IInv
<1>2. ~Volatile(cls)' /\ RootP' = RootP /\ RootCells' = RootCells
  BY <1>1 DEF Volatile, RootP, RootCells
<1>3. \/ /\ prog[main] = <<Bg, Sn(RootCells), TFr(E), St(RootP, Zero),
                           TFr(RootCells), Cm>>
         /\ ~intx /\ ArrayP # Zero
      \/ /\ prog[main] = <<Sn(RootCells), TFr(E), St(RootP, Zero),
                           TFr(RootCells), Cm>>
         /\ intx /\ undo = NoUndo /\ fresh = {} /\ ArrayP # Zero
      \/ /\ prog[main] \in
              {<<TFr(E), St(RootP, Zero), TFr(RootCells), Cm>>,
               <<St(RootP, Zero), TFr(RootCells), Cm>>}
         /\ intx /\ DOMAIN undo = RootCells /\ fresh = {} /\ ArrayP # Zero
      \/ /\ prog[main] \in {<<TFr(RootCells), Cm>>, <<Cm>>}
         /\ intx /\ DOMAIN undo = RootCells /\ fresh = {}
         /\ ArrayP = Zero
  BY DEF DestroySteps
<1>4. CASE /\ prog[main] = <<Bg, Sn(RootCells), TFr(E), St(RootP, Zero),
                             TFr(RootCells), Cm>>
           /\ ~intx /\ ArrayP # Zero
  <2>1. /\ MemoryStep(Bg)
        /\ prog'[main] = <<Sn(RootCells), TFr(E), St(RootP, Zero),
                           TFr(RootCells), Cm>>
    BY <1>4, HeadsAndTails
  <2>2. TxBegin BY <2>1, StepIs
  <2>3. MemoryTypeOK' BY <2>2, TxTypes
  <2>4. /\ UNCHANGED <<mem, may, vol, live, power, undo, fresh, dying>>
        /\ intx'
    BY <2>2 DEF TxBegin
  <2>5. ArrayP' = ArrayP /\ ElemCells(ArrayP)' = E
    BY <2>4 DEF ArrayP, ElemCells
  <2>6. DestroySteps'
    BY <1>1, <1>2, <1>4, <2>1, <2>4, <2>5 DEF DestroySteps
  <2> QED BY <1>1, <1>4, <2>3, <2>4, <2>6, NoUndoFacts DEF DestroyEffect, Back
<1>5. CASE /\ prog[main] = <<Sn(RootCells), TFr(E), St(RootP, Zero),
                             TFr(RootCells), Cm>>
           /\ intx /\ undo = NoUndo /\ fresh = {} /\ ArrayP # Zero
  <2>1. /\ MemoryStep(Sn(RootCells))
        /\ prog'[main] = <<TFr(E), St(RootP, Zero), TFr(RootCells), Cm>>
    BY <1>5, HeadsAndTails
  <2>2. TxAddRange(RootCells) BY <2>1, StepIs
  <2>3. MemoryTypeOK' BY <2>2, TxTypes
  <2>4. /\ UNCHANGED <<mem, may, vol, live, power, intx, fresh, dying>>
        /\ DOMAIN undo' = {RootP} /\ undo'[RootP] = mem[RootP]
    BY <1>5, <2>2, NoUndoFacts DEF TxAddRange
  <2>5. ArrayP' = ArrayP /\ ElemCells(ArrayP)' = E
    BY <2>4 DEF ArrayP, ElemCells
  <2>6. DestroySteps'
    BY <1>1, <1>2, <1>5, <2>1, <2>4, <2>5 DEF DestroySteps
  <2> QED BY <1>1, <1>5, <2>3, <2>4, <2>6, NoUndoFacts DEF DestroyEffect, Back
<1>6. ASSUME NEW C \in SUBSET Cell, TxFree(C), intx, DOMAIN undo = RootCells,
             fresh = {}, \A c \in C \cap Elem : Torn \notin may[c],
             \/ /\ prog'[main] = <<St(RootP, Zero), TFr(RootCells), Cm>>
                /\ ArrayP # Zero
             \/ prog'[main] = <<Cm>> /\ ArrayP = Zero
      PROVE  DestroyEffect
  <2>1. MemoryTypeOK' BY <1>6, TxTypes
  <2>2. /\ UNCHANGED <<mem, may, vol, live, power, intx, undo, fresh>>
        /\ dying' = dying \cup C
    BY <1>6 DEF TxFree
  <2>3. ArrayP' = ArrayP BY <2>2 DEF ArrayP
  <2>4. DestroySteps'
    BY <1>1, <1>2, <1>6, <2>2, <2>3 DEF DestroySteps
  <2> QED BY <1>1, <1>6, <2>1, <2>2, <2>4 DEF DestroyEffect, Back
<1>7. CASE /\ prog[main] = <<TFr(E), St(RootP, Zero), TFr(RootCells), Cm>>
           /\ intx /\ DOMAIN undo = RootCells /\ fresh = {} /\ ArrayP # Zero
  <2>1. /\ MemoryStep(TFr(E))
        /\ prog'[main] = <<St(RootP, Zero), TFr(RootCells), Cm>>
    BY <1>7, HeadsAndTails
  <2>2. TxFree(E) BY <2>1, StepIs
  <2>3. E \subseteq Cell /\ \A c \in E : Torn \notin may[c] BY <1>7
  <2> QED BY <1>6, <1>7, <2>1, <2>2, <2>3
<1>8. CASE /\ prog[main] = <<St(RootP, Zero), TFr(RootCells), Cm>>
           /\ intx /\ DOMAIN undo = RootCells /\ fresh = {} /\ ArrayP # Zero
  <2>1. /\ MemoryStep(St(RootP, Zero))
        /\ prog'[main] = <<TFr(RootCells), Cm>>
    BY <1>8, HeadsAndTails
  <2>2. Store(RootP, Zero) BY <2>1, StepIs
  <2>3. MemoryTypeOK' BY <2>2, StoreTypes
  <2>4. /\ \A c \in Elem : mem'[c] = mem[c] /\ may'[c] = may[c]
        /\ UNCHANGED <<vol, live, power, intx, undo, fresh, dying>>
        /\ mem'[RootP] = Zero /\ Zero \in may'[RootP]
    BY <2>2 DEF Store, MemoryTypeOK
  <2>5. ArrayP' = Zero BY <2>4 DEF ArrayP, RootP
  <2>6. DestroySteps'
    BY <1>1, <1>2, <1>8, <2>1, <2>4, <2>5 DEF DestroySteps
  <2> QED BY <1>1, <1>8, <2>3, <2>4, <2>6 DEF DestroyEffect, Back
<1>9. CASE /\ prog[main] = <<TFr(RootCells), Cm>>
           /\ intx /\ DOMAIN undo = RootCells /\ fresh = {} /\ ArrayP = Zero
  <2>1. MemoryStep(TFr(RootCells)) /\ prog'[main] = <<Cm>>
    BY <1>9, HeadsAndTails
  <2>2. TxFree(RootCells) BY <2>1, StepIs
  <2>3. RootCells \cap Elem = {} OBVIOUS
  <2> QED BY <1>6, <1>9, <2>1, <2>2, <2>3
<1>10. CASE /\ prog[main] = <<Cm>>
            /\ intx /\ DOMAIN undo = RootCells /\ fresh = {} /\ ArrayP = Zero
  <2>1. MemoryStep(Cm) /\ prog'[main] = <<>>
    BY <1>10, HeadsAndTails
  <2>2. TxCommit BY <2>1, StepIs
  <2>3. MemoryTypeOK' BY <2>2, TxTypes
  <2>4. /\ UNCHANGED <<mem, vol, power>>
        /\ live' = live \ dying /\ ~intx' /\ undo' = NoUndo /\ fresh' = {}
        /\ dying' = {}
        /\ \A c \in Cell : may'[c] = IF c = RootP THEN {mem[c]} ELSE may[c]
    BY <1>10, <2>2 DEF TxCommit
  <2>5. ArrayP' = Zero BY <1>10, <2>4 DEF ArrayP
  <2>6. DestroySteps'
    BY <1>1, <1>2, <1>10, <2>1, <2>4, <2>5 DEF DestroySteps
  <2> QED BY <1>1, <1>10, <2>3, <2>4, <2>6, NoUndoFacts DEF DestroyEffect
<1> QED BY <1>3, <1>4, <1>5, <1>7, <1>8, <1>9, <1>10

\* A step of it keeps the invariant.
LEMMA DestroyKeeps ==
  ASSUME IInv, phase = "destroy", Exec(main) PROVE IInv'
<1>1. DestroyEffect
  BY Media, DestroyEffectVolatile, DestroyEffectPmem, DestroyEffectTx, Zenon
     DEF IInv
<1>2. /\ UNCHANGED <<cls, phase, th, rd, wr, expect, dirty, calls, fails,
                     starts>>
      /\ main \in Actor
  BY ExecIs, Zenon DEF IInv, Actor
<1>3. CallInv' BY ExecCalls DEF IInv, Actor
<1>4. /\ MemoryTypeOK' /\ DestroySteps'
      /\ \A c \in Elem : mem'[c] = mem[c] /\ may'[c] = may[c]
      /\ \A c \in Elem : Torn \in may[c] => c \in live' \ dying'
      /\ UNCHANGED <<vol, power>>
      /\ mem'[RootP] \in {mem[RootP], Zero} /\ mem'[RootP] \in may'[RootP]
      /\ cls.medium = "pmem" => may'[RootP] = {mem'[RootP]}
      /\ live' \subseteq live /\ fresh' = {}
      /\ intx' => cls.medium = "tx" /\ power = "up"
      /\ ~intx' => undo' = NoUndo /\ dying' = {}
      /\ DOMAIN undo \subseteq {RootP} /\ DOMAIN undo' \subseteq {RootP}
  BY <1>1 DEF DestroyEffect
<1>5. cls.medium = "tx" =>
        IF RootP \in DOMAIN undo' THEN undo'[RootP] = Back(RootP)
        ELSE /\ mem'[RootP] \in {Back(RootP), Zero}
             /\ may'[RootP] = {mem'[RootP]}
  BY <1>1 DEF DestroyEffect
<1>6. /\ ArrayP \in ArrayObject \cup {Zero}
      /\ Back(RootP) \in ArrayObject \cup {Zero}
      /\ ArrayP' \in {ArrayP, Zero} /\ ArrayP' \in ArrayObject \cup {Zero}
  BY <1>4 DEF IInv, ArraysOK, Back, ArrayP, RootP
<1>7. \A u \in Thread : th[u].pc = "idle" /\ ~Updating(u) /\ ~Updating(u)'
  BY <1>2 DEF IInv, CallInv, CallsServed, Quiet, Updating
<1>8. /\ \A c : Volatile(c)' = Volatile(c)
      /\ \A q : ElemCells(q)' = ElemCells(q)
  BY DEF Volatile, ElemCells
<1>9. Elem \subseteq Cell /\ RootP \notin Elem /\ Cell = {RootP} \cup Elem
  BY Cells
<1>10. MediumOK'
  <2>1. vol' = IF Volatile(cls') THEN Cell ELSE {}
    BY <1>2, <1>4 DEF IInv, MediumOK
  <2>2. \A c \in Cell : mem'[c] \in may'[c]
    BY <1>4, <1>9 DEF IInv, MediumOK
  <2>3. cls'.medium = "tx" =>
          \A c \in Cell \ DOMAIN undo' : may'[c] = {mem'[c]}
    BY <1>2, <1>4, <1>5, <1>9 DEF IInv, MediumOK
  <2>4. cls'.medium = "pmem" => may'[RootP] = {mem'[RootP]}
    BY <1>2, <1>4
  <2>5. power' = "up" BY <1>4 DEF IInv, CallInv, CallsServed
  <2> QED BY <1>8, <2>1, <2>2, <2>3, <2>4, <2>5 DEF MediumOK
<1>11. LogOK' BY <1>2, <1>4, <1>9 DEF LogOK
<1>12. ArraysOK'
  <2>1. RootP \in DOMAIN undo' => undo'[RootP] \in ArrayObject \cup {Zero}
    <3>1. CASE cls.medium = "tx" BY <1>5, <1>6, <3>1
    <3>2. CASE cls.medium # "tx" BY <1>4, <3>2, NoUndoFacts
    <3> QED BY <3>1, <3>2
  <2>2. \A q \in ArrayObject : q > starts' + 1 => ElemCells(q) \cap live' = {}
    BY <1>2, <1>4 DEF IInv, ArraysOK
  <2>3. phase' # "serve" /\ starts' <= cls'.bound.restarts
    BY <1>2 DEF IInv, ArraysOK
  <2> QED BY <1>6, <1>8, <2>1, <2>2, <2>3 DEF ArraysOK
<1>13. TornOK'
  <2>1. \A c \in Elem : Torn \in may'[c] => c \in live' \ (fresh' \cup dying')
    BY <1>4
  <2>2. ArrayP' # Zero => \A c \in ElemCells(ArrayP') : Torn \notin may'[c]
    <3> SUFFICES ASSUME ArrayP # Zero, NEW c \in ElemCells(ArrayP)
                 PROVE  Torn \notin may'[c]
      BY <1>6
    <3>1. c \in Elem BY <1>6, Cells
    <3>2. Torn \notin may[c] BY <1>7 DEF IInv, TornOK
    <3> QED BY <1>4, <3>1, <3>2
  <2> QED BY <1>2, <1>8, <2>1, <2>2 DEF TornOK
<1>14. StepsOK' BY <1>2, <1>4, <1>7 DEF StepsOK
<1>15. SlotsOK' BY <1>2 DEF SlotsOK
<1>16. ReadsSlot' /\ (KeysFit => ReadLegal)' /\ ScanWhole'
  BY <1>2, <1>7 DEF IInv, ReadsSlot, ReadLegal, ScanWhole, KeysFit, Offset
<1>17. ImageOK'
  <2> SUFFICES ASSUME starts = 0
               PROVE  /\ \A k \in Key : Absent \in expect[k]
                      /\ cls.medium = "pmem" /\ ArrayP' # Zero =>
                           \A k \in Key : \A x \in may'[Slot(k)'] :
                             \/ Written(k, x)
                             \/ x = Torn /\ Sharing(k) \cap dirty # {}
                      /\ cls.medium = "tx" /\ Back(RootP)' # Zero =>
                           \A k \in Key :
                             Written(k, Back(<<Back(RootP), Offset(k)>>)')
    BY <1>2 DEF ImageOK, Written, Shown, Sharing, Offset
  <2>1. ASSUME cls.medium = "pmem", ArrayP' # Zero, NEW k \in Key,
               NEW x \in may'[Slot(k)']
        PROVE  Written(k, x) \/ (x = Torn /\ Sharing(k) \cap dirty # {})
    <3>1. ArrayP' = ArrayP /\ ArrayP \in ArrayObject BY <1>6, <2>1
    <3>2. Slot(k)' = Slot(k) BY <3>1 DEF Slot
    <3>3. Slot(k) \in Elem BY <3>1, Slots, Cells DEF Slot
    <3>4. x \in may[Slot(k)] BY <1>4, <2>1, <3>2, <3>3
    <3> QED BY <2>1, <3>1, <3>4 DEF IInv, ImageOK
  <2>2. ASSUME cls.medium = "tx", Back(RootP)' # Zero, NEW k \in Key
        PROVE  Written(k, Back(<<Back(RootP), Offset(k)>>)')
    <3>1. Back(RootP)' = Back(RootP) /\ Back(RootP) \in ArrayObject
      BY <1>5, <1>6, <2>2 DEF Back, RootP
    <3>2. PICK q \in ArrayObject : q = Back(RootP) BY <3>1
    <3>3. <<q, Offset(k)>> \in Elem BY Slots, Cells
    <3>4. /\ <<q, Offset(k)>> \notin DOMAIN undo'
          /\ <<q, Offset(k)>> \notin DOMAIN undo
      BY <1>4, <1>9, <3>3
    <3>5. Back(<<Back(RootP), Offset(k)>>)' = mem'[<<q, Offset(k)>>]
      BY <3>1, <3>2, <3>4 DEF Back, Offset
    <3>6. Back(<<Back(RootP), Offset(k)>>) = mem[<<q, Offset(k)>>]
      BY <3>2, <3>4 DEF Back, Offset
    <3>7. q # Zero BY Contents
    <3>8. Written(k, Back(<<Back(RootP), Offset(k)>>))
      BY <2>2, <3>2, <3>7 DEF IInv, ImageOK
    <3> QED BY <1>4, <3>3, <3>5, <3>6, <3>8
  <2>3. \A k \in Key : Absent \in expect[k] BY DEF IInv, ImageOK
  <2> QED BY <2>1, <2>2, <2>3
<1> QED BY <1>3, <1>4, <1>10, <1>11, <1>12, <1>13, <1>14, <1>15, <1>16,
           <1>17 DEF IInv

-----------------------------------------------------------------------------
(***************************************************************************)
(* The initial state and a thread's call outside the lock.                 *)
(***************************************************************************)

\* init finds room for its array: one array per start has been allocated.
LEMMA NewArrayIs ==
  ASSUME NEW n \in Nat, n + 1 <= MaxArray,
         \A o \in ArrayObject : o > n => ElemCells(o) \cap live = {}
  PROVE  /\ NewArray \in ArrayObject /\ NewArray <= n + 1
         /\ ElemCells(NewArray) \cap live = {}
<1> DEFINE T == {o \in ArrayObject : ElemCells(o) \cap live = {}}
<1>1. n + 1 \in T BY ArrayAssumption DEF ArrayObject
<1>2. T \subseteq Nat BY ArrayAssumption DEF ArrayObject
<1> HIDE DEF T
<1>3. Min(T) \in T /\ Min(T) <= n + 1 BY <1>1, <1>2, MinMember
<1> QED BY <1>3 DEF NewArray, T

\* The program init starts with.
LEMMA InitPrograms ==
  ASSUME CallInv
  PROVE  LET E == ElemCells(NewArray) IN
    /\ Volatile(cls) => init = <<Al(E), St(RootP, NewArray)>>
    /\ cls.medium = "pmem" =>
         init = <<AlTo(E, RootP, NewArray), Fl(RootCells)>>
    /\ cls.medium = "tx" =>
         init = <<Bg, Sn(RootCells), TAl(E), St(RootP, NewArray), Cm>>
BY Media DEF init, array_dram_init, array_pmem_init, array_pmem_tx_init, RootP

LEMMA InitIInv == ArrayInit => IInv
<1> SUFFICES ASSUME ArrayInit PROVE IInv OBVIOUS
<1>1. CallInv BY InitCalls DEF ArrayInit
<1>2. /\ cls \in Classes /\ phase = "init" /\ starts = 0
      /\ th = [t \in Thread |-> Idle]
      /\ prog[main] = init
      /\ expect = [k \in Key |-> {Absent}]
      /\ mem = [c \in Cell |-> Zero] /\ may = [c \in Cell |-> {Zero}]
      /\ vol = (IF Volatile(cls) THEN Cell ELSE {})
      /\ live \subseteq RootCells /\ ~intx /\ intx \in BOOLEAN
      /\ undo = NoUndo /\ fresh = {}
      /\ dying = {} /\ power = "up"
  BY DEF ArrayInit, StoredsInit, PoolInit
<1>3. \A t \in Thread : th[t].pc = "idle" /\ th[t].seen = {}
  BY <1>2 DEF Idle
<1>4. MemoryTypeOK
  BY <1>2, ZeroAssumption, NoUndoFacts, Cells DEF MemoryTypeOK
<1>5. ArrayP = Zero /\ Back(RootP) = Zero
  BY <1>2, Cells, NoUndoFacts DEF ArrayP, Back, RootP
<1>6. \A o \in ArrayObject : ElemCells(o) \cap live = {}
  BY <1>2, Cells
<1>7. /\ NewArray \in ArrayObject /\ NewArray <= 1
      /\ ElemCells(NewArray) \cap live = {}
  BY <1>6, NewArrayIs, ArrayAssumption
<1>8. InitSteps(NewArray)
  <2>1. \A c \in ElemCells(NewArray) : Torn \notin may[c]
    BY <1>2, <1>7, Cells, Contents
  <2>2. NewArray <= starts + 1 BY <1>2, <1>7
  <2>3. PICK o : o = NewArray OBVIOUS
  <2>4. /\ Volatile(cls) => prog[main] = <<Al(ElemCells(o)), St(RootP, o)>>
        /\ cls.medium = "pmem" =>
             prog[main] = <<AlTo(ElemCells(o), RootP, o), Fl(RootCells)>>
        /\ cls.medium = "tx" =>
             prog[main] = <<Bg, Sn(RootCells), TAl(ElemCells(o)), St(RootP, o),
                            Cm>>
    BY <1>1, <1>2, <2>3, InitPrograms
  <2> QED BY <1>2, <1>7, <2>1, <2>2, <2>3, <2>4 DEF InitSteps
<1>9. MediumOK BY <1>2, Cells DEF MediumOK
<1>10. LogOK BY <1>2, NoUndoFacts DEF LogOK
<1>11. ArraysOK
  <2>1. cls.bound.restarts \in Nat BY <1>2, BoundAssumption
  <2> QED BY <1>2, <1>5, <1>6, <2>1, NoUndoFacts DEF ArraysOK
<1>12. TornOK BY <1>2, Cells, Contents DEF TornOK
<1>13. StepsOK BY <1>2, <1>3, <1>7, <1>8 DEF StepsOK, Updating
<1>14. SlotsOK BY <1>2 DEF SlotsOK
<1>15. ReadsSlot /\ (KeysFit => ReadLegal) /\ ScanWhole
  BY <1>3 DEF ReadsSlot, ReadLegal, ScanWhole
<1>16. ImageOK BY <1>2, <1>5, Cells DEF ImageOK
<1> QED BY <1>1, <1>4, <1>9, <1>10, <1>11, <1>12, <1>13, <1>14, <1>15, <1>16
        DEF IInv

\* Some key that shares the slot of k may show x after the step.
WrittenNext(k, x) == \E l \in Sharing(k) : Shown(x) \in expect'[l]

\* A step that leaves the memory alone.
LEMMA SameMemory ==
  ASSUME IInv, UNCHANGED <<pvars, cls>>
  PROVE  /\ MemoryTypeOK' /\ MediumOK'
         /\ UNCHANGED <<mem, may, vol, live, intx, undo, fresh, dying, power>>
         /\ ArrayP' = ArrayP /\ \A k : Slot(k)' = Slot(k)
         /\ Back(RootP)' = Back(RootP)
         /\ \A k : Back(<<Back(RootP), Offset(k)>>)'
                     = Back(<<Back(RootP), Offset(k)>>)
<1>1. UNCHANGED <<mem, may, vol, live, intx, undo, fresh, dying, power>>
  BY DEF pvars
<1>2. MemoryTypeOK' BY <1>1 DEF IInv, MemoryTypeOK
<1>3. MediumOK' BY <1>1 DEF IInv, MediumOK, Volatile
<1>4. ArrayP' = ArrayP /\ \A k : Slot(k)' = Slot(k)
  BY <1>1 DEF ArrayP, Slot
<1>5. /\ Back(RootP)' = Back(RootP)
      /\ \A k : Back(<<Back(RootP), Offset(k)>>)'
                  = Back(<<Back(RootP), Offset(k)>>)
  BY <1>1 DEF Back
<1> QED BY <1>1, <1>2, <1>3, <1>4, <1>5

\* A step of thread t before it has the lock, or after it has released it.
LEMMA OutsideKeeps ==
  ASSUME IInv, CallInv', NEW t \in Thread, NEW o,
         UNCHANGED <<pvars, cls, phase, prog, expect, dirty, starts>>,
         th' = [th EXCEPT ![t] = o],
         th[t].pc # "in", o.pc \notin {"in", "copy"},
         KeysFit /\ o.pc = "got" /\ o.op = "read" =>
           IF o.ptr = None \/ o.got = Zero THEN Absent \in o.legal
           ELSE o.got \in o.legal \cup {Torn},
         Torn \notin o.seen
  PROVE  IInv'
<1>1. th'[t] = o /\ \A u \in Thread \ {t} : th'[u] = th[u]
  BY DEF IInv, CallInv, CallTypeOK
<1>2. /\ MemoryTypeOK' /\ MediumOK'
      /\ UNCHANGED <<mem, may, vol, live, intx, undo, fresh, dying, power>>
      /\ ArrayP' = ArrayP /\ \A k : Slot(k)' = Slot(k)
      /\ Back(RootP)' = Back(RootP)
      /\ \A k : Back(<<Back(RootP), Offset(k)>>)'
                  = Back(<<Back(RootP), Offset(k)>>)
  BY SameMemory
<1>3. \A u \in Thread : /\ Updating(u)' <=> Updating(u)
                        /\ Updating(u) => u # t /\ th'[u] = th[u]
  BY <1>1 DEF Updating
<1>4. LogOK' BY <1>2, <1>3 DEF IInv, LogOK
<1>5. ArraysOK' BY <1>2 DEF IInv, ArraysOK, ElemCells
<1>6. TornOK'
  <2>1. \A c \in Elem : Torn \in may'[c] => c \in live' \ (fresh' \cup dying')
    BY <1>2 DEF IInv, TornOK
  <2>2. phase \in {"serve", "destroy"} /\ ArrayP # Zero =>
          \A c \in ElemCells(ArrayP) : Torn \in may'[c] =>
            \E u \in Thread : /\ Updating(u)' /\ prog'[u] # <<>>
                              /\ c = Slot(th'[u].key)
    <3> SUFFICES ASSUME phase \in {"serve", "destroy"}, ArrayP # Zero,
                        NEW c \in ElemCells(ArrayP), Torn \in may'[c]
                 PROVE  \E u \in Thread : /\ Updating(u)' /\ prog'[u] # <<>>
                                          /\ c = Slot(th'[u].key)
      OBVIOUS
    <3>1. PICK u \in Thread : /\ Updating(u) /\ prog[u] # <<>>
                              /\ c = Slot(th[u].key)
      BY <1>2 DEF IInv, TornOK
    <3> QED BY <1>3, <3>1
  <2> QED BY <1>2, <2>1, <2>2 DEF TornOK, ElemCells
<1>7. StepsOK'
  <2>1. phase = "init" => \E q \in ArrayObject : InitSteps(q)'
    BY <1>2 DEF IInv, StepsOK, InitSteps, Volatile
  <2>2. \A u \in Thread : Updating(u)' => WriteSteps(u)'
    <3> SUFFICES ASSUME NEW u \in Thread, Updating(u)' PROVE WriteSteps(u)'
      OBVIOUS
    <3>1. WriteSteps(u) /\ th'[u] = th[u] BY <1>3 DEF IInv, StepsOK
    <3>2. Slot(th[u].key)' = Slot(th[u].key) BY <1>2, <3>1
    <3> QED BY <1>2, <3>1, <3>2 DEF WriteSteps, Volatile
  <2>3. phase = "destroy" => DestroySteps'
    BY <1>2 DEF IInv, StepsOK, DestroySteps, Volatile
  <2> QED BY <2>1, <2>2, <2>3 DEF StepsOK
<1>8. SlotsOK' BY <1>2 DEF IInv, SlotsOK, Written, Shown, Sharing, Offset
<1>9. ReadsSlot' BY <1>1, <1>2 DEF IInv, ReadsSlot
<1>10. ImageOK' BY <1>2
    DEF IInv, ImageOK, Written, Shown, Sharing, Offset, Volatile
<1>11. (KeysFit => ReadLegal)'
  BY <1>1 DEF IInv, ReadLegal, KeysFit, Offset
<1>12. ScanWhole' BY <1>1 DEF IInv, ScanWhole
<1> QED BY <1>2, <1>4, <1>5, <1>6, <1>7, <1>8, <1>9, <1>10, <1>11, <1>12
        DEF IInv

\* A thread calls.
LEMMA CallKeeps ==
  ASSUME IInv, NEW t \in Thread, NEW k \in Key, NEW v \in Val \cup {0},
         NEW op \in {"insert", "update", "read", "scan"},
         op \in {"insert", "update"} => v \in Val,
         Call(t, op, k, v)
  PROVE  IInv'
<1> DEFINE o == [Idle EXCEPT !.pc = "want", !.op = op, !.key = k, !.val = v,
                             !.legal = expect[k]]
<1>1. StartCall(t, op, k, v) BY DEF Call
<1>2. CallInv' BY <1>1, StartCallCalls DEF IInv
<1>3. o.pc = "want" /\ o.seen = {} BY DEF Idle
<1>4. /\ th[t].pc = "idle" /\ th' = [th EXCEPT ![t] = o]
      /\ UNCHANGED <<pvars, cls, phase, prog, expect, dirty, starts>>
  BY <1>1 DEF StartCall
<1> HIDE DEF o
<1> QED BY <1>2, <1>3, <1>4, OutsideKeeps

\* The copy StoredsDB::Read makes after the lock has been released: the slot is
\* what was found, and it shows what the key may show, or is being overwritten.
LEMMA CopyOutKeeps ==
  ASSUME IInv, NEW t \in Thread, CopyOut(t) PROVE IInv'
<1> DEFINE s == Slot(th[t].key)
           o == [th[t] EXCEPT !.pc = "got", !.ret = ReadStatus(th[t]),
                              !.got = IF th[t].ptr = None THEN None
                                      ELSE mem[th[t].ptr]]
<1>1. /\ th[t].pc = "copy" /\ th' = [th EXCEPT ![t] = o]
      /\ UNCHANGED <<pvars, cls, phase, prog, expect, dirty, starts>>
  BY DEF CopyOut
<1>2. CallInv'
  <2>1. mem \in [Cell -> Value] BY DEF IInv, MemoryTypeOK
  <2> QED BY <2>1, CopyOutCalls DEF IInv
<1>3. /\ th[t].op = "read" /\ th[t].key \in Key /\ phase = "serve"
      /\ th[t].ptr = s /\ th[t] \in CallState
      /\ expect[th[t].key] \subseteq th[t].legal
      /\ Torn \notin th[t].seen
  BY <1>1 DEF IInv, CallInv, CallTypeOK, Asked, CallsServed, Quiet, ReadsSlot,
              LegalGrows, ScanWhole
<1>4. s # None
  <2>1. ArrayP \in ArrayObject BY <1>3 DEF IInv, ArraysOK
  <2>2. s \in Cell BY <1>3, <2>1, Slots, Cells DEF Slot
  <2> QED BY <2>2, ContentAssumption
<1>5. KeysFit => mem[s] = Torn \/ Shown(mem[s]) \in th[t].legal
  BY <1>3 DEF IInv, SlotsOK, Written, Sharing, KeysFit
<1>6. /\ o.pc = "got" /\ o.op = "read" /\ o.ptr = s /\ o.got = mem[s]
      /\ o.legal = th[t].legal /\ o.seen = th[t].seen
  BY <1>3, <1>4 DEF CallState
<1>7. KeysFit =>
        IF o.ptr = None \/ o.got = Zero THEN Absent \in o.legal
        ELSE o.got \in o.legal \cup {Torn}
  BY <1>4, <1>5, <1>6, Contents DEF Shown
<1> HIDE DEF o
<1> QED BY <1>1, <1>2, <1>3, <1>6, <1>7, OutsideKeeps

LEMMA ReturnKeeps == ASSUME IInv, NEW t \in Thread, Return(t) PROVE IInv'
<1>1. /\ th[t].pc = "got" /\ th' = [th EXCEPT ![t] = Idle]
      /\ UNCHANGED <<pvars, cls, phase, prog, expect, dirty, starts>>
  BY DEF Return
<1>2. Idle.pc = "idle" /\ Idle.seen = {} BY DEF Idle
<1>3. CallInv' BY ReturnCalls DEF IInv
<1> HIDE DEF Idle
<1> QED BY <1>1, <1>2, <1>3, OutsideKeeps

-----------------------------------------------------------------------------
(***************************************************************************)
(* The lock.                                                               *)
(***************************************************************************)

\* While no thread updates, there is no transaction and no torn buffer.
LEMMA NoneUpdating ==
  ASSUME IInv, phase = "serve",
         \A u \in Thread : Updating(u) => prog[u] = <<>> /\ ~intx
  PROVE  /\ ~intx /\ undo = NoUndo /\ fresh = {} /\ dying = {}
         /\ ArrayP \in ArrayObject /\ ArrayP # Zero
         /\ \A c \in ElemCells(ArrayP) : Torn \notin may[c] /\ mem[c] # Torn
         /\ \A k \in Key : /\ Slot(k) \in ElemCells(ArrayP)
                           /\ Slot(k) \in Cell
                           /\ mem[Slot(k)] # Torn
                           /\ Written(k, mem[Slot(k)])
<1>1. ~intx /\ undo = NoUndo /\ fresh = {} /\ dying = {}
  BY DEF IInv, LogOK
<1>2. ArrayP \in ArrayObject /\ ArrayP # Zero
  BY Contents DEF IInv, ArraysOK
<1>3. \A c \in ElemCells(ArrayP) : Torn \notin may[c]
  BY <1>2 DEF IInv, TornOK
<1>4. \A c \in ElemCells(ArrayP) : mem[c] # Torn
  BY <1>2, <1>3, Cells DEF IInv, MediumOK
<1>5. \A k \in Key : Slot(k) \in ElemCells(ArrayP) /\ Slot(k) \in Cell
  BY <1>2, Slots, Cells DEF Slot
<1> QED BY <1>1, <1>2, <1>3, <1>4, <1>5 DEF IInv, SlotsOK

\* The lock is taken for an insert, an update or a read.
LEMMA EnterKeeps ==
  ASSUME IInv, NEW t \in Thread, NEW p, NEW ptr, Enter(t, p, ptr),
         \/ /\ th[t].op \in {"insert", "update"} /\ ptr = None
            /\ p = write(th[t].key, th[t].val)
         \/ /\ th[t].op = "read" /\ ptr = Slot(th[t].key) /\ p = <<>>
  PROVE  IInv'
<1> DEFINE k == th[t].key  v == th[t].val  m == Mode(th[t].op)
           w == Writes(th[t].op, k)
           o == [th[t] EXCEPT !.pc = "in", !.ptr = ptr]
           g(u) == IF w /\ th[u].op = "read" /\ th[u].key = k
                   THEN [th[u] EXCEPT !.legal = @ \cup {v}] ELSE th[u]
<1>1. /\ th[t].pc = "want" /\ power = "up" /\ Available(m, t)
      /\ prog' = [prog EXCEPT ![t] = p]
      /\ expect' = IF w THEN [expect EXCEPT ![k] = @ \cup {v}] ELSE expect
      /\ dirty' = IF w THEN dirty \cup {k} ELSE dirty
      /\ th' = [u \in Thread |-> IF u = t THEN o ELSE g(u)]
      /\ UNCHANGED <<pvars, cls, phase, calls, fails, starts>>
  BY DEF Enter
<1>2. /\ phase = "serve" /\ k \in Key
      /\ \A u \in Thread : th[u] \in CallState
      /\ expect \in [Key -> SUBSET (Value \cup {Absent})]
      /\ prog = [a \in Actor |-> prog[a]]
  BY <1>1 DEF IInv, CallInv, CallTypeOK, CallsServed, Quiet, Asked
<1>3. \A u \in Thread : ~Updating(u) BY <1>1, LockExcludes
                                     DEF IInv, Updating
<1>4. /\ ~intx /\ undo = NoUndo /\ fresh = {} /\ dying = {}
      /\ ArrayP \in ArrayObject /\ ArrayP # Zero
      /\ \A c \in ElemCells(ArrayP) : Torn \notin may[c] /\ mem[c] # Torn
      /\ \A l \in Key : /\ Slot(l) \in ElemCells(ArrayP)
                        /\ Slot(l) \in Cell
                        /\ mem[Slot(l)] # Torn
                        /\ Written(l, mem[Slot(l)])
  BY <1>2, <1>3, NoneUpdating
<1>5. CallInv'
  <2>1. ptr \in Cell \cup {None} /\ (p # <<>> => th[t].op # "read")
    BY <1>2, <1>4
  <2>2. p # <<>> => th[t].op \in {"insert", "update"} OBVIOUS
  <2> QED BY <2>1, <2>2, EnterCalls DEF IInv
<1>6. /\ MemoryTypeOK' /\ MediumOK'
      /\ UNCHANGED <<mem, may, vol, live, intx, undo, fresh, dying, power>>
      /\ ArrayP' = ArrayP /\ \A l : Slot(l)' = Slot(l)
      /\ Back(RootP)' = Back(RootP)
      /\ \A l : Back(<<Back(RootP), Offset(l)>>)'
                  = Back(<<Back(RootP), Offset(l)>>)
  <2>1. UNCHANGED <<pvars, cls>> BY <1>1
  <2> QED BY <2>1, SameMemory
<1>7. /\ o.pc = "in" /\ o.op = th[t].op /\ o.key = k /\ o.val = v
      /\ o.ptr = ptr /\ o.seen = th[t].seen
  BY <1>2 DEF CallState
<1>8. \A u \in Thread :
        /\ g(u).pc = th[u].pc /\ g(u).op = th[u].op /\ g(u).key = th[u].key
        /\ g(u).ptr = th[u].ptr /\ g(u).got = th[u].got
        /\ g(u).seen = th[u].seen /\ th[u].legal \subseteq g(u).legal
  BY <1>2 DEF CallState
<1> HIDE DEF o, g
<1>9. th'[t] = o /\ \A u \in Thread \ {t} : th'[u] = g(u) BY <1>1
<1>10. \A u \in Thread : Updating(u)' <=>
                           u = t /\ th[t].op \in {"insert", "update"}
  BY <1>3, <1>7, <1>8, <1>9 DEF Updating
<1>11. /\ \A l \in Key : expect[l] \subseteq expect'[l]
       /\ dirty \subseteq dirty'
  BY <1>1, <1>2
<1>12. prog'[t] = p BY <1>1, <1>2 DEF Actor
<1>13. LogOK' BY <1>4, <1>6, NoUndoFacts DEF LogOK
<1>14. ArraysOK' BY <1>1, <1>6 DEF IInv, ArraysOK, ElemCells
<1>15. TornOK'
  BY <1>1, <1>4, <1>6 DEF IInv, TornOK, ElemCells
<1>16. StepsOK'
  <2>1. ASSUME th[t].op \in {"insert", "update"} PROVE WriteSteps(t)'
    <3>1. p = write(k, v) BY <2>1
    <3>2. PICK s : s = Slot(k) OBVIOUS
    <3>3. /\ Volatile(cls) => p = <<St(s, Torn), St(s, v)>>
          /\ cls.medium = "pmem" => p = <<St(s, Torn), St(s, v), Fl({s})>>
          /\ cls.medium = "tx" =>
               p = <<Bg, Sn({s}), St(s, Torn), St(s, v), Cm>>
      BY <3>1, <3>2, WritePrograms DEF IInv
    <3>4. p # <<>>
      <4>1. CASE Volatile(cls) BY <3>3, <4>1
      <4>2. CASE cls.medium = "pmem" BY <3>3, <4>2
      <4>3. CASE cls.medium = "tx" BY <3>3, <4>3
      <4> QED BY <4>1, <4>2, <4>3, Media DEF IInv
    <3>5. Slot(th[t].key)' = s /\ th'[t].val = v
      BY <1>6, <1>7, <1>9, <3>2
    <3>6. ~intx' /\ mem'[s] # Torn BY <1>2, <1>4, <1>6, <3>2
    <3>7. cls' = cls BY <1>1
    <3> QED BY <1>12, <3>3, <3>4, <3>5, <3>6, <3>7 DEF WriteSteps, Volatile
  <2> QED BY <1>1, <1>2, <1>10, <2>1 DEF StepsOK
<1>17. SlotsOK'
  BY <1>1, <1>4, <1>6, <1>11 DEF SlotsOK, Written, Shown, Sharing, Offset
<1>18. ReadsSlot'
  <2> SUFFICES ASSUME NEW u \in Thread, th'[u].op = "read",
                      th'[u].pc \in {"in", "copy"}
               PROVE  th'[u].ptr = Slot(th'[u].key)
    BY <1>6 DEF ReadsSlot
  <2>1. CASE u = t BY <1>7, <1>9, <2>1
  <2>2. CASE u # t BY <1>8, <1>9, <2>2 DEF IInv, ReadsSlot
  <2> QED BY <2>1, <2>2
<1>19. ImageOK'
  <2>1. cls' = cls /\ phase' = phase /\ starts' = starts BY <1>1
  <2>2. \A l : Sharing(l) \subseteq Key BY DEF Sharing
  <2>3. ASSUME NEW l \in Key, NEW x, Written(l, x) PROVE WrittenNext(l, x)
    BY <1>11, <2>2, <2>3 DEF Written, WrittenNext
  <2>4. \A l \in Key : \A x : Written(l, x) => Written(l, x)'
    BY <2>3 DEF Written, WrittenNext, Shown, Sharing, Offset
  <2>5. \A l \in Key : Sharing(l) \cap dirty \subseteq (Sharing(l) \cap dirty)'
    BY <1>11 DEF Sharing, Offset
  <2> QED BY <1>2, <1>6, <1>11, <2>1, <2>4, <2>5 DEF IInv, ImageOK, Volatile
<1>20. (KeysFit => ReadLegal)'
  <2> SUFFICES ASSUME KeysFit,
                      NEW u \in Thread, th'[u].pc = "got", th'[u].op = "read"
               PROVE  IF th'[u].ptr = None \/ th'[u].got = Zero
                      THEN Absent \in th'[u].legal
                      ELSE th'[u].got \in th'[u].legal \cup {Torn}
    BY DEF ReadLegal, KeysFit, Offset
  <2>1. u # t BY <1>7, <1>9
  <2> QED BY <1>8, <1>9, <2>1 DEF IInv, ReadLegal
<1>21. ScanWhole' BY <1>7, <1>8, <1>9 DEF IInv, ScanWhole
<1> QED BY <1>5, <1>6, <1>13, <1>14, <1>15, <1>16, <1>17, <1>18, <1>19, <1>20,
           <1>21 DEF IInv

\* A scan copies buffers of the array, none of them torn, and what lies behind.
LEMMA EnterScanKeeps ==
  ASSUME IInv, NEW t \in Thread, th[t].op = "scan", NEW len \in ScanLen,
         EnterScan(t, Scanned(th[t].key, len))
  PROVE  IInv'
<1> DEFINE k == th[t].key  values == Scanned(k, len)  m == Mode("scan")
           o == [th[t] EXCEPT !.pc = "in", !.seen = values]
<1>1. /\ th[t].pc = "want" /\ power = "up" /\ Available(m, t)
      /\ th' = [th EXCEPT ![t] = o]
      /\ UNCHANGED <<pvars, cls, phase, prog, expect, dirty, calls, fails,
                     starts>>
  BY DEF EnterScan
<1>2. /\ phase = "serve" /\ k \in Key /\ th[t] \in CallState
  BY <1>1 DEF IInv, CallInv, CallTypeOK, CallsServed, Quiet, Asked
<1>3. \A u \in Thread : ~Updating(u) BY <1>1, LockExcludes DEF IInv, Updating
<1>4. /\ ArrayP \in ArrayObject
      /\ \A c \in ElemCells(ArrayP) : mem[c] # Torn /\ mem[c] \in Value
  BY <1>2, <1>3, NoneUpdating, Cells DEF IInv, MemoryTypeOK
<1>5. values \in SUBSET Value /\ Torn \notin values
  <2> SUFFICES ASSUME NEW x \in values PROVE x \in Value /\ x # Torn
    OBVIOUS
  <2>1. PICK i \in 0..(ARRAY_SIZE - 1) :
          x = IF Offset(k) + i < ARRAY_SIZE THEN mem[<<ArrayP, Offset(k) + i>>]
              ELSE Beyond
    BY DEF Scanned
  <2>2. Offset(k) \in Nat /\ ARRAY_SIZE \in Nat
    <3>1. k \in Nat /\ ARRAY_SIZE \in Nat \ {0}
      BY <1>2, StoredsAssumption, ArrayAssumption
    <3>2. k % ARRAY_SIZE \in 0..(ARRAY_SIZE - 1) BY <3>1
    <3> QED BY <3>1, <3>2 DEF Offset
  <2>3. CASE Offset(k) + i < ARRAY_SIZE
    <3>1. Offset(k) + i \in 0..(ARRAY_SIZE - 1) BY <2>2, <2>3
    <3>2. <<ArrayP, Offset(k) + i>> \in ElemCells(ArrayP)
      BY <3>1 DEF ElemCells
    <3> QED BY <1>4, <2>1, <2>3, <3>2
  <2>4. CASE ~(Offset(k) + i < ARRAY_SIZE) BY <2>1, <2>4, Contents
  <2> QED BY <2>3, <2>4
<1>6. CallInv' BY <1>5, EnterScanCalls DEF IInv
<1>7. o.pc = "in" /\ o.op = "scan" /\ o.seen = values /\ o.key = k
  BY <1>2 DEF CallState
<1> HIDE DEF o, values
<1>8. th'[t] = o /\ \A u \in Thread \ {t} : th'[u] = th[u]
  BY <1>1 DEF IInv, CallInv, CallTypeOK
<1>9. \A u \in Thread : ~Updating(u)' BY <1>3, <1>7, <1>8 DEF Updating
<1>10. /\ MemoryTypeOK' /\ MediumOK'
       /\ UNCHANGED <<mem, may, vol, live, intx, undo, fresh, dying, power>>
       /\ ArrayP' = ArrayP /\ \A l : Slot(l)' = Slot(l)
       /\ Back(RootP)' = Back(RootP)
       /\ \A l : Back(<<Back(RootP), Offset(l)>>)'
                   = Back(<<Back(RootP), Offset(l)>>)
  <2>1. UNCHANGED <<pvars, cls>> BY <1>1
  <2> QED BY <2>1, SameMemory
<1>11. LogOK'
  <2>1. ~intx /\ undo = NoUndo /\ fresh = {} /\ dying = {}
    BY <1>2, <1>3, NoneUpdating
  <2> QED BY <1>10, <2>1, NoUndoFacts DEF LogOK
<1>12. ArraysOK' BY <1>1, <1>10 DEF IInv, ArraysOK, ElemCells
<1>13. TornOK'
  <2>1. \A c \in ElemCells(ArrayP) : Torn \notin may[c]
    BY <1>2, <1>3, NoneUpdating
  <2> QED BY <1>10, <2>1 DEF IInv, TornOK, ElemCells
<1>14. StepsOK' BY <1>1, <1>2, <1>9 DEF StepsOK
<1>15. SlotsOK' BY <1>1, <1>10
    DEF IInv, SlotsOK, Written, Shown, Sharing, Offset
<1>16. ReadsSlot' BY <1>7, <1>8, <1>10 DEF IInv, ReadsSlot
<1>17. ImageOK' BY <1>1, <1>10
    DEF IInv, ImageOK, Written, Shown, Sharing, Offset, Volatile
<1>18. (KeysFit => ReadLegal)'
  BY <1>7, <1>8 DEF IInv, ReadLegal, KeysFit, Offset
<1>19. ScanWhole' BY <1>5, <1>7, <1>8 DEF IInv, ScanWhole
<1> QED BY <1>6, <1>10, <1>11, <1>12, <1>13, <1>14, <1>15, <1>16, <1>17, <1>18,
           <1>19 DEF IInv

\* The unlock: whoever updated has performed all its steps, and its value is
\* what the slot shows, also on the medium.
LEMMA LeaveKeeps == ASSUME IInv, NEW t \in Thread, Leave(t) PROVE IInv'
<1> DEFINE k == th[t].key  v == th[t].val  w == Writes(th[t].op, k)
           o == CASE th[t].op = "read" -> [th[t] EXCEPT !.pc = "copy"]
                  [] th[t].op = "scan" -> [th[t] EXCEPT !.pc = "got"]
                  [] OTHER -> Idle
<1>1. /\ th[t].pc = "in" /\ power = "up" /\ prog[t] = <<>>
      /\ expect' = IF w THEN [expect EXCEPT ![k] = {v}] ELSE expect
      /\ dirty' = dirty \ {k}
      /\ th' = [th EXCEPT ![t] = o]
      /\ UNCHANGED <<pvars, cls, phase, prog, calls, fails, starts>>
  BY DEF Leave
<1>2. CallInv' BY LeaveCalls DEF IInv
<1>3. /\ phase = "serve" /\ k \in Key /\ th[t] \in CallState
      /\ expect \in [Key -> SUBSET (Value \cup {Absent})]
      /\ Torn \notin th[t].seen
  BY <1>1 DEF IInv, CallInv, CallTypeOK, CallsServed, Quiet, Asked, ScanWhole
<1>4. w <=> Updating(t)
  BY <1>1, Media DEF IInv, Writes, Updating
<1>5. \A u \in Thread \ {t} : ~Updating(u)
  BY <1>1 DEF IInv, CallInv, Excluded, Updating
<1>6. ASSUME Updating(t)
      PROVE  /\ v \in Val /\ mem[Slot(k)] = v /\ may[Slot(k)] = {v} /\ ~intx
  <2>1. WriteSteps(t) BY <1>6 DEF IInv, StepsOK
  <2>2. v \in Val BY <1>6, WriteSlot
  <2>3. ~intx
    <3>1. CASE cls.medium = "tx"
      <4>1. ~Volatile(cls) /\ cls.medium # "pmem" BY <3>1, Media DEF IInv
      <4> QED BY <1>1, <2>1, <3>1, <4>1 DEF WriteSteps
    <3>2. CASE cls.medium # "tx" BY <3>2 DEF IInv, LogOK
    <3> QED BY <3>1, <3>2
  <2> QED BY <1>1, <2>1, <2>2, <2>3 DEF WriteSteps
<1>7. \A u \in Thread : Updating(u) => prog[u] = <<>> /\ ~intx
  BY <1>1, <1>5, <1>6
<1>8. /\ ~intx /\ undo = NoUndo /\ fresh = {} /\ dying = {}
      /\ ArrayP \in ArrayObject /\ ArrayP # Zero
      /\ \A c \in ElemCells(ArrayP) : Torn \notin may[c] /\ mem[c] # Torn
      /\ \A l \in Key : /\ Slot(l) \in ElemCells(ArrayP)
                        /\ Slot(l) \in Cell
                        /\ mem[Slot(l)] # Torn
                        /\ Written(l, mem[Slot(l)])
  BY <1>3, <1>7, NoneUpdating, Zenon
<1>9. /\ MemoryTypeOK' /\ MediumOK'
      /\ UNCHANGED <<mem, may, vol, live, intx, undo, fresh, dying, power>>
      /\ ArrayP' = ArrayP /\ \A l : Slot(l)' = Slot(l)
      /\ Back(RootP)' = Back(RootP)
      /\ \A l : Back(<<Back(RootP), Offset(l)>>)'
                  = Back(<<Back(RootP), Offset(l)>>)
  <2>1. UNCHANGED <<pvars, cls>> BY <1>1
  <2> QED BY <2>1, SameMemory
<1>10. /\ o.pc # "in" /\ Torn \notin o.seen
       /\ (o.pc = "copy" => th[t].op = "read" /\ o.ptr = th[t].ptr
                            /\ o.key = k)
       /\ (o.pc = "got" => o.op = "scan")
  BY <1>3 DEF CallState, Idle
<1>11. \A l \in Key : IF l = k /\ Updating(t) THEN expect'[l] = {v}
                      ELSE expect'[l] = expect[l]
  BY <1>1, <1>3, <1>4
<1> HIDE DEF o, w
<1>12. th'[t] = o /\ \A u \in Thread \ {t} : th'[u] = th[u]
  BY <1>1 DEF IInv, CallInv, CallTypeOK
<1>13. \A u \in Thread : ~Updating(u)' BY <1>5, <1>10, <1>12 DEF Updating
<1>14. LogOK' BY <1>8, <1>9, NoUndoFacts DEF LogOK
<1>15. ArraysOK' BY <1>1, <1>9 DEF IInv, ArraysOK, ElemCells
<1>16. TornOK' BY <1>8, <1>9 DEF IInv, TornOK, ElemCells
<1>17. StepsOK' BY <1>1, <1>3, <1>13 DEF StepsOK
<1>a. ASSUME NEW l \in Key, Updating(t), k \in Sharing(l)
      PROVE  /\ mem[Slot(l)] = v /\ may[Slot(l)] = {v}
             /\ WrittenNext(l, v)
  <2>1. Slot(l) = Slot(k) BY <1>a DEF Slot, Sharing
  <2> QED BY <1>3, <1>6, <1>11, <1>a, <2>1, Contents DEF WrittenNext
<1>b. ASSUME NEW l \in Key, NEW x, Written(l, x),
             ~(Updating(t) /\ k \in Sharing(l))
      PROVE  WrittenNext(l, x)
  <2>1. PICK i \in Sharing(l) : Shown(x) \in expect[i] BY <1>b DEF Written
  <2>2. i \in Key BY DEF Sharing
  <2> QED BY <1>11, <1>b, <2>1, <2>2 DEF WrittenNext
<1>18. \A l \in Key : WrittenNext(l, mem[Slot(l)]) BY <1>8, <1>a, <1>b
<1>19. SlotsOK' BY <1>9, <1>18
                DEF SlotsOK, Written, WrittenNext, Shown, Sharing, Offset
<1>20. ReadsSlot' BY <1>1, <1>9, <1>10, <1>12 DEF IInv, ReadsSlot
<1>21. ImageOK'
  <2> SUFFICES ASSUME starts = 0
               PROVE  /\ Back(RootP) # Zero
                      /\ cls.medium = "pmem" =>
                           \A l \in Key : \A x \in may[Slot(l)] :
                             WrittenNext(l, x)
                      /\ cls.medium = "tx" =>
                           \A l \in Key :
                             WrittenNext(l, Back(<<Back(RootP), Offset(l)>>))
    BY <1>1, <1>3, <1>9
       DEF ImageOK, Written, WrittenNext, Shown, Sharing, Offset
  <2>1. Back(RootP) = ArrayP /\ \A l \in Key : Back(Slot(l)) = mem[Slot(l)]
    BY <1>8, NoUndoFacts DEF Back, ArrayP, RootP
  <2>2. \A l \in Key : Back(<<Back(RootP), Offset(l)>>) = mem[Slot(l)]
    BY <2>1 DEF Slot
  <2>3. ASSUME cls.medium = "pmem", NEW l \in Key, NEW x \in may[Slot(l)]
        PROVE  WrittenNext(l, x)
    <3>1. x # Torn BY <1>8, <2>3
    <3>2. Written(l, x) BY <1>8, <2>3, <3>1 DEF IInv, ImageOK
    <3> QED BY <1>a, <1>b, <2>3, <3>2
  <2> QED BY <1>8, <1>18, <2>1, <2>2, <2>3
<1>22. (KeysFit => ReadLegal)'
  BY <1>10, <1>12 DEF IInv, ReadLegal, KeysFit, Offset
<1>23. ScanWhole' BY <1>10, <1>12 DEF IInv, ScanWhole
<1> QED BY <1>2, <1>9, <1>14, <1>15, <1>16, <1>17, <1>19, <1>20, <1>21, <1>22,
           <1>23 DEF IInv

-----------------------------------------------------------------------------
(***************************************************************************)
(* main: from init to serve, and from serve to destroy.                    *)
(***************************************************************************)
LEMMA InitDoneKeeps ==
  ASSUME IInv, InitDone([k \in Key |-> Find(k)]) PROVE IInv'
<1>1. /\ phase = "init" /\ power = "up" /\ prog[main] = <<>>
      /\ phase' = "serve"
      /\ expect' = [k \in Key |-> {Find(k)}] /\ dirty' = {}
      /\ UNCHANGED <<pvars, cls, th, prog, rd, wr, calls, fails, starts>>
  BY DEF InitDone
<1>2. PICK o \in ArrayObject : InitSteps(o) BY <1>1 DEF IInv, StepsOK
<1>3. /\ ElemCells(o) \subseteq live /\ ArrayP = o /\ ~intx
      /\ \A c \in ElemCells(o) : Torn \notin may[c]
  <2>1. CASE Volatile(cls)
    <3>1. cls.medium # "tx" BY <2>1, Media DEF IInv
    <3> QED BY <1>1, <1>2, <2>1, <3>1 DEF InitSteps, IInv, LogOK
  <2>2. CASE cls.medium = "pmem"
    BY <1>1, <1>2, <2>2 DEF InitSteps, IInv, LogOK
  <2>3. CASE cls.medium = "tx"
    BY <1>1, <1>2, <2>3 DEF InitSteps
  <2> QED BY <2>1, <2>2, <2>3, Media DEF IInv
<1>4. undo = NoUndo /\ fresh = {} /\ dying = {} BY <1>3 DEF IInv, LogOK
<1>5. ArrayP \in ArrayObject /\ ArrayP # Zero BY <1>3, Contents
<1>6. \A k \in Key : /\ Slot(k) \in ElemCells(ArrayP) /\ Slot(k) \in Elem
                     /\ Slot(k) \in Cell
                     /\ Find(k) = Shown(mem[Slot(k)])
                     /\ Find(k) \in Value \cup {Absent}
  <2> TAKE k \in Key
  <2>1. Slot(k) \in ElemCells(ArrayP) /\ Slot(k) \in Elem /\ Slot(k) \in Cell
    BY <1>5, Slots, Cells DEF Slot
  <2>2. Find(k) = Shown(mem[Slot(k)]) BY <1>5 DEF Find, Shown
  <2>3. mem[Slot(k)] \in Value BY <2>1 DEF IInv, MemoryTypeOK
  <2> QED BY <2>1, <2>2, <2>3, Contents
<1>7. CallInv'
  <2>1. [k \in Key |-> Find(k)] \in [Key -> Value \cup {Absent}] BY <1>6
  <2> QED BY <2>1, InitDoneCalls DEF IInv
<1>8. /\ MemoryTypeOK' /\ MediumOK'
      /\ UNCHANGED <<mem, may, vol, live, intx, undo, fresh, dying, power>>
      /\ ArrayP' = ArrayP /\ \A l : Slot(l)' = Slot(l)
      /\ Back(RootP)' = Back(RootP)
      /\ \A l : Back(<<Back(RootP), Offset(l)>>)'
                  = Back(<<Back(RootP), Offset(l)>>)
  <2>1. UNCHANGED <<pvars, cls>> BY <1>1
  <2> QED BY <2>1, SameMemory
<1>9. \A u \in Thread : th[u].pc = "idle" /\ ~Updating(u)'
  BY <1>1 DEF IInv, CallInv, CallsServed, Quiet, Updating
<1>10. LogOK' BY <1>3, <1>4, <1>8, NoUndoFacts DEF LogOK
<1>11. ArraysOK'
  BY <1>1, <1>3, <1>4, <1>5, <1>8 DEF IInv, ArraysOK, ElemCells
<1>12. TornOK' BY <1>3, <1>8 DEF IInv, TornOK, ElemCells
<1>13. StepsOK' BY <1>1, <1>9 DEF StepsOK
<1>14. \A k \in Key : WrittenNext(k, mem[Slot(k)])
  BY <1>1, <1>6 DEF WrittenNext, Sharing
<1>15. SlotsOK' BY <1>8, <1>14
                DEF SlotsOK, Written, WrittenNext, Shown, Sharing, Offset
<1>16. ReadsSlot' /\ (KeysFit => ReadLegal)' /\ ScanWhole'
  BY <1>1, <1>9 DEF IInv, ReadsSlot, ReadLegal, ScanWhole, KeysFit, Offset
<1>17. ImageOK'
  <2> SUFFICES ASSUME starts = 0
               PROVE  /\ Back(RootP) # Zero
                      /\ \A l \in Key : \A x \in may[Slot(l)] :
                           WrittenNext(l, x)
                      /\ \A l \in Key :
                           WrittenNext(l, Back(<<Back(RootP), Offset(l)>>))
    BY <1>1, <1>8 DEF ImageOK, Written, WrittenNext, Shown, Sharing, Offset
  <2>1. Back(RootP) = ArrayP /\ \A l \in Key : Back(Slot(l)) = mem[Slot(l)]
    BY <1>4, NoUndoFacts DEF Back, ArrayP, RootP
  <2>2. \A l \in Key : Back(<<Back(RootP), Offset(l)>>) = mem[Slot(l)]
    BY <2>1 DEF Slot
  <2>3. ASSUME NEW l \in Key, NEW x \in may[Slot(l)]
        PROVE  WrittenNext(l, x)
    <3>1. may[Slot(l)] = {Zero} BY <1>1, <1>6 DEF IInv, ImageOK
    <3>2. mem[Slot(l)] = x BY <1>6, <2>3, <3>1 DEF IInv, MediumOK
    <3> QED BY <1>14, <3>2
  <2> QED BY <1>5, <1>14, <2>1, <2>2, <2>3
<1> QED BY <1>7, <1>8, <1>10, <1>11, <1>12, <1>13, <1>15, <1>16, <1>17
        DEF IInv

LEMMA DestroyCallKeeps == ASSUME IInv, Destroy(destroy) PROVE IInv'
<1>1. /\ phase = "serve" /\ power = "up" /\ Quiet /\ phase' = "destroy"
      /\ prog' = [prog EXCEPT ![main] = destroy]
      /\ expect' = [k \in Key |-> expect[k] \cup {Absent}]
      /\ UNCHANGED <<pvars, cls, th, rd, wr, dirty, calls, fails, starts>>
  BY DEF Destroy
<1>2. CallInv' BY DestroyCalls DEF IInv
<1>3. \A u \in Thread : th[u].pc = "idle" /\ ~Updating(u) /\ ~Updating(u)'
  BY <1>1 DEF Quiet, Updating
<1>4. /\ ~intx /\ undo = NoUndo /\ fresh = {} /\ dying = {}
      /\ ArrayP \in ArrayObject /\ ArrayP # Zero
      /\ \A c \in ElemCells(ArrayP) : Torn \notin may[c] /\ mem[c] # Torn
  BY <1>1, <1>3, NoneUpdating, Zenon
<1>5. /\ MemoryTypeOK' /\ MediumOK'
      /\ UNCHANGED <<mem, may, vol, live, intx, undo, fresh, dying, power>>
      /\ ArrayP' = ArrayP /\ \A l : Slot(l)' = Slot(l)
      /\ Back(RootP)' = Back(RootP)
      /\ \A l : Back(<<Back(RootP), Offset(l)>>)'
                  = Back(<<Back(RootP), Offset(l)>>)
  <2>1. UNCHANGED <<pvars, cls>> BY <1>1
  <2> QED BY <2>1, SameMemory
<1>6. prog'[main] = destroy
  BY <1>1 DEF IInv, CallInv, CallTypeOK, Actor
<1>7. LogOK' BY <1>4, <1>5, NoUndoFacts DEF LogOK
<1>8. ArraysOK' BY <1>1, <1>5 DEF IInv, ArraysOK, ElemCells
<1>9. TornOK' BY <1>4, <1>5 DEF IInv, TornOK, ElemCells
<1>10. StepsOK'
  <2> DEFINE E == ElemCells(ArrayP)
  <2>1. /\ Volatile(cls) => destroy = <<Fr(E)>>
        /\ cls.medium = "pmem" =>
             destroy = <<FrIn(E, RootP), St(RootP, Zero), Fr(RootCells)>>
        /\ cls.medium = "tx" =>
             destroy = <<Bg, Sn(RootCells), TFr(E), St(RootP, Zero),
                         TFr(RootCells), Cm>>
    BY Media DEF IInv, destroy, array_dram_destroy, array_pmem_destroy,
                 array_pmem_tx_destroy, RootP
  <2>2. ElemCells(ArrayP)' = E BY <1>5 DEF ElemCells
  <2>3. RootP' = RootP /\ RootCells' = RootCells /\ cls' = cls
    BY <1>1 DEF RootP, RootCells
  <2>4. DestroySteps'
    BY <1>4, <1>5, <1>6, <2>1, <2>2, <2>3 DEF DestroySteps, Volatile
  <2> QED BY <1>1, <1>3, <2>4 DEF StepsOK
<1>11. SlotsOK' BY <1>1 DEF SlotsOK
<1>12. ReadsSlot' /\ (KeysFit => ReadLegal)' /\ ScanWhole'
  BY <1>1, <1>3 DEF IInv, ReadsSlot, ReadLegal, ScanWhole, KeysFit, Offset
<1>13. ImageOK'
  <2>1. \A k \in Key : Absent \in expect'[k] /\ expect[k] \subseteq expect'[k]
    BY <1>1
  <2>2. cls' = cls /\ starts' = starts /\ phase' # "init" /\ dirty' = dirty
    BY <1>1
  <2> QED BY <1>5, <2>1, <2>2
      DEF IInv, ImageOK, Written, Shown, Sharing, Offset, Volatile
<1> QED BY <1>2, <1>5, <1>7, <1>8, <1>9, <1>10, <1>11, <1>12, <1>13 DEF IInv

-----------------------------------------------------------------------------
(***************************************************************************)
(* Failures, and the next process.                                         *)
(***************************************************************************)

\* The process ends, by a power failure, by its own doing or after destroy:
\* the pool is as the log and the written back lines leave it.
LEMMA FailKeeps ==
  ASSUME IInv, CallInv', NEW how \in {"failed", "exited"}, Fail(how),
         phase' \in {"closed", "down"},
         UNCHANGED <<cls, expect, dirty, starts>>,
         \A u \in Thread : th'[u].pc = "idle" /\ Torn \notin th'[u].seen
  PROVE  IInv'
<1>1. /\ mem' = [c \in Cell |-> AfterExit(c)]
      /\ may' = [c \in Cell |-> AfterFailure(c)]
      /\ live' = (live \ fresh) \ vol
      /\ ~intx' /\ undo' = NoUndo /\ fresh' = {} /\ dying' = {}
      /\ vol' = vol /\ power' = how
  BY DEF Fail
<1>2. MemoryTypeOK' BY FailTypes DEF IInv
<1>3. ASSUME Volatile(cls)
      PROVE  \A c \in Cell : mem'[c] = Zero /\ may'[c] = {Zero}
  BY <1>1, <1>3 DEF IInv, MediumOK, AfterExit, AfterFailure
<1>4. ASSUME ~Volatile(cls)
      PROVE  /\ \A c \in Cell : mem'[c] = Back(c)
             /\ \A c \in Cell \ DOMAIN undo : may'[c] = may[c]
             /\ \A c \in Cell \cap DOMAIN undo : may'[c] = {undo[c]}
             /\ live' = live \ fresh
  BY <1>1, <1>4 DEF IInv, MediumOK, AfterExit, AfterFailure, Back
<1>5. RootP \in Cell /\ Elem \subseteq Cell /\ Cell = {RootP} \cup Elem
      /\ RootP \notin Elem
  BY Cells
<1>6. \A c \in Cell : mem'[c] \in may'[c]
  <2>1. CASE Volatile(cls) BY <1>3, <2>1
  <2>2. CASE ~Volatile(cls) BY <1>4, <2>2 DEF IInv, MediumOK, Back
  <2> QED BY <2>1, <2>2
<1>7. MediumOK'
  <2>1. vol' = IF Volatile(cls) THEN Cell ELSE {}
    BY <1>1 DEF IInv, MediumOK
  <2>2. cls.medium = "tx" => \A c \in Cell : may'[c] = {mem'[c]}
    <3> SUFFICES ASSUME cls.medium = "tx"
                 PROVE  \A c \in Cell : may'[c] = {mem'[c]}
      OBVIOUS
    <3>1. ~Volatile(cls) BY DEF Volatile
    <3> QED BY <1>4, <3>1 DEF IInv, MediumOK, Back
  <2>3. cls.medium = "pmem" => may'[RootP] = {mem'[RootP]}
    <3> SUFFICES ASSUME cls.medium = "pmem" PROVE may'[RootP] = {mem'[RootP]}
      OBVIOUS
    <3>1. ~Volatile(cls) /\ undo = NoUndo BY DEF Volatile, IInv, LogOK
    <3> QED BY <1>4, <1>5, <3>1, NoUndoFacts DEF IInv, MediumOK, Back
  <2> QED BY <1>3, <1>6, <2>1, <2>2, <2>3 DEF MediumOK, Volatile
<1>8. LogOK' BY <1>1, NoUndoFacts DEF LogOK
<1>9. ArrayP' \in ArrayObject \cup {Zero}
  <2>1. ArrayP' = mem'[RootP] /\ ArrayP = mem[RootP] BY DEF ArrayP, RootP
  <2>2. CASE Volatile(cls) BY <1>3, <1>5, <2>1, <2>2
  <2>3. CASE ~Volatile(cls)
    BY <1>4, <1>5, <2>1, <2>3 DEF IInv, ArraysOK, Back
  <2> QED BY <2>2, <2>3
<1>10. ArraysOK'
  BY <1>1, <1>9, NoUndoFacts DEF IInv, ArraysOK, ElemCells
<1>11. TornOK'
  <2> SUFFICES ASSUME NEW c \in Elem, Torn \in may'[c]
               PROVE  c \in live' \ (fresh' \cup dying')
    BY DEF TornOK
  <2>1. ~Volatile(cls) BY <1>3, <1>5, Contents
  <2>2. c \notin DOMAIN undo
    BY <1>4, <1>5, <2>1 DEF IInv, LogOK
  <2>3. c \in live \ (fresh \cup dying)
    BY <1>4, <1>5, <2>1, <2>2 DEF IInv, TornOK
  <2> QED BY <1>1, <1>4, <2>1, <2>3
<1>12. \A u \in Thread : ~Updating(u)' BY DEF Updating
<1>13. StepsOK' BY <1>12 DEF StepsOK
<1>14. SlotsOK' BY DEF SlotsOK
<1>15. ReadsSlot' /\ (KeysFit => ReadLegal)' /\ ScanWhole'
  BY DEF ReadsSlot, ReadLegal, ScanWhole
<1>16. ImageOK'
  <2> SUFFICES ASSUME starts = 0, ~Volatile(cls)
               PROVE  /\ Back(RootP)' = Zero =>
                           \A k \in Key : Absent \in expect[k]
                      /\ cls.medium = "pmem" /\ ArrayP' # Zero =>
                           \A k \in Key : \A x \in may'[Slot(k)'] :
                             \/ Written(k, x)
                             \/ x = Torn /\ Sharing(k) \cap dirty # {}
                      /\ cls.medium = "tx" /\ Back(RootP)' # Zero =>
                           \A k \in Key :
                             Written(k, Back(<<Back(RootP), Offset(k)>>)')
    BY DEF ImageOK, Written, Shown, Sharing, Offset, Volatile
  <2>1. \A c : Back(c)' = mem'[c] BY <1>1, NoUndoFacts DEF Back
  <2>2. \A c \in Cell : Back(c)' = Back(c) BY <1>4, <2>1
  <2>3. Back(RootP)' = Back(RootP) BY <1>5, <2>2
  <2>4. ASSUME cls.medium = "pmem", ArrayP' # Zero, NEW k \in Key,
               NEW x \in may'[Slot(k)']
        PROVE  Written(k, x) \/ (x = Torn /\ Sharing(k) \cap dirty # {})
    <3>1. undo = NoUndo BY <2>4 DEF IInv, LogOK
    <3>2. \A c \in Cell : mem'[c] = mem[c] /\ may'[c] = may[c]
      BY <1>4, <3>1, NoUndoFacts DEF Back
    <3>3. ArrayP' = ArrayP /\ ArrayP \in ArrayObject
      BY <1>5, <1>9, <2>4, <3>2 DEF ArrayP, RootP
    <3>4. Slot(k)' = Slot(k) /\ Slot(k) \in Cell
      BY <3>3, Slots, Cells DEF Slot
    <3>5. x \in may[Slot(k)] BY <2>4, <3>2, <3>4
    <3> QED BY <2>4, <3>3, <3>5 DEF IInv, ImageOK
  <2>5. ASSUME cls.medium = "tx", Back(RootP)' # Zero, NEW k \in Key
        PROVE  Written(k, Back(<<Back(RootP), Offset(k)>>)')
    <3>1. Back(RootP) \in ArrayObject
      BY <2>3, <2>5 DEF IInv, ArraysOK, Back, ArrayP, RootP
    <3>2. PICK q \in ArrayObject : q = Back(RootP) BY <3>1
    <3>3. <<q, Offset(k)>> \in Cell BY Slots, Cells
    <3>4. Back(<<Back(RootP), Offset(k)>>)' = mem'[<<q, Offset(k)>>]
      BY <2>1, <2>3, <3>2 DEF Back, Offset
    <3>5. mem'[<<q, Offset(k)>>] = Back(<<q, Offset(k)>>)
      BY <1>4, <3>3
    <3>6. Written(k, Back(<<Back(RootP), Offset(k)>>))
      BY <2>3, <2>5 DEF IInv, ImageOK
    <3> QED BY <3>2, <3>4, <3>5, <3>6
  <2> QED BY <2>3, <2>4, <2>5 DEF IInv, ImageOK
<1> QED BY <1>2, <1>7, <1>8, <1>10, <1>11, <1>13, <1>14, <1>15, <1>16 DEF IInv

LEMMA CloseKeeps == ASSUME IInv, Close PROVE IInv'
<1>1. /\ Fail("exited") /\ phase = "destroy" /\ phase' = "closed"
      /\ UNCHANGED <<cls, th, expect, dirty, starts>>
  BY DEF Close, ProcessExit
<1>2. \A u \in Thread : th'[u].pc = "idle" /\ Torn \notin th'[u].seen
  BY <1>1 DEF IInv, CallInv, CallsServed, Quiet, ScanWhole
<1>3. CallInv' BY CloseCalls DEF IInv
<1> QED BY <1>1, <1>2, <1>3, FailKeeps

LEMMA CrashKeeps == ASSUME IInv, Crash PROVE IInv'
<1>1. /\ Fail("failed") /\ phase' = "down"
      /\ th' = [t \in Thread |-> Idle]
      /\ UNCHANGED <<cls, expect, dirty, starts>>
  BY DEF Crash, PowerFail, Gone
<1>2. \A u \in Thread : th'[u].pc = "idle" /\ Torn \notin th'[u].seen
  BY <1>1 DEF Idle
<1>3. CallInv' BY CrashCalls DEF IInv
<1> QED BY <1>1, <1>2, <1>3, FailKeeps

\* A line settles on one of the values the medium may hold for it: only the
\* buffers of the pmem classes have more than one.
LEMMA SettlingKeeps == ASSUME IInv, Settling PROVE IInv'
<1>1. /\ power = "failed" /\ UNCHANGED svars /\ SettleNext
      /\ UNCHANGED <<vol, live, intx, undo, fresh, dying, power>>
  BY DEF Settling, SettleNext, Settle
<1>a. PICK c \in Unsettled : \E v \in may[c] : Settle(c, v)
  <2> DEFINE d == CHOOSE e \in Unsettled : TRUE
  <2>1. d \in Unsettled BY <1>1 DEF SettleNext
  <2>2. \E v \in may[d] : Settle(d, v) BY <1>1 DEF SettleNext
  <2> QED BY <2>1, <2>2
<1>b. PICK v \in may[c] : Settle(c, v) BY <1>a
<1>2. /\ c \in Cell /\ may[c] # {mem[c]} /\ v \in may[c]
      /\ mem' = [mem EXCEPT ![c] = v] /\ may' = [may EXCEPT ![c] = {v}]
  BY <1>b DEF Settle, Unsettled
<1>3. /\ UNCHANGED <<cls, phase, th, prog, expect, dirty, calls, fails, starts>>
      /\ CallInv'
  BY <1>1, SettlingCalls DEF svars, IInv
<1>4. MemoryTypeOK' BY <1>1, SettleTypes DEF IInv
<1>5. phase \in {"closed", "down"} /\ \A t \in Thread : th[t].pc = "idle"
  BY <1>1 DEF IInv, CallInv, CallTypeOK, CallsServed, Quiet
<1>6. ~intx /\ undo = NoUndo BY <1>1 DEF IInv, LogOK
<1>7. cls.medium # "tx" BY <1>2, <1>6, NoUndoFacts DEF IInv, MediumOK
<1>8. ~Volatile(cls)
  BY <1>1, <1>2 DEF IInv, MediumOK
<1>9. cls.medium = "pmem" BY <1>7, <1>8, Media DEF IInv
<1>10. c # RootP BY <1>2, <1>9 DEF IInv, MediumOK
<1>11. /\ \A e \in Cell : may'[e] \subseteq may[e] /\ mem'[e] \in may'[e]
       /\ mem'[RootP] = mem[RootP] /\ may'[RootP] = may[RootP]
  BY <1>2, <1>10, Cells DEF IInv, MediumOK, MemoryTypeOK
<1>12. ArrayP' = ArrayP /\ \A k : Slot(k)' = Slot(k)
  BY <1>11 DEF ArrayP, Slot, RootP
<1>13. MediumOK'
  BY <1>1, <1>3, <1>7, <1>8, <1>11 DEF IInv, MediumOK, Volatile
<1>14. LogOK' BY <1>1, <1>3, <1>6 DEF IInv, LogOK
<1>15. ArraysOK' BY <1>1, <1>3, <1>12 DEF IInv, ArraysOK, ElemCells
<1>16. TornOK' BY <1>1, <1>3, <1>5, <1>11, Cells DEF IInv, TornOK
<1>17. StepsOK' BY <1>3, <1>5 DEF StepsOK, Updating
<1>18. SlotsOK' /\ ReadsSlot' /\ (KeysFit => ReadLegal)' /\ ScanWhole'
  BY <1>3, <1>5 DEF IInv, SlotsOK, ReadsSlot, ReadLegal, ScanWhole, KeysFit,
                     Offset
<1>19. ImageOK'
  <2> SUFFICES ASSUME starts = 0
               PROVE  /\ Back(RootP)' = Zero =>
                           \A k \in Key : Absent \in expect[k]
                      /\ ArrayP # Zero =>
                           \A k \in Key : \A x \in may'[Slot(k)] :
                             \/ Written(k, x)
                             \/ x = Torn /\ Sharing(k) \cap dirty # {}
    BY <1>3, <1>5, <1>9, <1>12 DEF ImageOK, Written, Shown, Sharing, Offset
  <2>1. Back(RootP)' = Back(RootP)
    BY <1>1, <1>6, <1>11, NoUndoFacts DEF Back, RootP
  <2>2. Back(RootP) = Zero => \A k \in Key : Absent \in expect[k]
    BY <1>8 DEF IInv, ImageOK
  <2>3. ASSUME ArrayP # Zero, NEW k \in Key, NEW x \in may'[Slot(k)]
        PROVE  Written(k, x) \/ (x = Torn /\ Sharing(k) \cap dirty # {})
    <3>1. ArrayP \in ArrayObject BY <2>3 DEF IInv, ArraysOK
    <3>2. Slot(k) \in Cell BY <3>1, Slots, Cells DEF Slot
    <3>3. x \in may[Slot(k)] BY <1>11, <2>3, <3>2
    <3> QED BY <1>9, <2>3, <3>3 DEF IInv, ImageOK
  <2> QED BY <2>1, <2>2, <2>3
<1> QED BY <1>3, <1>4, <1>13, <1>14, <1>15, <1>16, <1>17, <1>18, <1>19 DEF IInv

\* The next process finds room for its array, and no torn buffer in it.
LEMMA ReopenKeeps == ASSUME IInv, Reopen(init) PROVE IInv'
<1>1. /\ phase \in {"down", "closed"} /\ starts < cls.bound.restarts
      /\ Recovered /\ power' = "up" /\ phase' = "init"
      /\ prog' = [prog EXCEPT ![main] = init]
      /\ starts' = starts + 1
      /\ UNCHANGED <<mem, may, vol, live, intx, undo, fresh, dying>>
      /\ UNCHANGED <<cls, th, rd, wr, expect, dirty, calls, fails>>
  BY DEF Reopen, Open
<1>2. CallInv' BY ReopenCalls DEF IInv
<1>3. prog'[main] = init
  BY <1>1 DEF IInv, CallInv, CallTypeOK, Actor
<1>4. \A u \in Thread : th[u].pc = "idle" /\ ~Updating(u)'
  BY <1>1 DEF IInv, CallInv, CallsServed, Quiet, Updating
<1>5. power # "up" BY <1>1 DEF Recovered
<1>6. ~intx /\ undo = NoUndo /\ fresh = {} /\ dying = {}
  BY <1>5 DEF IInv, LogOK
<1>7. /\ starts \in Nat /\ cls.bound.restarts \in Nat
      /\ cls.bound.restarts < MaxArray /\ MaxArray \in Nat
  BY BoundAssumption, Media, ArrayAssumption DEF IInv, CallInv, CallTypeOK
<1>8. /\ NewArray \in ArrayObject /\ NewArray <= starts' + 1
      /\ ElemCells(NewArray) \cap live = {}
  <2>1. starts + 1 \in Nat /\ (starts + 1) + 1 <= MaxArray BY <1>1, <1>7
  <2>2. \A o \in ArrayObject : o > starts + 1 => ElemCells(o) \cap live = {}
    BY DEF IInv, ArraysOK
  <2> QED BY <1>1, <2>1, <2>2, NewArrayIs
<1>9. MemoryTypeOK' BY <1>1 DEF IInv, MemoryTypeOK
<1>10. MediumOK' BY <1>1 DEF IInv, MediumOK, Volatile
<1>11. LogOK' BY <1>1, <1>6, NoUndoFacts DEF LogOK
<1>12. ArrayP' = ArrayP BY <1>1 DEF ArrayP
<1>13. ArraysOK'
  <2>1. \A o \in ArrayObject : o > starts' + 1 => ElemCells(o) \cap live' = {}
    <3> SUFFICES ASSUME NEW o \in ArrayObject, o > starts + 2
                 PROVE  ElemCells(o) \cap live = {}
      BY <1>1, <1>7
    <3>1. o > starts + 1 BY <1>7 DEF ArrayObject
    <3> QED BY <3>1 DEF IInv, ArraysOK
  <2>2. starts' <= cls'.bound.restarts BY <1>1, <1>7
  <2> QED BY <1>1, <1>6, <1>12, <2>1, <2>2, NoUndoFacts
          DEF IInv, ArraysOK, ElemCells
<1>14. TornOK' BY <1>1 DEF IInv, TornOK
<1>15. StepsOK'
  <2>1. PICK o : o = NewArray OBVIOUS
  <2>2. /\ Volatile(cls) => init = <<Al(ElemCells(o)), St(RootP, o)>>
        /\ cls.medium = "pmem" =>
             init = <<AlTo(ElemCells(o), RootP, o), Fl(RootCells)>>
        /\ cls.medium = "tx" =>
             init = <<Bg, Sn(RootCells), TAl(ElemCells(o)), St(RootP, o), Cm>>
    BY <2>1, InitPrograms DEF IInv
  <2>3. \A c \in ElemCells(o) : Torn \notin may[c]
    BY <1>8, <2>1, Cells DEF IInv, TornOK
  <2>4. /\ ElemCells(o)' = ElemCells(o) /\ RootP' = RootP
        /\ RootCells' = RootCells
    BY DEF ElemCells, RootP, RootCells
  <2>5. o \in ArrayObject /\ o <= starts' + 1 /\ ElemCells(o) \cap live' = {}
    BY <1>1, <1>8, <2>1
  <2>6. InitSteps(o)'
    BY <1>1, <1>3, <1>6, <2>2, <2>3, <2>4, <2>5 DEF InitSteps, Volatile
  <2> QED BY <1>1, <1>4, <2>5, <2>6 DEF StepsOK, ArrayObject
<1>16. SlotsOK' BY <1>1 DEF SlotsOK
<1>17. ReadsSlot' /\ (KeysFit => ReadLegal)' /\ ScanWhole'
  BY <1>1, <1>4 DEF IInv, ReadsSlot, ReadLegal, ScanWhole, KeysFit, Offset
<1>18. ImageOK' BY <1>1, <1>7 DEF ImageOK
<1> QED BY <1>2, <1>9, <1>10, <1>11, <1>13, <1>14, <1>15, <1>16, <1>17, <1>18
        DEF IInv

-----------------------------------------------------------------------------
(***************************************************************************)
(* Every step keeps the invariant.                                         *)
(***************************************************************************)
LEMMA UnchangedKeeps == ASSUME IInv, UNCHANGED vars PROVE IInv'
<1>1. /\ UNCHANGED <<pvars, cls>>
      /\ UNCHANGED <<phase, th, prog, expect, dirty, starts>>
  BY DEF vars, svars
<1>2. /\ MemoryTypeOK' /\ MediumOK'
      /\ UNCHANGED <<mem, may, vol, live, intx, undo, fresh, dying, power>>
      /\ ArrayP' = ArrayP /\ \A l : Slot(l)' = Slot(l)
      /\ Back(RootP)' = Back(RootP)
      /\ \A l : Back(<<Back(RootP), Offset(l)>>)'
                  = Back(<<Back(RootP), Offset(l)>>)
  BY <1>1, SameMemory
<1>3. CallInv' BY SettlingCalls DEF IInv
<1>4. LogOK' BY <1>1, <1>2 DEF IInv, LogOK, Updating
<1>5. ArraysOK' BY <1>1, <1>2 DEF IInv, ArraysOK, ElemCells
<1>6. TornOK' BY <1>1, <1>2 DEF IInv, TornOK, ElemCells, Updating
<1>7. StepsOK'
  <2>1. phase = "init" => \E q \in ArrayObject : InitSteps(q)'
    BY <1>1, <1>2 DEF IInv, StepsOK, InitSteps, Volatile
  <2>2. \A u \in Thread : Updating(u)' => WriteSteps(u)'
    BY <1>1, <1>2 DEF IInv, StepsOK, WriteSteps, Volatile, Updating
  <2>3. phase = "destroy" => DestroySteps'
    BY <1>1, <1>2 DEF IInv, StepsOK, DestroySteps, Volatile
  <2> QED BY <1>1, <2>1, <2>2, <2>3 DEF StepsOK
<1>8. SlotsOK' BY <1>1, <1>2 DEF IInv, SlotsOK, Written, Shown, Sharing, Offset
<1>9. ReadsSlot' /\ (KeysFit => ReadLegal)' /\ ScanWhole'
  BY <1>1, <1>2 DEF IInv, ReadsSlot, ReadLegal, ScanWhole, KeysFit, Offset
<1>10. ImageOK' BY <1>1, <1>2
    DEF IInv, ImageOK, Written, Shown, Sharing, Offset, Volatile
<1> QED BY <1>2, <1>3, <1>4, <1>5, <1>6, <1>7, <1>8, <1>9, <1>10 DEF IInv

\* What a client does once it has called.
LEMMA ThreadKeeps == ASSUME IInv, NEW t \in Thread, ThreadStep(t) PROVE IInv'
<1>1. CASE Write(t) BY <1>1, EnterKeeps DEF Write
<1>2. CASE Read(t) BY <1>2, EnterKeeps DEF Read
<1>3. CASE Scan(t)
  <2>1. /\ th[t].op = "scan"
        /\ \E len \in ScanLen : EnterScan(t, Scanned(th[t].key, len))
    BY <1>3 DEF Scan
  <2> QED BY <2>1, EnterScanKeeps
<1>4. CASE Exec(t)
  <2>1. Updating(t) BY <1>4 DEF Exec, IInv, CallInv, ProgramsOwned
  <2> QED BY <1>4, <2>1, WriteKeeps
<1>5. CASE Leave(t) BY <1>5, LeaveKeeps
<1>6. CASE CopyOut(t) BY <1>6, CopyOutKeeps
<1>7. ~MissDies(t)
  <2> SUFFICES ASSUME MissDies(t) PROVE FALSE OBVIOUS
  <2>1. th[t].pc = "copy" /\ th[t].ptr = None BY DEF MissDies
  <2>2. /\ th[t].op = "read" /\ th[t].key \in Key /\ phase = "serve"
        /\ th[t].ptr = Slot(th[t].key)
    BY <2>1 DEF IInv, CallInv, Asked, CallsServed, Quiet, ReadsSlot
  <2>3. ArrayP \in ArrayObject BY <2>2 DEF IInv, ArraysOK
  <2>4. Slot(th[t].key) \in Cell BY <2>2, <2>3, Slots, Cells DEF Slot
  <2> QED BY <2>1, <2>2, <2>4, ContentAssumption
<1>8. CASE Return(t) BY <1>8, ReturnKeeps
<1> QED BY <1>1, <1>2, <1>3, <1>4, <1>5, <1>6, <1>7, <1>8
        DEF ThreadStep, ClientStep

LEMMA StepIInv == IInv /\ [Next]_vars => IInv'
<1> SUFFICES ASSUME IInv, [Next]_vars PROVE IInv' OBVIOUS
<1>1. ASSUME NEW t \in Thread, NEW k \in Key,
             \/ CallRead(t, k) \/ CallScan(t, k)
             \/ \E n \in Version : CallWrite(t, k, n)
      PROVE  IInv'
  <2>1. CASE CallRead(t, k) BY <2>1, CallKeeps DEF CallRead
  <2>2. CASE CallScan(t, k) BY <2>2, CallKeeps DEF CallScan
  <2>3. ASSUME NEW n \in Version, CallWrite(t, k, n) PROVE IInv'
    <3>1. PICK op \in {"insert", "update"} : Call(t, op, k, ValOf(k, n))
      BY <2>3 DEF CallWrite
    <3>2. PICK v : v = ValOf(k, n) OBVIOUS
    <3>3. v \in Val BY <3>2 DEF Val
    <3> QED BY <3>1, <3>2, <3>3, CallKeeps
  <2> QED BY <1>1, <2>1, <2>2, <2>3
<1>2. ASSUME NEW t \in Thread, ThreadStep(t) PROVE IInv'
  BY <1>2, ThreadKeeps
<1>3. CASE MainStep
  <2>1. CASE Exec(main)
    <3>1. phase \in {"init", "destroy"}
      BY <2>1 DEF Exec, IInv, CallInv, ProgramsOwned
    <3> QED BY <2>1, <3>1, InitKeeps, DestroyKeeps
  <2>2. CASE InitDone([k \in Key |-> Find(k)]) BY <2>2, InitDoneKeeps
  <2>3. CASE Close BY <2>3, CloseKeeps
  <2> QED BY <1>3, <2>1, <2>2, <2>3 DEF MainStep
<1>4. CASE Destroy(destroy) BY <1>4, DestroyCallKeeps
<1>5. CASE Crash BY <1>5, CrashKeeps
<1>6. CASE Settling BY <1>6, SettlingKeeps
<1>7. CASE Reopen(init) BY <1>7, ReopenKeeps
<1>8. CASE Finished \/ UNCHANGED vars BY <1>8, UnchangedKeeps DEF Finished
<1> QED BY <1>1, <1>2, <1>3, <1>4, <1>5, <1>6, <1>7, <1>8, Zenon DEF Next

-----------------------------------------------------------------------------
(***************************************************************************)
(* What follows from it.                                                   *)
(***************************************************************************)

\* A key that shares its slot with no other.
LEMMA Alone ==
  ASSUME KeysFit, NEW k \in Key
  PROVE  /\ \A x : Written(k, x) => Shown(x) \in expect[k]
         /\ Sharing(k) = {k}
<1>1. Sharing(k) = {k} BY DEF Sharing, KeysFit
<1> QED BY <1>1 DEF Written

\* While no operation is between its lock and its unlock, no buffer is torn.
LEMMA IInvSlotShared == IInv => SlotShared
<1> SUFFICES ASSUME IInv, phase = "serve", Unlocked, NEW k \in Key
             PROVE  \E l \in Sharing(k) : Find(k) \in expect[l]
  BY DEF SlotShared
<1>1. \A u \in Thread : ~Updating(u) BY DEF Unlocked, Updating
<1>2. ArrayP # Zero /\ Written(k, mem[Slot(k)])
  BY <1>1, NoneUpdating
<1> QED BY <1>2 DEF Find, Written, Shown

LEMMA IInvMapCorrect == KeysFit /\ IInv => MapCorrect
<1> SUFFICES ASSUME KeysFit, IInv, phase = "serve", Unlocked, NEW k \in Key
             PROVE  Find(k) \in expect[k]
  BY DEF MapCorrect, Shows
<1>1. \E l \in Sharing(k) : Find(k) \in expect[l]
  BY IInvSlotShared DEF SlotShared
<1> QED BY <1>1, Alone

\* With the log applied, memory is what Back said.
LEMMA IInvImageDurable == KeysFit /\ IInv => ImageDurable
<1> SUFFICES ASSUME KeysFit, IInv, Recovered, starts = 0,
                    cls.medium \in {"tx", "pmem"}, NEW k \in Key
             PROVE  /\ cls.medium = "tx" => Find(k) \in expect[k]
                    /\ cls.medium = "pmem" =>
                         \/ Find(k) \in expect[k]
                         \/ Find(k) = Torn /\ k \in dirty
  BY DEF ImageDurable, Shows, ShowsOrTorn
<1>1. undo = NoUndo BY DEF Recovered, IInv, LogOK
<1>2. \A c : Back(c) = mem[c] BY <1>1, NoUndoFacts DEF Back
<1>3. ~Volatile(cls) BY DEF Volatile
<1>4. Back(RootP) = ArrayP BY <1>2 DEF ArrayP, RootP
<1>5. CASE ArrayP = Zero
  <2>1. Absent \in expect[k] BY <1>3, <1>4, <1>5 DEF IInv, ImageOK
  <2> QED BY <1>5, <2>1 DEF Find
<1>6. CASE ArrayP # Zero
  <2>1. Find(k) = Shown(mem[Slot(k)]) BY <1>6 DEF Find, Shown
  <2>2. ASSUME cls.medium = "tx" PROVE Find(k) \in expect[k]
    <3>1. Written(k, Back(<<Back(RootP), Offset(k)>>))
      BY <1>4, <1>6, <2>2 DEF IInv, ImageOK
    <3>2. Back(<<Back(RootP), Offset(k)>>) = mem[Slot(k)]
      BY <1>2, <1>4 DEF Slot
    <3> QED BY <2>1, <3>1, <3>2, Alone
  <2>3. ASSUME cls.medium = "pmem"
        PROVE  Find(k) \in expect[k] \/ (Find(k) = Torn /\ k \in dirty)
    <3>1. ArrayP \in ArrayObject BY <1>6 DEF IInv, ArraysOK
    <3>2. Slot(k) \in Cell BY <3>1, Slots, Cells DEF Slot
    <3>3. mem[Slot(k)] \in may[Slot(k)] BY <3>2 DEF IInv, MediumOK
    <3>4. \/ Written(k, mem[Slot(k)])
          \/ mem[Slot(k)] = Torn /\ Sharing(k) \cap dirty # {}
      BY <1>6, <2>3, <3>3 DEF IInv, ImageOK
    <3> QED BY <2>1, <3>4, Alone, Contents
  <2> QED BY <2>2, <2>3
<1> QED BY <1>5, <1>6

\* For every number of threads, keys, calls, failures and restarts, whatever
\* the order of their steps: the invariant of Array.
THEOREM ArrayInvariance == Spec => []IInv
<1>1. ArrayInit => IInv BY InitIInv
<1>2. IInv /\ [Next]_vars => IInv' BY StepIInv
<1> QED BY <1>1, <1>2, PTL DEF Spec

\* Between operations every slot shows the last value written under one of the
\* keys that share it, in every class of storeds/array: with hashed keys, which
\* the workloads use by default, read shows the record of another key whole.
THEOREM SlotsShowTheirKeys == Spec => []SlotShared
BY ArrayInvariance, IInvSlotShared, PTL

\* Between operations every slot shows the last value written under its key,
\* if no two keys share one.
THEOREM ArrayShowsWrites == ASSUME KeysFit PROVE Spec => []MapCorrect
<1>1. IInv => MapCorrect BY IInvMapCorrect
<1> QED BY <1>1, ArrayInvariance, PTL

\* A scan holds the class's lock while it copies: it never sees half a value.
THEOREM ScansSeeWholeValues == Spec => []ScanWhole
<1>1. IInv => ScanWhole BY DEF IInv
<1> QED BY <1>1, ArrayInvariance, PTL

\* What a read copies out after its lock has been released was current during
\* the call, or is torn by a concurrent update, if no two keys share a slot.
THEOREM ReadsAreLegal == ASSUME KeysFit PROVE Spec => []ReadLegal
<1>1. IInv => ReadLegal BY DEF IInv
<1> QED BY <1>1, ArrayInvariance, PTL

\* A power failure at any point loses no acknowledged write of a pmem or a tx
\* class, and leaves no torn buffer in a tx class.
THEOREM FailureLosesNoWrite == ASSUME KeysFit PROVE Spec => []ImageDurable
<1>1. IInv => ImageDurable BY IInvImageDurable
<1> QED BY <1>1, ArrayInvariance, PTL

-----------------------------------------------------------------------------
(***************************************************************************)
(* The tx classes are clients of TxDiscipline.                             *)
(***************************************************************************)

\* The calls of libpmemobj a tx class makes; its stores are covered by the log.
TxCall ==
  \/ TxBegin \/ TxCommit
  \/ \E C \in SUBSET Cell : TxAddRange(C) \/ TxAlloc(C) \/ TxFree(C)
  \/ \E c \in Cell \cap DOMAIN undo, v \in Value : Store(c, v)

LEMMA WriteTxCalls ==
  ASSUME IInv, cls.medium = "tx", NEW t \in Thread, Updating(t), Exec(t)
  PROVE  TxCall
<1> DEFINE s == Slot(th[t].key)  v == th[t].val
<1>1. s \in Cell /\ {s} \subseteq Cell /\ v \in Value /\ Torn \in Value
  BY WriteSlot, Contents
<1>2. prog[t] # <<>> /\ MemoryStep(Head(prog[t]))
  BY DEF Exec
<1>3. \/ prog[t] = <<Bg, Sn({s}), St(s, Torn), St(s, v), Cm>>
      \/ prog[t] = <<Sn({s}), St(s, Torn), St(s, v), Cm>>
      \/ prog[t] = <<St(s, Torn), St(s, v), Cm>> /\ DOMAIN undo = {s}
      \/ prog[t] = <<St(s, v), Cm>> /\ DOMAIN undo = {s}
      \/ prog[t] = <<Cm>>
  BY <1>2 DEF IInv, StepsOK, WriteSteps
<1> HIDE DEF s, v
<1>4. \/ Head(prog[t]) \in {Bg, Sn({s}), Cm}
      \/ Head(prog[t]) \in {St(s, Torn), St(s, v)} /\ DOMAIN undo = {s}
  BY <1>3, HeadsAndTails
<1>5. \/ TxBegin \/ TxAddRange({s}) \/ TxCommit
      \/ (Store(s, Torn) \/ Store(s, v)) /\ DOMAIN undo = {s}
  BY <1>2, <1>4, StepIs
<1> QED BY <1>1, <1>5 DEF TxCall

LEMMA MainTxCalls ==
  ASSUME IInv, cls.medium = "tx", Exec(main) PROVE TxCall
<1> DEFINE E(o) == ElemCells(o)
<1>1. prog[main] # <<>> /\ MemoryStep(Head(prog[main])) BY DEF Exec
<1>2. /\ RootCells = {RootP} /\ RootP \in Cell /\ Zero \in Value
      /\ \A o \in ArrayObject : E(o) \subseteq Cell /\ o \in Value
  BY Cells, Contents
<1>3. phase \in {"init", "destroy"}
  BY <1>1 DEF IInv, CallInv, ProgramsOwned
<1> HIDE DEF E
<1>4. CASE phase = "init"
  <2>1. PICK o \in ArrayObject : InitSteps(o) BY <1>4 DEF IInv, StepsOK
  <2>2. \/ prog[main] = <<Bg, Sn(RootCells), TAl(E(o)), St(RootP, o), Cm>>
        \/ prog[main] = <<Sn(RootCells), TAl(E(o)), St(RootP, o), Cm>>
        \/ prog[main] = <<TAl(E(o)), St(RootP, o), Cm>>
        \/ /\ prog[main] = <<St(RootP, o), Cm>> /\ DOMAIN undo = RootCells
        \/ prog[main] = <<Cm>>
    BY <1>1, <2>1 DEF InitSteps, E
  <2>3. \/ Head(prog[main]) \in {Bg, Sn(RootCells), TAl(E(o)), Cm}
        \/ Head(prog[main]) = St(RootP, o) /\ DOMAIN undo = RootCells
    BY <2>2, HeadsAndTails
  <2>4. \/ TxBegin \/ TxAddRange(RootCells) \/ TxAlloc(E(o)) \/ TxCommit
        \/ Store(RootP, o) /\ DOMAIN undo = RootCells
    BY <1>1, <2>3, StepIs
  <2> QED BY <1>2, <2>4 DEF TxCall
<1>5. CASE phase = "destroy"
  <2>1. DestroySteps BY <1>5 DEF IInv, StepsOK
  <2> DEFINE A == E(ArrayP)
  <2>2. \/ /\ prog[main] = <<Bg, Sn(RootCells), TFr(A), St(RootP, Zero),
                             TFr(RootCells), Cm>>
        \/ /\ prog[main] = <<Sn(RootCells), TFr(A), St(RootP, Zero),
                             TFr(RootCells), Cm>>
        \/ /\ prog[main] = <<TFr(A), St(RootP, Zero), TFr(RootCells), Cm>>
           /\ ArrayP # Zero
        \/ /\ prog[main] = <<St(RootP, Zero), TFr(RootCells), Cm>>
           /\ DOMAIN undo = RootCells
        \/ /\ prog[main] = <<TFr(RootCells), Cm>>
        \/ prog[main] = <<Cm>>
    BY <1>1, <2>1 DEF DestroySteps, E
  <2> HIDE DEF A
  <2>3. \/ Head(prog[main]) \in {Bg, Sn(RootCells), TFr(RootCells), Cm}
        \/ Head(prog[main]) = TFr(A) /\ ArrayP # Zero
        \/ Head(prog[main]) = St(RootP, Zero) /\ DOMAIN undo = RootCells
    BY <2>2, HeadsAndTails
  <2>4. \/ TxBegin \/ TxAddRange(RootCells) \/ TxFree(RootCells) \/ TxCommit
        \/ TxFree(A) /\ ArrayP # Zero
        \/ Store(RootP, Zero) /\ DOMAIN undo = RootCells
    BY <1>1, <2>3, StepIs
  <2>5. ArrayP # Zero => A \subseteq Cell
    BY <1>2 DEF IInv, ArraysOK, A
  <2> QED BY <1>2, <2>4, <2>5 DEF TxCall
<1> QED BY <1>3, <1>4, <1>5

\* Such a call, or a step that leaves the pool alone, or one of a pool that is
\* not in use, keeps to the discipline.
LEMMA PoolSteps ==
  ASSUME IInv, [Next]_vars, cls.medium = "tx"
  PROVE  \/ TxCall \/ Fail("failed") \/ Fail("exited") \/ SettleNext
         \/ Open \/ UNCHANGED pvars
<1>1. ASSUME NEW t \in Thread, NEW k \in Key,
             \/ CallRead(t, k) \/ CallScan(t, k)
             \/ \E n \in Version : CallWrite(t, k, n)
      PROVE  UNCHANGED pvars
  BY <1>1 DEF CallRead, CallScan, CallWrite, Call, StartCall
<1>2. ASSUME NEW t \in Thread, ThreadStep(t)
      PROVE  TxCall \/ Fail("exited") \/ UNCHANGED pvars
  <2>1. CASE Exec(t)
    <3>1. Updating(t) BY <2>1 DEF Exec, IInv, CallInv, ProgramsOwned
    <3> QED BY <2>1, <3>1, WriteTxCalls
  <2>2. CASE ~Exec(t)
    BY <1>2, <2>2 DEF ThreadStep, ClientStep, Write, Read, Scan, Enter,
         EnterScan, Leave, CopyOut, MissDies, Dies, ProcessExit, Return
  <2> QED BY <2>1, <2>2
<1>3. CASE MainStep
  BY <1>3, MainTxCalls DEF MainStep, InitDone, Close, ProcessExit
<1>4. CASE Destroy(destroy) BY <1>4 DEF Destroy
<1>5. CASE Crash BY <1>5 DEF Crash, PowerFail
<1>6. CASE Settling BY <1>6 DEF Settling
<1>7. CASE Reopen(init) BY <1>7 DEF Reopen
<1>8. CASE Finished \/ UNCHANGED vars BY <1>8 DEF Finished, vars
<1> QED BY <1>1, <1>2, <1>3, <1>4, <1>5, <1>6, <1>7, <1>8, Zenon DEF Next

LEMMA TxCallDisciplined ==
  ASSUME IInv, cls.medium = "tx",
         \/ TxCall \/ Fail("failed") \/ Fail("exited") \/ SettleNext \/ Open
         \/ UNCHANGED pvars
  PROVE  TxClient!Disciplined
<1> USE DEF TxClient!Disciplined, TxClient!WritesCovered, TxClient!Covered,
            TxClient!AllocatesInTx, TxClient!FreesInTx
<1>1. CASE TxBegin BY <1>1 DEF TxBegin
<1>2. CASE TxCommit BY <1>2 DEF TxCommit
<1>3. ASSUME NEW C \in SUBSET Cell,
             TxAddRange(C) \/ TxAlloc(C) \/ TxFree(C)
      PROVE  TxClient!Disciplined
  BY <1>3 DEF TxAddRange, TxAlloc, TxFree
<1>4. ASSUME NEW c \in Cell \cap DOMAIN undo, NEW v \in Value, Store(c, v)
      PROVE  TxClient!Disciplined
  <2>1. mem \in [Cell -> Value] BY DEF IInv, MemoryTypeOK
  <2> QED BY <1>4, <2>1 DEF Store
<1>5. CASE Fail("failed") \/ Fail("exited") BY <1>5 DEF Fail
<1>6. CASE SettleNext BY <1>6 DEF SettleNext, Settle
<1>7. CASE Open BY <1>7 DEF Open, Recovered
<1>8. CASE UNCHANGED pvars BY <1>8 DEF pvars
<1> QED BY <1>1, <1>2, <1>3, <1>4, <1>5, <1>6, <1>7, <1>8 DEF TxCall

\* In a tx class every store goes to a range the open transaction has
\* snapshotted, and memory is allocated and freed through it only.
THEOREM TxClassesDisciplined == Spec => Discipline
<1>1. IInv /\ [Next]_vars => [cls.medium = "tx" => TxClient!Disciplined]_pvars
  BY PoolSteps, TxCallDisciplined, Zenon
<1> QED BY <1>1, ArrayInvariance, PTL DEF Spec, Discipline

\* A run never changes its class.
LEMMA ClassKept == [Next]_vars => cls' = cls
<1> SUFFICES ASSUME [Next]_vars PROVE cls' = cls OBVIOUS
<1>1. ASSUME NEW t \in Thread, NEW k \in Key,
             \/ CallRead(t, k) \/ CallScan(t, k)
             \/ \E n \in Version : CallWrite(t, k, n)
      PROVE  cls' = cls
  BY <1>1 DEF CallRead, CallScan, CallWrite, Call, StartCall
<1>2. ASSUME NEW t \in Thread, ThreadStep(t) PROVE cls' = cls
  BY <1>2 DEF ThreadStep, ClientStep, Write, Read, Scan, Enter, EnterScan,
       Exec, Leave, CopyOut, MissDies, Dies, Gone, Return
<1>3. CASE MainStep BY <1>3 DEF MainStep, Exec, InitDone, Close
<1>4. CASE Destroy(destroy) \/ Crash \/ Reopen(init)
  BY <1>4 DEF Destroy, Crash, Gone, Reopen
<1>5. CASE Settling \/ Finished \/ UNCHANGED vars
  BY <1>5 DEF Settling, Finished, vars, svars
<1> QED BY <1>1, <1>2, <1>3, <1>4, <1>5, Zenon DEF Next

\* The abstract specification, with its theorem.
Tx == INSTANCE TxDisciplineProofs WITH Root <- RootCells

\* It names the same calls.
LEMMA SameCalls ==
  ASSUME MemoryTypeOK,
         \/ TxCall \/ Fail("failed") \/ Fail("exited") \/ SettleNext \/ Open
  PROVE  Tx!AnyStep
<1> USE DEF Tx!AnyStep
<1>1. CASE TxBegin BY <1>1 DEF TxBegin, Tx!TxBegin
<1>2. CASE TxCommit
  <2>1. Tx!TxCommit
    BY <1>2 DEF TxCommit, Tx!TxCommit, NoUndo, Tx!NoUndo
  <2> QED BY <2>1
<1>3. ASSUME NEW C \in SUBSET Cell,
             TxAddRange(C) \/ TxAlloc(C) \/ TxFree(C)
      PROVE  Tx!AnyStep
  <2>1. Tx!TxAddRange(C) \/ Tx!TxAlloc(C) \/ Tx!TxFree(C)
    BY <1>3 DEF TxAddRange, TxAlloc, TxFree, Tx!TxAddRange,
                Tx!TxAlloc, Tx!TxFree
  <2> QED BY <2>1
<1>4. ASSUME NEW c \in Cell \cap DOMAIN undo, NEW v \in Value, Store(c, v)
      PROVE  Tx!AnyStep
  <2>1. Tx!Store(c, v) BY <1>4 DEF Store, Tx!Store
  <2> QED BY <2>1
<1>5. ASSUME NEW how, Fail(how) PROVE Tx!Fail(how)
  BY <1>5 DEF Fail, Tx!Fail, AfterExit, Tx!AfterExit, AfterFailure,
       Tx!AfterFailure, NoUndo, Tx!NoUndo
<1>6. CASE Fail("failed") \/ Fail("exited")
  <2>1. Tx!PowerFail \/ Tx!ProcessExit
    BY <1>5, <1>6 DEF Tx!PowerFail, Tx!ProcessExit
  <2> QED BY <2>1
<1>7. CASE SettleNext
  <2>1. Tx!SettleNext
    BY <1>7 DEF SettleNext, Tx!SettleNext, Settle, Tx!Settle,
         Unsettled, Tx!Unsettled
  <2> QED BY <2>1
<1>8. CASE Open
  <2>1. Tx!Open
    BY <1>8 DEF Open, Tx!Open, Recovered, Tx!Recovered, Unsettled,
         Tx!Unsettled
  <2> QED BY <2>1
<1> QED BY <1>1, <1>2, <1>3, <1>4, <1>6, <1>7, <1>8 DEF TxCall

\* The array of a tx class, whatever its clients call and whenever it fails, is
\* a client of the pool as TxDiscipline describes it.
THEOREM TxClassesRefineDiscipline ==
  Spec /\ cls.medium = "tx" => Tx!Spec
<1>1. ArrayInit /\ cls.medium = "tx" => Tx!Init
  <2> SUFFICES ASSUME ArrayInit, cls.medium = "tx" PROVE Tx!Init
    OBVIOUS
  <2>1. PoolInit({}, RootCells)
    BY DEF ArrayInit, StoredsInit, Volatile
  <2>2. Tx!PoolInit({}, RootCells)
    BY <2>1 DEF PoolInit, Tx!PoolInit, NoUndo, Tx!NoUndo
  <2> QED BY <2>2 DEF Tx!Init
<1>2. IInv /\ cls.medium = "tx" /\ [Next]_vars => [Tx!Next]_(Tx!pvars)
  <2> SUFFICES ASSUME IInv, cls.medium = "tx", [Next]_vars,
                      ~(UNCHANGED pvars)
               PROVE  Tx!Next
    BY Zenon DEF pvars, Tx!pvars
  <2>1. \/ TxCall \/ Fail("failed") \/ Fail("exited") \/ SettleNext \/ Open
    BY PoolSteps, Zenon
  <2>2. TxClient!Disciplined BY <2>1, TxCallDisciplined, Zenon
  <2>3. Tx!Disciplined
    BY <2>2 DEF TxClient!Disciplined, TxClient!WritesCovered, TxClient!Covered,
         TxClient!AllocatesInTx, TxClient!FreesInTx, Tx!Disciplined,
         Tx!WritesCovered, Tx!Covered, Tx!AllocatesInTx, Tx!FreesInTx
  <2>4. Tx!AnyStep BY <2>1, SameCalls DEF IInv
  <2> QED BY <2>3, <2>4 DEF Tx!Next
<1>3. cls.medium = "tx" /\ [Next]_vars => (cls.medium = "tx")'
  BY ClassKept
<1> QED BY <1>1, <1>2, <1>3, ArrayInvariance, PTL
        DEF Spec, Tx!Spec

\* So a failure at any point of any operation leaves, once the log has been
\* applied, exactly the pool of the last TX_END.
THEOREM TxClassesRecover ==
  Spec /\ cls.medium = "tx" => []Tx!AtomicRecovery
<1>1. RootCells \subseteq Cell BY Cells
<1>2. Tx!Spec => []Tx!AtomicRecovery BY <1>1, Tx!Atomicity, ZeroAssumption
<1> QED BY <1>2, TxClassesRefineDiscipline
=============================================================================
