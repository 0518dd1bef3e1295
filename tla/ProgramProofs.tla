---------------------------- MODULE ProgramProofs ----------------------------
(***************************************************************************)
(* Programs of memory steps: what they leave in the memory, what they      *)
(* allocate and what they have logged, whichever structure they belong to. *)
(* With these lemmas a structure's proof looks at a program once, when the *)
(* operation starts, and not at every step.                                *)
(***************************************************************************)
EXTENDS StoredsProofs, FiniteSetsExt, SequencesExt, SequenceTheorems,
        FiniteSetTheorems, WellFoundedInduction

-----------------------------------------------------------------------------
(***************************************************************************)
(* Numbers: least and greatest members, and induction with a set.          *)
(***************************************************************************)
LEMMA LeastNumber ==
  ASSUME NEW T \in SUBSET Nat, T # {}
  PROVE  \E x \in T : \A y \in T : x <= y
<1> DEFINE R == OpToRel(<, Nat)
<1>1. \A x, y \in Nat : <<x, y>> \in R <=> x < y BY DEF OpToRel
<1> HIDE DEF R
<1>2. PICK x \in T : \A y \in T : ~(<<y, x>> \in R)
  BY WFMin, NatLessThanWellFounded, Zenon DEF R
<1>3. \A y \in T : x <= y
  <2> TAKE y \in T
  <2>1. x \in Nat /\ y \in Nat OBVIOUS
  <2>2. ~(y < x) BY <1>1, <1>2, <2>1
  <2> QED BY <2>1, <2>2
<1> QED BY <1>3

LEMMA MinIs ==
  ASSUME NEW T \in SUBSET Nat, T # {}
  PROVE  Min(T) \in T /\ \A y \in T : Min(T) <= y
BY LeastNumber DEF Min

LEMMA MaxIs ==
  ASSUME NEW n \in Nat, NEW T \in SUBSET (0..n), T # {}
  PROVE  Max(T) \in T /\ \A y \in T : Max(T) >= y
<1> DEFINE B == {x \in Nat : \A y \in T : x >= y}
<1>1. n \in B OBVIOUS
<1>2. PICK x \in B : \A y \in B : x <= y BY <1>1, LeastNumber
<1>3. x \in T
  <2> SUFFICES ASSUME x \notin T PROVE FALSE OBVIOUS
  <2>1. PICK y \in T : TRUE OBVIOUS
  <2>2. \A z \in T : z < x /\ z \in Nat OBVIOUS
  <2>3. x - 1 \in B BY <2>1, <2>2
  <2> QED BY <1>2, <2>3
<1> QED BY <1>3 DEF Max

\* Induction: the library's theorems take an operator, this one takes a set.
LEMMA NumbersByInduction ==
  ASSUME NEW T \in SUBSET Nat, 0 \in T, \A n \in T : n + 1 \in T
  PROVE  T = Nat
<1> SUFFICES ASSUME Nat \ T # {} PROVE FALSE OBVIOUS
<1>1. PICK n \in Nat \ T : \A m \in Nat \ T : n <= m BY LeastNumber
<1>2. n # 0 /\ n - 1 \in Nat OBVIOUS
<1> QED BY <1>1, <1>2

-----------------------------------------------------------------------------
(***************************************************************************)
(* Steps.                                                                  *)
(***************************************************************************)

\* What each kind of step is.
LEMMA StepKinds ==
  /\ \A c \in Cell, v \in Value : St(c, v) \in Step
  /\ \A C \in SUBSET Cell : /\ Fl(C) \in Step /\ Al(C) \in Step
                            /\ Fr(C) \in Step /\ Sn(C) \in Step
                            /\ TAl(C) \in Step /\ TZAl(C) \in Step
                            /\ TFr(C) \in Step
  /\ \A C \in SUBSET Cell, c \in Cell, v \in Value :
       AlTo(C, c, v) \in Step /\ ZAlTo(C, c, v) \in Step
  /\ \A C \in SUBSET Cell, c \in Cell : FrIn(C, c) \in Step
  /\ Bg \in Step /\ Cm \in Step
BY DEF Step, St, Fl, Al, Fr, Sn, TAl, TZAl, TFr, AlTo, ZAlTo, FrIn, Bg, Cm

\* What each kind assigns.
LEMMA StepAssigns ==
  /\ \A c, v : Assigns(St(c, v)) = {c} /\ Assigned(St(c, v), c) = v
  /\ \A C : /\ Assigns(Fl(C)) = {} /\ Assigns(Al(C)) = {}
            /\ Assigns(Fr(C)) = {} /\ Assigns(Sn(C)) = {}
            /\ Assigns(TAl(C)) = {} /\ Assigns(TFr(C)) = {}
            /\ Assigns(TZAl(C)) = C
            /\ \A c : Assigned(TZAl(C), c) = Zero
  /\ \A C, c, v : /\ Assigns(AlTo(C, c, v)) = {c}
                  /\ Assigned(AlTo(C, c, v), c) = v
                  /\ Assigns(ZAlTo(C, c, v)) = {c} \cup C
                  /\ \A d : Assigned(ZAlTo(C, c, v), d) =
                              IF d = c THEN v ELSE Zero
  /\ \A C, c : Assigns(FrIn(C, c)) = {c} /\ Assigned(FrIn(C, c), c) = Zero
  /\ Assigns(Bg) = {} /\ Assigns(Cm) = {}
BY DEF Assigns, Assigned, St, Fl, Al, Fr, Sn, TAl, TZAl, TFr, AlTo, ZAlTo,
       FrIn, Bg, Cm

\* What each kind allocates and logs.
LEMMA StepLogs ==
  /\ \A c, v : Allocates(St(c, v)) = {} /\ Logs(St(c, v)) = {}
  /\ \A C : /\ Allocates(Al(C)) = C /\ Allocates(Fl(C)) = {}
            /\ Allocates(Fr(C)) = {} /\ Allocates(Sn(C)) = {}
            /\ Allocates(TAl(C)) = C /\ Allocates(TZAl(C)) = C
            /\ Allocates(TFr(C)) = {}
            /\ Logs(Sn(C)) = C /\ Logs(TAl(C)) = C /\ Logs(TZAl(C)) = C
            /\ Logs(TFr(C)) = {}
  /\ \A C, c, v : Allocates(AlTo(C, c, v)) = C /\ Allocates(ZAlTo(C, c, v)) = C
  /\ \A C, c : Allocates(FrIn(C, c)) = {}
  /\ Allocates(Bg) = {} /\ Allocates(Cm) = {} /\ Logs(Bg) = {} /\ Logs(Cm) = {}
BY DEF Allocates, Logs, St, Fl, Al, Fr, Sn, TAl, TZAl, TFr, AlTo, ZAlTo,
       FrIn, Bg, Cm

\* A step of any kind changes just what it assigns, allocates and frees.
LEMMA StepDoes ==
  ASSUME MemoryTypeOK, NEW u \in Step, MemoryStep(u)
  PROVE  /\ MemoryTypeOK'
         /\ \A c \in Cell : mem'[c] = IF c \in Assigns(u) THEN Assigned(u, c)
                                      ELSE mem[c]
         /\ live' \subseteq live \cup Allocates(u)
         /\ Assigns(u) \subseteq Cell
         /\ power = "up" /\ power' = "up" /\ vol' = vol
<1> USE DEF MemoryStep
<1>1. CASE u.op = "store"
  <2>1. u.c \in Cell /\ u.v \in Value /\ Store(u.c, u.v) BY <1>1 DEF Step
  <2>2. MemoryTypeOK' BY <2>1, StoreTypes
  <2>3. Assigns(u) = {u.c} /\ \A c : Assigned(u, c) = u.v
    BY <1>1 DEF Assigns, Assigned
  <2> QED BY <2>1, <2>2, <2>3 DEF Store, MemoryTypeOK
<1>2. CASE u.op = "persist"
  <2>1. u.C \in SUBSET Cell /\ Persist(u.C) BY <1>2 DEF Step
  <2>2. MemoryTypeOK' BY <2>1, PersistTypes
  <2>3. Assigns(u) = {} BY <1>2 DEF Assigns
  <2> QED BY <2>1, <2>2, <2>3 DEF Persist
<1>3. CASE u.op \in {"alloc", "free", "tx_alloc"}
  <2>1. u.C \in SUBSET Cell /\ (Alloc(u.C) \/ Free(u.C) \/ TxAlloc(u.C))
    BY <1>3 DEF Step
  <2>2. MemoryTypeOK' BY <2>1, AllocTypes
  <2>3. Assigns(u) = {} BY <1>3 DEF Assigns
  <2>4. live' \subseteq live \cup Allocates(u)
    BY <1>3 DEF Allocates, Alloc, Free, TxAlloc
  <2> QED BY <2>1, <2>2, <2>3, <2>4 DEF Alloc, Free, TxAlloc
<1>4. CASE u.op \in {"alloc_to", "free_in"}
  <2>1. /\ u.C \in SUBSET Cell /\ u.c \in Cell
        /\ u.op = "alloc_to" => u.v \in Value /\ AllocTo(u.C, u.c, u.v)
        /\ u.op = "free_in" => FreeFrom(u.C, u.c)
    BY <1>4 DEF Step
  <2>2. MemoryTypeOK' BY <1>4, <2>1, AllocToTypes, ZeroAssumption
  <2>3. /\ Assigns(u) = {u.c}
        /\ \A c : Assigned(u, c) = IF u.op = "alloc_to" THEN u.v ELSE Zero
    BY <1>4 DEF Assigns, Assigned
  <2>4. live' \subseteq live \cup Allocates(u)
    BY <1>4, <2>1 DEF Allocates, AllocTo, FreeFrom
  <2> QED
    BY <1>4, <2>1, <2>2, <2>3, <2>4 DEF AllocTo, FreeFrom, MemoryTypeOK
<1>5. CASE u.op = "zalloc_to"
  <2>1. u.C \in SUBSET Cell /\ u.c \in Cell /\ u.v \in Value
        /\ ZAllocTo(u.C, u.c, u.v)
    BY <1>5 DEF Step
  <2>2. MemoryTypeOK' BY <2>1, ZeroAssumption DEF MemoryTypeOK, ZAllocTo
  <2>3. /\ Assigns(u) = {u.c} \cup u.C
        /\ \A c : Assigned(u, c) = IF c = u.c THEN u.v ELSE Zero
    BY <1>5 DEF Assigns, Assigned
  <2>4. live' \subseteq live \cup Allocates(u)
    BY <1>5, <2>1 DEF Allocates, ZAllocTo
  <2> QED BY <2>1, <2>2, <2>3, <2>4 DEF ZAllocTo
<1>6. CASE u.op = "tx_zalloc"
  <2>1. u.C \in SUBSET Cell /\ TxZAlloc(u.C) BY <1>6 DEF Step
  <2>2. MemoryTypeOK' BY <2>1, ZeroAssumption DEF MemoryTypeOK, TxZAlloc
  <2>3. Assigns(u) = u.C /\ \A c : Assigned(u, c) = Zero
    BY <1>6 DEF Assigns, Assigned
  <2>4. live' \subseteq live \cup Allocates(u)
    BY <1>6, <2>1 DEF Allocates, TxZAlloc
  <2> QED BY <2>1, <2>2, <2>3, <2>4 DEF TxZAlloc
<1>7. CASE u.op \in {"tx_begin", "tx_add_range", "tx_free", "tx_end"}
  <2>1. /\ u.op \in {"tx_add_range", "tx_free"} => u.C \in SUBSET Cell
        /\ u.op = "tx_begin" => TxBegin
        /\ u.op = "tx_add_range" => TxAddRange(u.C)
        /\ u.op = "tx_free" => TxFree(u.C)
        /\ u.op = "tx_end" => TxCommit
    BY <1>7 DEF Step
  <2>2. MemoryTypeOK' BY <1>7, <2>1, TxTypes
  <2>3. Assigns(u) = {} BY <1>7 DEF Assigns
  <2> QED
    BY <1>7, <2>1, <2>2, <2>3 DEF TxBegin, TxAddRange, TxFree, TxCommit
<1> QED BY <1>1, <1>2, <1>3, <1>4, <1>5, <1>6, <1>7 DEF Step

-----------------------------------------------------------------------------
(***************************************************************************)
(* Programs.                                                               *)
(***************************************************************************)

\* The places of a program and of its tail.
LEMMA TailIs ==
  ASSUME NEW S, NEW p \in Seq(S), p # <<>>
  PROVE  /\ Head(p) = p[1] /\ Head(p) \in S /\ Tail(p) \in Seq(S)
         /\ Len(p) \in Nat \ {0} /\ DOMAIN p = 1..Len(p)
         /\ Len(Tail(p)) = Len(p) - 1 /\ DOMAIN Tail(p) = 1..(Len(p) - 1)
         /\ \A j \in 1..(Len(p) - 1) : Tail(p)[j] = p[j + 1]
<1>1. /\ Head(p) \in S /\ Tail(p) \in Seq(S) /\ Len(Tail(p)) = Len(p) - 1
      /\ \A j \in 1..Len(Tail(p)) : Tail(p)[j] = p[j + 1]
  BY HeadTailProperties
<1>2. Len(p) # 0 /\ Len(p) \in Nat /\ DOMAIN p = 1..Len(p) /\ Head(p) = p[1]
  BY EmptySeq, LenProperties
<1> QED BY <1>1, <1>2, LenProperties

\* The places of two programs, one after the other.
LEMMA ConcatIs ==
  ASSUME NEW S, NEW p \in Seq(S), NEW q \in Seq(S)
  PROVE  /\ p \o q \in Seq(S) /\ Len(p \o q) = Len(p) + Len(q)
         /\ Len(p) \in Nat /\ Len(q) \in Nat
         /\ DOMAIN p = 1..Len(p) /\ DOMAIN q = 1..Len(q)
         /\ DOMAIN (p \o q) = 1..(Len(p) + Len(q))
         /\ \A j \in DOMAIN p : j \in DOMAIN (p \o q) /\ (p \o q)[j] = p[j]
         /\ \A j \in DOMAIN q : /\ Len(p) + j \in DOMAIN (p \o q)
                                /\ (p \o q)[Len(p) + j] = q[j]
         /\ \A j \in DOMAIN (p \o q) :
              j \in DOMAIN p \/ (j > Len(p) /\ j - Len(p) \in DOMAIN q)
<1> DEFINE r == p \o q
<1>1. /\ r \in Seq(S) /\ Len(r) = Len(p) + Len(q)
      /\ \A i \in 1..Len(p) + Len(q) :
           r[i] = IF i <= Len(p) THEN p[i] ELSE q[i - Len(p)]
  BY ConcatProperties, Zenon
<1>2. /\ Len(p) \in Nat /\ Len(q) \in Nat
      /\ DOMAIN p = 1..Len(p) /\ DOMAIN q = 1..Len(q) /\ DOMAIN r = 1..Len(r)
  BY <1>1, LenProperties
<1> HIDE DEF r
<1>3. /\ \A j \in DOMAIN p : j \in DOMAIN r /\ r[j] = p[j]
      /\ \A j \in DOMAIN q : Len(p) + j \in DOMAIN r /\ r[Len(p) + j] = q[j]
      /\ \A j \in DOMAIN r :
           j \in DOMAIN p \/ (j > Len(p) /\ j - Len(p) \in DOMAIN q)
  BY <1>1, <1>2
<1> QED BY <1>1, <1>2, <1>3 DEF r

LEMMA ConsIs ==
  ASSUME NEW S, NEW e \in S, NEW c \in Seq(S)
  PROVE  LET r == <<e>> \o c IN
         /\ r \in Seq(S) /\ DOMAIN r = 1..(Len(c) + 1) /\ r[1] = e
         /\ \A n \in DOMAIN c : n + 1 \in DOMAIN r /\ r[n + 1] = c[n]
         /\ \A n \in DOMAIN r : n = 1 \/ (n # 1 /\ n - 1 \in DOMAIN c
                                              /\ r[n] = c[n - 1])
<1> DEFINE p == <<e>>  r == p \o c
<1>1. p \in Seq(S) /\ Len(p) = 1 /\ p[1] = e OBVIOUS
<1> HIDE DEF p
<1>2. /\ r \in Seq(S) /\ Len(r) = Len(p) + Len(c)
      /\ \A i \in 1..Len(p) + Len(c) :
           r[i] = IF i <= Len(p) THEN p[i] ELSE c[i - Len(p)]
  BY <1>1, ConcatProperties, Zenon
<1> HIDE DEF r
<1>3. /\ Len(c) \in Nat /\ DOMAIN c = 1..Len(c) /\ DOMAIN r = 1..Len(r)
  BY <1>2, LenProperties
<1> QED BY <1>1, <1>2, <1>3 DEF r, p

LEMMA ConcatMembers ==
  ASSUME NEW S, NEW p \in Seq(S), NEW q \in Seq(S)
  PROVE  /\ p \o q \in Seq(S)
         /\ \A j \in DOMAIN (p \o q) : \/ \E i \in DOMAIN p : (p \o q)[j] = p[i]
                                       \/ \E i \in DOMAIN q : (p \o q)[j] = q[i]
<1> DEFINE r == p \o q
<1>1. /\ r \in Seq(S) /\ Len(r) = Len(p) + Len(q)
      /\ Len(p) \in Nat /\ Len(q) \in Nat
      /\ DOMAIN p = 1..Len(p) /\ DOMAIN q = 1..Len(q)
      /\ DOMAIN r = 1..(Len(p) + Len(q))
      /\ \A j \in DOMAIN p : j \in DOMAIN r /\ r[j] = p[j]
      /\ \A j \in DOMAIN q : Len(p) + j \in DOMAIN r /\ r[Len(p) + j] = q[j]
      /\ \A j \in DOMAIN r :
           j \in DOMAIN p \/ (j > Len(p) /\ j - Len(p) \in DOMAIN q)
  BY ConcatIs, Zenon
<1> HIDE DEF r
<1>2. \A j \in DOMAIN r : \/ \E i \in DOMAIN p : r[j] = p[i]
                          \/ \E i \in DOMAIN q : r[j] = q[i]
  <2> TAKE j \in DOMAIN r
  <2>1. CASE j \in DOMAIN p BY <1>1, <2>1
  <2>2. CASE j > Len(p) /\ j - Len(p) \in DOMAIN q
    <3>1. Len(p) + (j - Len(p)) = j BY <1>1
    <3> QED BY <1>1, <2>2, <3>1
  <2> QED BY <1>1, <2>1, <2>2
<1> QED BY <1>1, <1>2 DEF r

-----------------------------------------------------------------------------
(***************************************************************************)
(* What a program leaves in the memory.                                    *)
(***************************************************************************)

\* Nothing, if it assigns nothing.
LEMMA YieldsNothing ==
  ASSUME NEW p, NEW m, \A j \in DOMAIN p : Assigns(p[j]) = {}
  PROVE  Yields(p, m, m)
BY DEF Yields

\* A program always ends in some memory: the last step to assign a cell counts.
LEMMA YieldsSome ==
  ASSUME NEW p \in Seq(Step), NEW m PROVE \E F : Yields(p, m, F)
<1> DEFINE at(c) == {j \in DOMAIN p : c \in Assigns(p[j])}
           F == [c \in Cell |-> IF at(c) = {} THEN m[c] ELSE Assigned(p[Max(at(c))], c)]
<1>1. Len(p) \in Nat /\ DOMAIN p = 1..Len(p) BY LenProperties
<1>2. ASSUME NEW c \in Cell
      PROVE  \/ F[c] = m[c] /\ \A j \in DOMAIN p : c \notin Assigns(p[j])
             \/ \E j \in DOMAIN p :
                  /\ c \in Assigns(p[j]) /\ F[c] = Assigned(p[j], c)
                  /\ \A i \in DOMAIN p : i > j => c \notin Assigns(p[i])
  <2> DEFINE T == at(c)  j == Max(T)
  <2>1. CASE T = {} BY <2>1
  <2>2. CASE T # {}
    <3>1. T \in SUBSET (0..Len(p)) BY <1>1
    <3>2. \A i \in T : i \in DOMAIN p /\ c \in Assigns(p[i]) OBVIOUS
    <3>3. \A i \in DOMAIN p : c \in Assigns(p[i]) => i \in T OBVIOUS
    <3>4. F[c] = Assigned(p[j], c) BY <2>2
    <3> HIDE DEF T, F
    <3>5. j \in T /\ \A i \in T : j >= i BY <1>1, <2>2, <3>1, MaxIs
    <3>6. \A i \in DOMAIN p : i > j => i \notin T BY <1>1, <3>2, <3>5
    <3> QED BY <3>2, <3>3, <3>4, <3>5, <3>6
  <2> QED BY <2>1, <2>2
<1> HIDE DEF F
<1>3. Yields(p, m, F) BY <1>2 DEF Yields
<1> QED BY <1>3

\* One program after the other.
LEMMA YieldsConcat ==
  ASSUME NEW p \in Seq(Step), NEW q \in Seq(Step), NEW m, NEW F, NEW G,
         Yields(p, m, F), Yields(q, F, G)
  PROVE  Yields(p \o q, m, G)
<1> DEFINE r == p \o q
<1>1. /\ r \in Seq(Step) /\ Len(r) = Len(p) + Len(q)
      /\ Len(p) \in Nat /\ Len(q) \in Nat
      /\ DOMAIN p = 1..Len(p) /\ DOMAIN q = 1..Len(q)
      /\ DOMAIN r = 1..(Len(p) + Len(q))
      /\ \A j \in DOMAIN p : j \in DOMAIN r /\ r[j] = p[j]
      /\ \A j \in DOMAIN q : Len(p) + j \in DOMAIN r /\ r[Len(p) + j] = q[j]
      /\ \A j \in DOMAIN r :
           j \in DOMAIN p \/ (j > Len(p) /\ j - Len(p) \in DOMAIN q)
  BY ConcatIs, Zenon
<1> HIDE DEF r
<1> SUFFICES ASSUME NEW c \in Cell
             PROVE  \/ G[c] = m[c] /\ \A j \in DOMAIN r : c \notin Assigns(r[j])
                    \/ \E j \in DOMAIN r :
                         /\ c \in Assigns(r[j]) /\ G[c] = Assigned(r[j], c)
                         /\ \A i \in DOMAIN r : i > j => c \notin Assigns(r[i])
  BY DEF Yields, r
<1>2. \A j \in DOMAIN r : j > Len(p) => r[j] = q[j - Len(p)]
  BY <1>1
<1>3. CASE \E j \in DOMAIN q :
             /\ c \in Assigns(q[j]) /\ G[c] = Assigned(q[j], c)
             /\ \A i \in DOMAIN q : i > j => c \notin Assigns(q[i])
  <2>1. PICK j \in DOMAIN q :
          /\ c \in Assigns(q[j]) /\ G[c] = Assigned(q[j], c)
          /\ \A i \in DOMAIN q : i > j => c \notin Assigns(q[i])
    BY <1>3
  <2>2. ASSUME NEW i \in DOMAIN r, i > Len(p) + j
        PROVE  c \notin Assigns(r[i])
    <3>1. i - Len(p) \in DOMAIN q /\ i - Len(p) > j /\ r[i] = q[i - Len(p)]
      BY <1>1, <1>2, <2>2
    <3> QED BY <2>1, <3>1
  <2>3. /\ Len(p) + j \in DOMAIN r
        /\ c \in Assigns(r[Len(p) + j]) /\ G[c] = Assigned(r[Len(p) + j], c)
    BY <1>1, <2>1
  <2> QED BY <2>2, <2>3
<1>4. CASE G[c] = F[c] /\ \A j \in DOMAIN q : c \notin Assigns(q[j])
  <2>1. \A i \in DOMAIN r : i > Len(p) => c \notin Assigns(r[i])
    BY <1>1, <1>2, <1>4
  <2>2. CASE F[c] = m[c] /\ \A j \in DOMAIN p : c \notin Assigns(p[j])
    <3>1. \A j \in DOMAIN r : c \notin Assigns(r[j])
      BY <1>1, <2>1, <2>2
    <3> QED BY <1>4, <2>2, <3>1
  <2>3. CASE \E j \in DOMAIN p :
               /\ c \in Assigns(p[j]) /\ F[c] = Assigned(p[j], c)
               /\ \A i \in DOMAIN p : i > j => c \notin Assigns(p[i])
    <3>1. PICK j \in DOMAIN p :
            /\ c \in Assigns(p[j]) /\ F[c] = Assigned(p[j], c)
            /\ \A i \in DOMAIN p : i > j => c \notin Assigns(p[i])
      BY <2>3
    <3>2. \A i \in DOMAIN r : i > j => c \notin Assigns(r[i])
      BY <1>1, <2>1, <3>1
    <3> QED BY <1>1, <1>4, <3>1, <3>2
  <2> QED BY <2>2, <2>3 DEF Yields
<1> QED BY <1>3, <1>4 DEF Yields

\* The rest of the program ends where the program was to end.
LEMMA YieldsRest ==
  ASSUME NEW p \in Seq(Step), p # <<>>, NEW m, NEW n, NEW F, Yields(p, m, F),
         \A c \in Cell : n[c] = IF c \in Assigns(p[1])
                                THEN Assigned(p[1], c) ELSE m[c]
  PROVE  Yields(Tail(p), n, F)
<1> DEFINE q == Tail(p)
<1>1. /\ Len(p) \in Nat \ {0} /\ DOMAIN p = 1..Len(p)
      /\ DOMAIN q = 1..(Len(p) - 1)
      /\ \A j \in 1..(Len(p) - 1) : q[j] = p[j + 1]
  BY TailIs, Zenon
<1> HIDE DEF q
<1> SUFFICES ASSUME NEW c \in Cell
             PROVE  \/ F[c] = n[c] /\ \A j \in DOMAIN q : c \notin Assigns(q[j])
                    \/ \E j \in DOMAIN q :
                         /\ c \in Assigns(q[j]) /\ F[c] = Assigned(q[j], c)
                         /\ \A i \in DOMAIN q : i > j => c \notin Assigns(q[i])
  BY DEF Yields, q
<1>2. CASE F[c] = m[c] /\ \A j \in DOMAIN p : c \notin Assigns(p[j])
  <2>1. c \notin Assigns(p[1]) /\ \A j \in DOMAIN q : c \notin Assigns(q[j])
    BY <1>1, <1>2
  <2> QED BY <1>2, <2>1
<1>3. CASE \E j \in DOMAIN p :
             /\ c \in Assigns(p[j]) /\ F[c] = Assigned(p[j], c)
             /\ \A i \in DOMAIN p : i > j => c \notin Assigns(p[i])
  <2>1. PICK j \in DOMAIN p :
          /\ c \in Assigns(p[j]) /\ F[c] = Assigned(p[j], c)
          /\ \A i \in DOMAIN p : i > j => c \notin Assigns(p[i])
    BY <1>3
  <2>2. \A i \in DOMAIN q : i + 1 > j => c \notin Assigns(q[i])
    BY <1>1, <2>1
  <2>3. CASE j = 1
    <3>1. F[c] = n[c] BY <2>1, <2>3
    <3>2. \A i \in DOMAIN q : c \notin Assigns(q[i]) BY <1>1, <2>2, <2>3
    <3> QED BY <3>1, <3>2
  <2>4. CASE j # 1
    <3>1. j - 1 \in DOMAIN q /\ q[j - 1] = p[j] BY <1>1, <2>4
    <3>2. \A i \in DOMAIN q : i > j - 1 => c \notin Assigns(q[i])
      BY <1>1, <2>2
    <3> QED BY <2>1, <3>1, <3>2
  <2> QED BY <2>3, <2>4
<1> QED BY <1>2, <1>3 DEF Yields

\* What is left of a program allocates what the program does.
LEMMA ToAllocateTail ==
  ASSUME NEW p \in Seq(Step), p # <<>>
  PROVE  ToAllocate(p) = Allocates(p[1]) \cup ToAllocate(Tail(p))
<1>1. /\ Len(p) \in Nat \ {0} /\ DOMAIN p = 1..Len(p)
      /\ DOMAIN Tail(p) = 1..(Len(p) - 1)
      /\ \A j \in 1..(Len(p) - 1) : Tail(p)[j] = p[j + 1]
  BY TailIs, Zenon
<1>2. \A j \in DOMAIN p : j = 1 \/ (j - 1 \in DOMAIN Tail(p)
                                     /\ Tail(p)[j - 1] = p[j])
  BY <1>1
<1>3. \A j \in DOMAIN Tail(p) : j + 1 \in DOMAIN p /\ Tail(p)[j] = p[j + 1]
  BY <1>1
<1>4. 1 \in DOMAIN p BY <1>1
<1> QED BY <1>2, <1>3, <1>4, Zenon DEF ToAllocate

LEMMA ToAllocateConcat ==
  ASSUME NEW p \in Seq(Step), NEW q \in Seq(Step)
  PROVE  ToAllocate(p \o q) = ToAllocate(p) \cup ToAllocate(q)
<1> DEFINE r == p \o q
<1>1. /\ r \in Seq(Step) /\ Len(r) = Len(p) + Len(q)
      /\ Len(p) \in Nat /\ Len(q) \in Nat
      /\ DOMAIN p = 1..Len(p) /\ DOMAIN q = 1..Len(q)
      /\ DOMAIN r = 1..(Len(p) + Len(q))
      /\ \A j \in DOMAIN p : j \in DOMAIN r /\ r[j] = p[j]
      /\ \A j \in DOMAIN q : Len(p) + j \in DOMAIN r /\ r[Len(p) + j] = q[j]
      /\ \A j \in DOMAIN r :
           j \in DOMAIN p \/ (j > Len(p) /\ j - Len(p) \in DOMAIN q)
  BY ConcatIs, Zenon
<1> HIDE DEF r
<1>2. \A j \in DOMAIN r : \/ j \in DOMAIN p /\ r[j] = p[j]
                          \/ \E i \in DOMAIN q : r[j] = q[i]
  <2> TAKE j \in DOMAIN r
  <2>1. CASE j \in DOMAIN p BY <1>1, <2>1
  <2>2. CASE j > Len(p) /\ j - Len(p) \in DOMAIN q
    <3>1. Len(p) + (j - Len(p)) = j BY <1>1
    <3> QED BY <1>1, <2>2, <3>1
  <2> QED BY <1>1, <2>1, <2>2
<1>3. ToAllocate(r) = ToAllocate(p) \cup ToAllocate(q)
  BY <1>1, <1>2, Zenon DEF ToAllocate
<1> QED BY <1>3 DEF r

\* A step that frees nothing leaves allocated what is, and allocates its own.
LEMMA StepKeepsLive ==
  ASSUME NEW u \in Step, MemoryStep(u), Releases(u) = {}, dying = {}
  PROVE  live \cup Allocates(u) \subseteq live' /\ dying' = {}
<1> USE DEF MemoryStep
<1>1. CASE u.op \in {"store", "persist", "tx_begin", "tx_add_range", "tx_end"}
  <2>1. Allocates(u) = {} BY <1>1 DEF Allocates
  <2> QED BY <1>1, <2>1 DEF Store, Persist, TxBegin, TxAddRange, TxCommit
<1>2. CASE u.op \in {"alloc", "alloc_to", "zalloc_to", "tx_alloc", "tx_zalloc"}
  <2>1. Allocates(u) = u.C BY <1>2 DEF Allocates
  <2> QED BY <1>2, <2>1 DEF Alloc, AllocTo, ZAllocTo, TxAlloc, TxZAlloc
<1>3. CASE u.op \in {"free", "free_in", "tx_free"}
  <2>1. Allocates(u) = {} /\ u.C = {} BY <1>3 DEF Allocates, Releases
  <2> QED BY <1>3, <2>1 DEF Free, FreeFrom, TxFree
<1> QED BY <1>1, <1>2, <1>3 DEF Step

-----------------------------------------------------------------------------
(***************************************************************************)
(* Transactions.                                                           *)
(***************************************************************************)
LEMMA ToLogConcat ==
  ASSUME NEW p \in Seq(Step), NEW q \in Seq(Step), NEW A,
         LogsFirst(p, A), LogsFirst(q, A \cup ToLog(p)),
         \A j \in DOMAIN p : p[j].op # "tx_end"
  PROVE  LogsFirst(p \o q, A)
<1> DEFINE r == p \o q
<1>1. /\ r \in Seq(Step) /\ Len(r) = Len(p) + Len(q)
      /\ Len(p) \in Nat /\ Len(q) \in Nat
      /\ DOMAIN p = 1..Len(p) /\ DOMAIN q = 1..Len(q)
      /\ DOMAIN r = 1..(Len(p) + Len(q))
      /\ \A j \in DOMAIN p : j \in DOMAIN r /\ r[j] = p[j]
      /\ \A j \in DOMAIN q : Len(p) + j \in DOMAIN r /\ r[Len(p) + j] = q[j]
      /\ \A j \in DOMAIN r :
           j \in DOMAIN p \/ (j > Len(p) /\ j - Len(p) \in DOMAIN q)
  BY ConcatIs, Zenon
<1> HIDE DEF r
<1>2. ASSUME NEW j \in DOMAIN p
      PROVE  /\ r[j].op \in {"store", "tx_begin", "tx_add_range", "tx_alloc",
                             "tx_zalloc", "tx_free", "tx_end"}
             /\ r[j].op = "store" =>
                  \/ r[j].c \in A
                  \/ \E i \in DOMAIN r : i < j /\ r[j].c \in Logs(r[i])
             /\ r[j].op = "tx_end" => j = Len(r)
  BY <1>1, <1>2 DEF LogsFirst
<1>3. ASSUME NEW i \in DOMAIN q
      PROVE  LET j == Len(p) + i IN
             /\ r[j].op \in {"store", "tx_begin", "tx_add_range", "tx_alloc",
                             "tx_zalloc", "tx_free", "tx_end"}
             /\ r[j].op = "store" =>
                  \/ r[j].c \in A
                  \/ \E l \in DOMAIN r : l < j /\ r[j].c \in Logs(r[l])
             /\ r[j].op = "tx_end" => j = Len(r)
  <2> DEFINE j == Len(p) + i
  <2>1. j \in DOMAIN r /\ r[j] = q[i] /\ i \in Nat BY <1>1
  <2>2. /\ q[i].op \in {"store", "tx_begin", "tx_add_range", "tx_alloc",
                        "tx_zalloc", "tx_free", "tx_end"}
        /\ q[i].op = "tx_end" => j = Len(r)
    BY <1>1 DEF LogsFirst
  <2>3. ASSUME q[i].op = "store"
        PROVE  \/ q[i].c \in A
               \/ \E l \in DOMAIN r : l < j /\ q[i].c \in Logs(r[l])
    <3>1. \/ q[i].c \in A \/ \E l \in DOMAIN p : q[i].c \in Logs(p[l])
          \/ \E l \in DOMAIN q : l < i /\ q[i].c \in Logs(q[l])
      <4>1. \/ q[i].c \in A \cup ToLog(p)
            \/ \E l \in DOMAIN q : l < i /\ q[i].c \in Logs(q[l])
        BY <2>3, Zenon DEF LogsFirst
      <4>2. q[i].c \in ToLog(p) => \E l \in DOMAIN p : q[i].c \in Logs(p[l])
        BY Zenon DEF ToLog
      <4> QED BY <4>1, <4>2
    <3>2. ASSUME NEW l \in DOMAIN p, q[i].c \in Logs(p[l])
          PROVE  l \in DOMAIN r /\ l < j /\ q[i].c \in Logs(r[l])
      <4>1. l \in DOMAIN r /\ r[l] = p[l] /\ l <= Len(p) /\ i >= 1 /\ l \in Nat
        BY <1>1
      <4> QED BY <1>1, <2>1, <3>2, <4>1
    <3>3. ASSUME NEW l \in DOMAIN q, l < i, q[i].c \in Logs(q[l])
          PROVE  /\ Len(p) + l \in DOMAIN r /\ Len(p) + l < j
                 /\ q[i].c \in Logs(r[Len(p) + l])
      BY <1>1, <3>3
    <3> QED BY <3>1, <3>2, <3>3, Zenon
  <2> HIDE DEF j
  <2>4. /\ r[j].op \in {"store", "tx_begin", "tx_add_range", "tx_alloc",
                        "tx_zalloc", "tx_free", "tx_end"}
        /\ r[j].op = "store" =>
             \/ r[j].c \in A
             \/ \E l \in DOMAIN r : l < j /\ r[j].c \in Logs(r[l])
        /\ r[j].op = "tx_end" => j = Len(r)
    BY <2>1, <2>2, <2>3
  <2> QED BY <2>4, Zenon DEF j
<1>4. \A j \in DOMAIN r :
        j \in DOMAIN p \/ \E i \in DOMAIN q : j = Len(p) + i
  <2> TAKE j \in DOMAIN r
  <2> DEFINE i == j - Len(p)
  <2>1. j \in DOMAIN p \/ i \in DOMAIN q BY <1>1
  <2>2. j = Len(p) + i BY <1>1
  <2> HIDE DEF i
  <2>3. i \in DOMAIN q => \E l \in DOMAIN q : j = Len(p) + l BY <2>2
  <2> QED BY <2>1, <2>3
<1>5. ASSUME NEW j \in DOMAIN r
      PROVE  /\ r[j].op \in {"store", "tx_begin", "tx_add_range", "tx_alloc",
                             "tx_zalloc", "tx_free", "tx_end"}
             /\ r[j].op = "store" =>
                  \/ r[j].c \in A
                  \/ \E i \in DOMAIN r : i < j /\ r[j].c \in Logs(r[i])
             /\ r[j].op = "tx_end" => j = Len(r)
  <2>1. CASE j \in DOMAIN p BY <1>2, <2>1
  <2>2. CASE \E i \in DOMAIN q : j = Len(p) + i
    <3>1. PICK i \in DOMAIN q : j = Len(p) + i BY <2>2
    <3> QED BY <1>3, <3>1, Zenon
  <2> QED BY <1>4, <2>1, <2>2
<1>6. LogsFirst(r, A) BY <1>5, Zenon DEF LogsFirst
<1> QED BY <1>6 DEF r

\* What is left of a transaction's program once its first step is logged.
LEMMA LogsFirstTail ==
  ASSUME NEW p \in Seq(Step), p # <<>>, NEW A, LogsFirst(p, A)
  PROVE  /\ LogsFirst(Tail(p), A \cup Logs(p[1]))
         /\ p[1].op = "tx_end" => Tail(p) = <<>>
         /\ p[1].op = "store" => p[1].c \in A
         /\ p[1].op \in {"store", "tx_begin", "tx_add_range", "tx_alloc",
                         "tx_zalloc", "tx_free", "tx_end"}
<1> DEFINE q == Tail(p)
<1>1. /\ Len(p) \in Nat \ {0} /\ DOMAIN p = 1..Len(p)
      /\ DOMAIN q = 1..(Len(p) - 1) /\ Len(q) = Len(p) - 1
      /\ \A j \in 1..(Len(p) - 1) : q[j] = p[j + 1]
      /\ q \in Seq(Step)
  BY TailIs, Zenon
<1>2. 1 \in DOMAIN p /\ ~\E i \in DOMAIN p : i < 1 BY <1>1
<1>3. Len(q) = 0 => q = <<>> BY <1>1, EmptySeq
<1> HIDE DEF q
<1>4. /\ p[1].op = "tx_end" => q = <<>>
      /\ p[1].op = "store" => p[1].c \in A
      /\ p[1].op \in {"store", "tx_begin", "tx_add_range", "tx_alloc",
                      "tx_zalloc", "tx_free", "tx_end"}
  BY <1>1, <1>2, <1>3 DEF LogsFirst
<1>5. ASSUME NEW j \in DOMAIN q
      PROVE  /\ q[j].op \in {"store", "tx_begin", "tx_add_range", "tx_alloc",
                             "tx_zalloc", "tx_free", "tx_end"}
             /\ q[j].op = "store" =>
                  \/ q[j].c \in A \cup Logs(p[1])
                  \/ \E i \in DOMAIN q : i < j /\ q[j].c \in Logs(q[i])
             /\ q[j].op = "tx_end" => j = Len(q)
  <2>1. j + 1 \in DOMAIN p /\ q[j] = p[j + 1] /\ j \in Nat BY <1>1
  <2>2. /\ q[j].op \in {"store", "tx_begin", "tx_add_range", "tx_alloc",
                        "tx_zalloc", "tx_free", "tx_end"}
        /\ q[j].op = "tx_end" => j + 1 = Len(p)
        /\ q[j].op = "store" =>
             q[j].c \in A \/ \E i \in DOMAIN p : i < j + 1 /\ q[j].c \in Logs(p[i])
    BY <2>1, Zenon DEF LogsFirst
  <2>3. ASSUME NEW i \in DOMAIN p, i < j + 1, i # 1
        PROVE  i - 1 \in DOMAIN q /\ i - 1 < j /\ q[i - 1] = p[i]
    BY <1>1, <2>1, <2>3
  <2>4. q[j].op = "store" =>
          \/ q[j].c \in A \cup Logs(p[1])
          \/ \E i \in DOMAIN q : i < j /\ q[j].c \in Logs(q[i])
    <3> SUFFICES ASSUME q[j].op = "store", q[j].c \notin A \cup Logs(p[1])
                 PROVE  \E i \in DOMAIN q : i < j /\ q[j].c \in Logs(q[i])
      OBVIOUS
    <3>1. PICK i \in DOMAIN p : i < j + 1 /\ q[j].c \in Logs(p[i]) BY <2>2
    <3>2. i # 1 BY <3>1
    <3> QED BY <2>3, <3>1, <3>2
  <2>5. q[j].op = "tx_end" => j = Len(q) BY <1>1, <2>1, <2>2
  <2> QED BY <2>2, <2>4, <2>5
<1>6. LogsFirst(q, A \cup Logs(p[1])) BY <1>5, Zenon DEF LogsFirst
<1> QED BY <1>4, <1>6 DEF q

\* A step of a transaction that stores only what is logged.
LEMMA TxStepDoes ==
  ASSUME MemoryTypeOK, NEW u \in Step, MemoryStep(u),
         u.op \in {"store", "tx_begin", "tx_add_range", "tx_alloc",
                   "tx_zalloc", "tx_free", "tx_end"},
         u.op = "store" => u.c \in Logged
  PROVE  /\ \A c \in live : mem'[c] # mem[c] => c \in Logged
         /\ live' \ live \subseteq fresh'
         /\ live \ live' # {} => intx /\ ~intx'
         /\ u.op # "tx_end" => Logged \cup Logs(u) \subseteq Logged'
<1> USE DEF MemoryStep, Logged
<1>1. CASE u.op = "store"
  <2>1. Store(u.c, u.v) /\ Logs(u) = {} BY <1>1 DEF Logs
  <2> QED BY <1>1, <2>1 DEF Store, MemoryTypeOK
<1>2. CASE u.op = "tx_begin"
  <2>1. TxBegin /\ Logs(u) = {} BY <1>2 DEF Logs
  <2> QED BY <2>1 DEF TxBegin
<1>3. CASE u.op = "tx_add_range"
  <2>1. TxAddRange(u.C) /\ Logs(u) = u.C BY <1>3 DEF Logs
  <2> QED BY <2>1 DEF TxAddRange
<1>4. CASE u.op = "tx_alloc"
  <2>1. TxAlloc(u.C) /\ Logs(u) = u.C BY <1>4 DEF Logs
  <2> QED BY <2>1 DEF TxAlloc
<1>5. CASE u.op = "tx_zalloc"
  <2>1. TxZAlloc(u.C) /\ Logs(u) = u.C BY <1>5 DEF Logs
  <2> QED BY <2>1 DEF TxZAlloc, MemoryTypeOK
<1>6. CASE u.op = "tx_free"
  <2>1. TxFree(u.C) /\ Logs(u) = {} BY <1>6 DEF Logs
  <2> QED BY <2>1 DEF TxFree
<1>7. CASE u.op = "tx_end"
  <2>1. TxCommit BY <1>7
  <2> QED BY <1>7, <2>1 DEF TxCommit
<1> QED BY <1>1, <1>2, <1>3, <1>4, <1>5, <1>6, <1>7

-----------------------------------------------------------------------------
(***************************************************************************)
(* Programs put together from short ones.                                  *)
(***************************************************************************)

\* The program p makes F of the memory m, allocates A and frees nothing.
Does(p, m, F, A) ==
  p \in Seq(Step) /\ Yields(p, m, F) /\ ToAllocate(p) = A /\ FreesNothing(p)

\* A cell once the step u is performed.
After(u, c, old) == IF c \in Assigns(u) THEN Assigned(u, c) ELSE old

LEMMA DoesConcat ==
  ASSUME NEW p, NEW q, NEW m, NEW F, NEW G, NEW A, NEW B,
         Does(p, m, F, A), Does(q, F, G, B)
  PROVE  Does(p \o q, m, G, A \cup B)
<1>1. p \in Seq(Step) /\ q \in Seq(Step) BY DEF Does
<1>2. Yields(p \o q, m, G) BY <1>1, YieldsConcat DEF Does
<1>3. ToAllocate(p \o q) = A \cup B BY <1>1, ToAllocateConcat DEF Does
<1>4. /\ p \o q \in Seq(Step)
      /\ \A j \in DOMAIN (p \o q) : \/ \E i \in DOMAIN p : (p \o q)[j] = p[i]
                                    \/ \E i \in DOMAIN q : (p \o q)[j] = q[i]
  BY <1>1, ConcatMembers
<1>5. FreesNothing(p \o q)
  <2>1. FreesNothing(p) /\ FreesNothing(q) BY DEF Does
  <2> DEFINE r == p \o q
  <2>2. \A j \in DOMAIN r : \/ \E i \in DOMAIN p : r[j] = p[i]
                            \/ \E i \in DOMAIN q : r[j] = q[i]
    BY <1>4
  <2> HIDE DEF r
  <2>3. FreesNothing(r) BY <2>1, <2>2, Zenon DEF FreesNothing
  <2> QED BY <2>3 DEF r
<1> QED BY <1>2, <1>3, <1>4, <1>5 DEF Does

LEMMA Joined ==
  ASSUME NEW S, NEW p \in Seq(S), NEW q \in Seq(S), NEW r \in Seq(S),
         Len(r) = Len(p) + Len(q),
         \A i \in 1..Len(r) : r[i] = IF i <= Len(p) THEN p[i] ELSE q[i - Len(p)]
  PROVE  p \o q = r
<1>1. /\ p \o q \in Seq(S) /\ Len(p \o q) = Len(r)
      /\ \A i \in 1..Len(r) : (p \o q)[i] = r[i]
  BY ConcatProperties
<1> QED BY <1>1, SeqEqual

LEMMA Join11 == ASSUME NEW a, NEW b PROVE <<a>> \o <<b>> = <<a, b>>
<1> DEFINE S == {a, b}  p == <<a>>  q == <<b>>  r == <<a, b>>
<1>1. /\ p \in Seq(S) /\ q \in Seq(S) /\ r \in Seq(S)
      /\ Len(r) = Len(p) + Len(q)
      /\ \A i \in 1..Len(r) : r[i] = IF i <= Len(p) THEN p[i] ELSE q[i - Len(p)]
  OBVIOUS
<1> HIDE DEF S, p, q, r
<1>2. p \o q = r BY <1>1, Joined, Zenon
<1> QED BY <1>2 DEF p, q, r

LEMMA Join21 ==
  ASSUME NEW a, NEW b, NEW c PROVE <<a, b>> \o <<c>> = <<a, b, c>>
<1> DEFINE S == {a, b, c}  p == <<a, b>>  q == <<c>>  r == <<a, b, c>>
<1>1. /\ p \in Seq(S) /\ q \in Seq(S) /\ r \in Seq(S)
      /\ Len(r) = Len(p) + Len(q)
      /\ \A i \in 1..Len(r) : r[i] = IF i <= Len(p) THEN p[i] ELSE q[i - Len(p)]
  OBVIOUS
<1> HIDE DEF S, p, q, r
<1>2. p \o q = r BY <1>1, Joined, Zenon
<1> QED BY <1>2 DEF p, q, r

LEMMA Join22 ==
  ASSUME NEW a, NEW b, NEW c, NEW d
  PROVE  <<a, b>> \o <<c, d>> = <<a, b, c, d>>
<1> DEFINE S == {a, b, c, d}  p == <<a, b>>  q == <<c, d>>  r == <<a, b, c, d>>
<1>1. /\ p \in Seq(S) /\ q \in Seq(S) /\ r \in Seq(S)
      /\ Len(r) = Len(p) + Len(q)
      /\ \A i \in 1..Len(r) : r[i] = IF i <= Len(p) THEN p[i] ELSE q[i - Len(p)]
  OBVIOUS
<1> HIDE DEF S, p, q, r
<1>2. p \o q = r BY <1>1, Joined, Zenon
<1> QED BY <1>2 DEF p, q, r

LEMMA DoesOne ==
  ASSUME NEW u \in Step, Releases(u) = {}, NEW m, NEW F,
         \A c \in Cell : F[c] = After(u, c, m[c])
  PROVE  Does(<<u>>, m, F, Allocates(u))
<1>1. <<u>> \in Seq(Step) /\ DOMAIN <<u>> = {1} /\ <<u>>[1] = u OBVIOUS
<1> DEFINE p == <<u>>
<1> HIDE DEF p
<1>2. p \in Seq(Step) /\ DOMAIN p = {1} /\ p[1] = u BY <1>1 DEF p
<1>3. Yields(p, m, F) BY <1>2 DEF Yields, After
<1>4. ToAllocate(p) = Allocates(u) BY <1>2 DEF ToAllocate
<1>5. FreesNothing(p) BY <1>2 DEF FreesNothing
<1> QED BY <1>2, <1>3, <1>4, <1>5 DEF Does, p

LEMMA DoesTwo ==
  ASSUME NEW u \in Step, NEW v \in Step, Releases(u) = {}, Releases(v) = {},
         NEW m, NEW F,
         \A c \in Cell : F[c] = After(v, c, After(u, c, m[c]))
  PROVE  Does(<<u, v>>, m, F, Allocates(u) \cup Allocates(v))
<1> DEFINE G == [c \in Cell |-> After(u, c, m[c])]
<1>1. \A c \in Cell : G[c] = After(u, c, m[c]) OBVIOUS
<1>2. \A c \in Cell : F[c] = After(v, c, G[c]) BY <1>1
<1> HIDE DEF G
<1>3. Does(<<u>>, m, G, Allocates(u)) BY <1>1, DoesOne
<1>4. Does(<<v>>, G, F, Allocates(v)) BY <1>2, DoesOne
<1> DEFINE p == <<u>>  q == <<v>>  r == <<u, v>>
<1>5. p \o q = r BY Join11
<1> HIDE DEF p, q, r
<1>6. Does(r, m, F, Allocates(u) \cup Allocates(v))
  BY <1>3, <1>4, <1>5, DoesConcat DEF p, q
<1> QED BY <1>6 DEF r

LEMMA DoesThree ==
  ASSUME NEW u \in Step, NEW v \in Step, NEW w \in Step,
         Releases(u) = {}, Releases(v) = {}, Releases(w) = {}, NEW m, NEW F,
         \A c \in Cell : F[c] = After(w, c, After(v, c, After(u, c, m[c])))
  PROVE  Does(<<u, v, w>>, m, F, Allocates(u) \cup Allocates(v) \cup Allocates(w))
<1> DEFINE G == [c \in Cell |-> After(v, c, After(u, c, m[c]))]
<1>1. \A c \in Cell : G[c] = After(v, c, After(u, c, m[c])) OBVIOUS
<1>2. \A c \in Cell : F[c] = After(w, c, G[c]) BY <1>1
<1> HIDE DEF G
<1>3. Does(<<u, v>>, m, G, Allocates(u) \cup Allocates(v)) BY <1>1, DoesTwo
<1>4. Does(<<w>>, G, F, Allocates(w)) BY <1>2, DoesOne
<1> DEFINE p == <<u, v>>  q == <<w>>  r == <<u, v, w>>
<1>5. p \o q = r BY Join21
<1> HIDE DEF p, q, r
<1>6. Does(r, m, F, Allocates(u) \cup Allocates(v) \cup Allocates(w))
  BY <1>3, <1>4, <1>5, DoesConcat DEF p, q
<1> QED BY <1>6 DEF r

LEMMA DoesFour ==
  ASSUME NEW u \in Step, NEW v \in Step, NEW w \in Step, NEW x \in Step,
         Releases(u) = {}, Releases(v) = {}, Releases(w) = {}, Releases(x) = {},
         NEW m, NEW F,
         \A c \in Cell :
           F[c] = After(x, c, After(w, c, After(v, c, After(u, c, m[c]))))
  PROVE  Does(<<u, v, w, x>>, m, F,
              Allocates(u) \cup Allocates(v) \cup (Allocates(w) \cup Allocates(x)))
<1> DEFINE G == [c \in Cell |-> After(v, c, After(u, c, m[c]))]
<1>1. \A c \in Cell : G[c] = After(v, c, After(u, c, m[c])) OBVIOUS
<1>2. \A c \in Cell : F[c] = After(x, c, After(w, c, G[c])) BY <1>1
<1> HIDE DEF G
<1>3. Does(<<u, v>>, m, G, Allocates(u) \cup Allocates(v)) BY <1>1, DoesTwo
<1>4. Does(<<w, x>>, G, F, Allocates(w) \cup Allocates(x)) BY <1>2, DoesTwo
<1> DEFINE p == <<u, v>>  q == <<w, x>>  r == <<u, v, w, x>>
<1>5. p \o q = r BY Join22
<1> HIDE DEF p, q, r
<1>6. Does(r, m, F, Allocates(u) \cup Allocates(v)
                     \cup (Allocates(w) \cup Allocates(x)))
  BY <1>3, <1>4, <1>5, DoesConcat DEF p, q
<1> QED BY <1>6 DEF r

\* Steps that leave the memory alone.
LEMMA Beginning ==
  ASSUME NEW C \in SUBSET Cell, NEW m
  PROVE  /\ Does(<<Bg, Sn(C)>>, m, m, {}) /\ Does(<<Cm>>, m, m, {})
         /\ Does(<<Fl(C)>>, m, m, {}) /\ Does(<<Al(C)>>, m, m, C)
         /\ Does(<<Sn(C)>>, m, m, {}) /\ Does(<<Bg, TAl(C)>>, m, m, C)
         /\ \A D \in SUBSET Cell : Does(<<Bg, Sn(C), TAl(D)>>, m, m, D)
<1>1. /\ Bg \in Step /\ Sn(C) \in Step /\ Cm \in Step /\ Fl(C) \in Step
      /\ Al(C) \in Step /\ \A D \in SUBSET Cell : TAl(D) \in Step
  BY StepKinds
<1>2. /\ Releases(Bg) = {} /\ Releases(Sn(C)) = {} /\ Releases(Cm) = {}
      /\ Releases(Fl(C)) = {} /\ Releases(Al(C)) = {}
      /\ \A D : Releases(TAl(D)) = {}
  BY DEF Releases, Bg, Sn, Cm, Fl, Al, TAl
<1>3. /\ Assigns(Bg) = {} /\ Assigns(Sn(C)) = {} /\ Assigns(Cm) = {}
      /\ Assigns(Fl(C)) = {} /\ Assigns(Al(C)) = {}
      /\ \A D : Assigns(TAl(D)) = {}
  BY StepAssigns
<1>4. /\ Allocates(Bg) = {} /\ Allocates(Sn(C)) = {} /\ Allocates(Cm) = {}
      /\ Allocates(Fl(C)) = {} /\ Allocates(Al(C)) = C
      /\ \A D : Allocates(TAl(D)) = D
  BY StepLogs
<1>5. /\ \A d : /\ After(Bg, d, m[d]) = m[d] /\ After(Sn(C), d, m[d]) = m[d]
                /\ After(Cm, d, m[d]) = m[d] /\ After(Fl(C), d, m[d]) = m[d]
                /\ After(Al(C), d, m[d]) = m[d]
      /\ \A D, d : After(TAl(D), d, m[d]) = m[d]
  BY <1>3 DEF After
<1>6. /\ Does(<<Cm>>, m, m, {}) /\ Does(<<Fl(C)>>, m, m, {})
      /\ Does(<<Al(C)>>, m, m, C) /\ Does(<<Sn(C)>>, m, m, {})
      /\ Does(<<Bg, TAl(C)>>, m, m, C)
  <2>1. Does(<<Cm>>, m, m, Allocates(Cm)) BY <1>1, <1>2, <1>5, DoesOne
  <2>2. Does(<<Fl(C)>>, m, m, Allocates(Fl(C))) BY <1>1, <1>2, <1>5, DoesOne
  <2>3. Does(<<Al(C)>>, m, m, Allocates(Al(C))) BY <1>1, <1>2, <1>5, DoesOne
  <2>4. Does(<<Sn(C)>>, m, m, Allocates(Sn(C))) BY <1>1, <1>2, <1>5, DoesOne
  <2>5. Does(<<Bg, TAl(C)>>, m, m, Allocates(Bg) \cup Allocates(TAl(C)))
    BY <1>1, <1>2, <1>5, DoesTwo
  <2> QED BY <1>4, <2>1, <2>2, <2>3, <2>4, <2>5
<1>7. Does(<<Bg, Sn(C)>>, m, m, {})
  <2>1. Does(<<Bg, Sn(C)>>, m, m, Allocates(Bg) \cup Allocates(Sn(C)))
    BY <1>1, <1>2, <1>5, DoesTwo
  <2> QED BY <1>4, <2>1
<1>8. ASSUME NEW D \in SUBSET Cell PROVE Does(<<Bg, Sn(C), TAl(D)>>, m, m, D)
  <2>1. Does(<<Bg, Sn(C), TAl(D)>>, m, m,
             Allocates(Bg) \cup Allocates(Sn(C)) \cup Allocates(TAl(D)))
    BY <1>1, <1>2, <1>5, DoesThree
  <2> QED BY <1>4, <2>1
<1> QED BY <1>6, <1>7, <1>8

\* A cell that is given a value, in steps of which the first leaves it torn.
Put(m, c, v) == [d \in Cell |-> IF d = c THEN v ELSE m[d]]

LEMMA CopyDoes ==
  ASSUME Torn \in Value, NEW c \in Cell, NEW v \in Value, NEW m
  PROVE  /\ Does(Cp(c, v), m, Put(m, c, v), {})
         /\ Does(CpFl(c, v), m, Put(m, c, v), {})
         /\ \A j \in DOMAIN Cp(c, v) : Cp(c, v)[j].op = "store" /\ Cp(c, v)[j].c = c
<1> DEFINE s == St(c, Torn)  t == St(c, v)  f == Fl({c})
<1>1. /\ s \in Step /\ t \in Step /\ f \in Step BY StepKinds
<1>2. Releases(s) = {} /\ Releases(t) = {} /\ Releases(f) = {}
  BY DEF Releases, St, Fl
<1>3. Allocates(s) = {} /\ Allocates(t) = {} /\ Allocates(f) = {}
  BY StepLogs
<1>4. \A d, x : /\ After(s, d, x) = IF d = c THEN Torn ELSE x
                /\ After(t, d, x) = IF d = c THEN v ELSE x
                /\ After(f, d, x) = x
  BY StepAssigns DEF After
<1>5. Cp(c, v) = <<s, t>> /\ CpFl(c, v) = <<s, t>> \o <<f>> BY DEF Cp, CpFl
<1>6. s.op = "store" /\ t.op = "store" /\ s.c = c /\ t.c = c BY DEF St
<1> HIDE DEF s, t, f
<1>7. CpFl(c, v) = <<s, t, f>> BY <1>5, Join21
<1>8. \A d \in Cell : Put(m, c, v)[d] = IF d = c THEN v ELSE m[d] BY DEF Put
<1> DEFINE G == Put(m, c, v)
<1> HIDE DEF G
<1>9. Does(<<s, t>>, m, G, {})
  <2>1. \A d \in Cell : G[d] = After(t, d, After(s, d, m[d]))
    BY <1>4, <1>8 DEF G
  <2>2. Does(<<s, t>>, m, G, Allocates(s) \cup Allocates(t))
    BY <1>1, <1>2, <2>1, DoesTwo
  <2> QED BY <1>3, <2>2
<1>10. Does(<<s, t, f>>, m, G, {})
  <2>1. \A d \in Cell : G[d] = After(f, d, After(t, d, After(s, d, m[d])))
    BY <1>4, <1>8 DEF G
  <2>2. Does(<<s, t, f>>, m, G, Allocates(s) \cup Allocates(t) \cup Allocates(f))
    BY <1>1, <1>2, <2>1, DoesThree
  <2> QED BY <1>3, <2>2
<1>11. \A j \in DOMAIN <<s, t>> : <<s, t>>[j].op = "store" /\ <<s, t>>[j].c = c
  BY <1>6
<1> QED BY <1>5, <1>7, <1>9, <1>10, <1>11 DEF G

\* A set in any order.
LEMMA SetToSeqIs ==
  ASSUME NEW S, IsFiniteSet(S)
  PROVE  LET q == SetToSeq(S) IN
         /\ q \in Seq(S) /\ \A x \in S : \E j \in DOMAIN q : q[j] = x
         /\ \A i, j \in DOMAIN q : q[i] = q[j] => i = j
<1> DEFINE n == Cardinality(S)  q == SetToSeq(S)
<1>1. n \in Nat /\ ExistsBijection(1..n, S) BY FS_CardinalityType, Zenon
<1>2. \E f \in [1..n -> S] : IsInjective(f)
  BY <1>1, Zenon DEF ExistsBijection, Bijection, Injection
<1>3. q \in [1..n -> S] /\ IsInjective(q) BY <1>2, Zenon DEF SetToSeq
<1> HIDE DEF q
<1>4. q \in Injection(1..n, S) BY <1>3, Zenon DEF Injection
<1>5. Cardinality(1..n) = n
  <2>1. Cardinality(1..n) = IF 1 > n THEN 0 ELSE n - 1 + 1
    BY <1>1, FS_Interval
  <2> HIDE DEF n
  <2> QED BY <1>1, <2>1
<1>6. q \in Surjection(1..n, S)
  <2>1. Cardinality(1..n) = Cardinality(S) BY <1>5
  <2> QED BY <1>4, <2>1, FS_Injection, Zenon
<1>7. DOMAIN q = 1..n BY <1>3, Zenon
<1>8. \A x \in S : \E j \in DOMAIN q : q[j] = x
  BY <1>6, <1>7, Zenon DEF Surjection
<1>9. \A i, j \in DOMAIN q : q[i] = q[j] => i = j
  BY <1>3, Zenon DEF IsInjective
<1> HIDE DEF n
<1>10. q \in Seq(S) BY <1>1, <1>3
<1> QED BY <1>8, <1>9, <1>10 DEF q

\* Stores of one value to several cells, in any order.
LEMMA DoesStores ==
  ASSUME NEW B, IsFiniteSet(B), NEW f \in [B -> Cell],
         \A x, y \in B : f[x] = f[y] => x = y, NEW v \in Value, NEW m, NEW F,
         \A c \in Cell : F[c] = IF \E x \in B : c = f[x] THEN v ELSE m[c]
  PROVE  Does(SetToSeq({St(f[x], v) : x \in B}), m, F, {})
<1> DEFINE S == {St(f[x], v) : x \in B}
           g == [x \in B |-> St(f[x], v)]
           q == SetToSeq(S)
<1>1. \A x, y \in B : St(f[x], v) = St(f[y], v) => x = y
  BY DEF St
<1>2. g \in [B -> S] /\ \A x, y \in B : g[x] = g[y] => x = y BY <1>1
<1>3. \A s \in S : \E x \in B : g[x] = s OBVIOUS
<1>4. \A s \in S : \E x \in B : s = St(f[x], v) OBVIOUS
<1>5. \A x \in B : St(f[x], v) \in S OBVIOUS
<1> HIDE DEF S, g
<1>6. g \in Bijection(B, S)
  BY <1>2, <1>3 DEF Bijection, Injection, Surjection, IsInjective
<1>7. IsFiniteSet(S)
  <2>1. ExistsBijection(B, S) BY <1>6, Zenon DEF ExistsBijection
  <2> QED BY <2>1, FS_Bijection, Zenon
<1>8. /\ q \in Seq(S) /\ \A s \in S : \E j \in DOMAIN q : q[j] = s
      /\ \A i, j \in DOMAIN q : q[i] = q[j] => i = j
  BY <1>7, SetToSeqIs, Zenon
<1> HIDE DEF q
<1>9. \A j \in DOMAIN q : \E x \in B : q[j] = St(f[x], v)
  <2> TAKE j \in DOMAIN q
  <2>1. q[j] \in S BY <1>8, LenProperties
  <2> QED BY <1>4, <2>1
<1>10. /\ \A j \in DOMAIN q : /\ q[j] \in Step /\ Allocates(q[j]) = {}
                              /\ Releases(q[j]) = {}
       /\ q \in Seq(Step)
  <2>1. \A x \in B : St(f[x], v) \in Step BY StepKinds
  <2>2. \A s \in S : s \in Step
    <3> TAKE s \in S
    <3>1. PICK x \in B : s = St(f[x], v) BY <1>4
    <3> QED BY <2>1, <3>1
  <2>3. q \in Seq(Step) BY <1>8, <2>2
  <2>4. \A c : Releases(St(c, v)) = {} /\ Allocates(St(c, v)) = {}
    BY StepLogs DEF Releases, St
  <2>5. \A j \in DOMAIN q : /\ q[j] \in Step /\ Allocates(q[j]) = {}
                            /\ Releases(q[j]) = {}
    <3> TAKE j \in DOMAIN q
    <3>1. PICK x \in B : q[j] = St(f[x], v) BY <1>9
    <3> QED BY <2>1, <2>4, <3>1
  <2> QED BY <2>3, <2>5
<1>11. Yields(q, m, F)
  <2> SUFFICES ASSUME NEW c \in Cell
               PROVE  \/ /\ F[c] = m[c]
                         /\ \A j \in DOMAIN q : c \notin Assigns(q[j])
                      \/ \E j \in DOMAIN q :
                           /\ c \in Assigns(q[j]) /\ F[c] = Assigned(q[j], c)
                           /\ \A i \in DOMAIN q : i > j => c \notin Assigns(q[i])
    BY DEF Yields
  <2>1. \A d : Assigns(St(d, v)) = {d} /\ Assigned(St(d, v), d) = v
    BY StepAssigns
  <2>2. CASE \E x \in B : c = f[x]
    <3>1. PICK x \in B : c = f[x] BY <2>2
    <3>2. PICK j \in DOMAIN q : q[j] = St(f[x], v) BY <1>5, <1>8
    <3>3. ASSUME NEW i \in DOMAIN q, c \in Assigns(q[i]) PROVE i = j
      <4>1. PICK y \in B : q[i] = St(f[y], v) BY <1>9
      <4>2. f[y] = f[x] BY <2>1, <3>1, <3>3, <4>1
      <4> QED BY <1>8, <3>2, <4>1, <4>2
    <3>4. c \in Assigns(q[j]) /\ F[c] = Assigned(q[j], c)
      BY <2>1, <2>2, <3>1, <3>2
    <3>5. \A i \in DOMAIN q : i > j => i # j
      <4>1. DOMAIN q = 1..Len(q) /\ Len(q) \in Nat BY <1>8, LenProperties
      <4> QED BY <4>1
    <3> QED BY <3>3, <3>4, <3>5
  <2>3. CASE ~\E x \in B : c = f[x]
    <3>1. ASSUME NEW j \in DOMAIN q PROVE c \notin Assigns(q[j])
      <4>1. PICK x \in B : q[j] = St(f[x], v) BY <1>9
      <4> QED BY <2>1, <2>3, <4>1
    <3> QED BY <2>3, <3>1
  <2> QED BY <2>2, <2>3
<1>12. ToAllocate(q) = {} BY <1>10 DEF ToAllocate
<1>13. FreesNothing(q) BY <1>10 DEF FreesNothing
<1> QED BY <1>10, <1>11, <1>12, <1>13 DEF Does, q, S

\* A part of a transaction that stores only what is logged before it.
LEMMA LogsFirstAll ==
  ASSUME NEW p, NEW A,
         \A j \in DOMAIN p :
           /\ p[j].op \in {"store", "tx_begin", "tx_add_range", "tx_alloc",
                           "tx_zalloc", "tx_free"}
           /\ p[j].op = "store" => p[j].c \in A
  PROVE  LogsFirst(p, A) /\ \A j \in DOMAIN p : p[j].op # "tx_end"
BY DEF LogsFirst

\* A transaction: it begins and logs B, then stores in B and frees, then ends.
LEMMA TransactionIs ==
  ASSUME NEW p \in Seq(Step), NEW c \in Seq(Step), NEW q \in Seq(Step), NEW B,
         B \subseteq ToLog(p),
         \A j \in DOMAIN p : p[j].op \in {"tx_begin", "tx_add_range", "tx_alloc"},
         \A j \in DOMAIN c : /\ c[j].op \in {"store", "tx_free"}
                             /\ c[j].op = "store" => c[j].c \in B,
         LogsFirst(q, B), NEW A
  PROVE  LogsFirst(p \o c \o q, A)
<1>1. LogsFirst(p, A) /\ \A j \in DOMAIN p : p[j].op # "tx_end"
  BY LogsFirstAll
<1>2. LogsFirst(c, A \cup ToLog(p)) /\ \A j \in DOMAIN c : c[j].op # "tx_end"
  BY LogsFirstAll
<1>3. \A D : B \subseteq D => LogsFirst(q, D) BY Zenon DEF LogsFirst
<1>4. LogsFirst(q, (A \cup ToLog(p)) \cup ToLog(c)) BY <1>3
<1>5. LogsFirst(c \o q, A \cup ToLog(p)) BY <1>2, <1>4, ToLogConcat
<1>6. c \o q \in Seq(Step) BY ConcatMembers
<1>7. LogsFirst(p \o (c \o q), A) BY <1>1, <1>5, <1>6, ToLogConcat
<1>8. (p \o c) \o q = p \o (c \o q) BY ConcatAssociative
<1> QED BY <1>7, <1>8

\* Where a program ends does not depend on what comes before.
LEMMA EndsTxConcat ==
  ASSUME NEW p \in Seq(Step), NEW q \in Seq(Step), q # <<>>, EndsTx(q)
  PROVE  EndsTx(p \o q)
<1> DEFINE r == p \o q
<1>1. /\ r \in Seq(Step) /\ Len(r) = Len(p) + Len(q)
      /\ Len(p) \in Nat /\ Len(q) \in Nat /\ DOMAIN q = 1..Len(q)
      /\ \A j \in DOMAIN q : Len(p) + j \in DOMAIN r /\ r[Len(p) + j] = q[j]
  BY ConcatIs
<1> HIDE DEF r
<1>2. Len(q) # 0 BY EmptySeq
<1>3. Len(q) \in DOMAIN q BY <1>1, <1>2
<1>4. r[Len(r)] = q[Len(q)] BY <1>1, <1>3
<1> QED BY <1>4 DEF EndsTx, r

LEMMA EndsTxTail ==
  ASSUME NEW p \in Seq(Step), p # <<>>, EndsTx(p) PROVE EndsTx(Tail(p))
<1> DEFINE q == Tail(p)
<1>1. /\ Len(p) \in Nat \ {0} /\ Len(q) = Len(p) - 1 /\ q \in Seq(Step)
      /\ \A j \in 1..(Len(p) - 1) : q[j] = p[j + 1]
  BY TailIs, Zenon
<1> HIDE DEF q
<1>2. SUFFICES ASSUME q # <<>> PROVE q[Len(q)].op = "tx_end"
  BY DEF EndsTx, q
<1>3. Len(q) # 0 BY <1>1, <1>2, EmptySeq
<1>4. q[Len(q)] = p[Len(p)] BY <1>1, <1>3
<1> QED BY <1>4 DEF EndsTx

-----------------------------------------------------------------------------
(***************************************************************************)
(* The programs of the actors.                                             *)
(***************************************************************************)

\* Only one actor has steps to perform: the lock keeps updates apart, and main
\* runs init and destroy while no thread is in a call.
LEMMA OneProgram ==
  ASSUME CallInv, NEW a \in Actor, prog[a] # <<>>, NEW b \in Actor, b # a
  PROVE  prog[b] = <<>>
<1>1. ASSUME NEW t \in Thread, prog[t] # <<>>
      PROVE  Updating(t) /\ phase = "serve"
  BY <1>1 DEF CallInv, ProgramsOwned, CallsServed, Quiet, Updating
<1>2. prog[main] # <<>> => phase # "serve" BY DEF CallInv, ProgramsOwned
<1>3. \A t, u \in Thread : prog[t] # <<>> /\ prog[u] # <<>> => t = u
  BY <1>1 DEF CallInv, Excluded, Updating
<1> QED BY <1>1, <1>2, <1>3 DEF Actor

\* A memory step of an actor, seen as a step of its program.
LEMMA ExecDoes ==
  ASSUME CallInv, MemoryTypeOK, ProgramsTyped, NEW a \in Actor, Exec(a)
  PROVE  LET u == prog[a][1] IN
         /\ prog[a] \in Seq(Step) /\ prog[a] # <<>>
         /\ u \in Step /\ MemoryStep(u) /\ prog'[a] = Tail(prog[a])
         /\ \A b \in Actor \ {a} : prog[b] = <<>> /\ prog'[b] = <<>>
         /\ MemoryTypeOK' /\ ProgramsTyped'
         /\ \A F : Yields(prog[a], mem, F) => Yields(prog'[a], mem', F)
         /\ ToAllocate(prog[a]) = Allocates(u) \cup ToAllocate(prog'[a])
         /\ live' \subseteq live \cup Allocates(u)
<1> DEFINE u == prog[a][1]
<1>1. /\ prog[a] # <<>> /\ MemoryStep(Head(prog[a]))
      /\ prog'[a] = Tail(prog[a])
      /\ \A b \in Actor \ {a} : prog'[b] = prog[b]
  BY ExecIs
<1>2. prog[a] \in Seq(Step) BY DEF ProgramsTyped
<1>3. Head(prog[a]) = u /\ u \in Step /\ Tail(prog[a]) \in Seq(Step)
  BY <1>1, <1>2, TailIs
<1>4. MemoryStep(u) BY <1>1, <1>3
<1> HIDE DEF u
<1>5. /\ MemoryTypeOK'
      /\ \A c \in Cell : mem'[c] = IF c \in Assigns(u) THEN Assigned(u, c)
                                   ELSE mem[c]
      /\ live' \subseteq live \cup Allocates(u)
  BY <1>3, <1>4, StepDoes
<1>6. ProgramsTyped'
  <2>1. prog' = [b \in Actor |-> prog'[b]]
    BY ExecCalls DEF CallInv, CallTypeOK
  <2>2. \A b \in Actor : prog'[b] \in Seq(Step)
    BY <1>1, <1>3 DEF ProgramsTyped
  <2> QED BY <2>1, <2>2, Zenon DEF ProgramsTyped
<1>7. ASSUME NEW F, Yields(prog[a], mem, F)
      PROVE  Yields(Tail(prog[a]), mem', F)
  <2> DEFINE p == prog[a]
  <2>1. p \in Seq(Step) /\ p # <<>> /\ Yields(p, mem, F) /\ p[1] = u
    BY <1>1, <1>2, <1>7 DEF u
  <2> HIDE DEF p
  <2>2. Yields(Tail(p), mem', F) BY <1>5, <2>1, YieldsRest
  <2> QED BY <2>2 DEF p
<1>8. ToAllocate(prog[a]) = Allocates(u) \cup ToAllocate(Tail(prog[a]))
  BY <1>1, <1>2, ToAllocateTail DEF u
<1>9. \A b \in Actor \ {a} : prog[b] = <<>> BY <1>1, OneProgram
<1> QED
  BY <1>1, <1>2, <1>3, <1>4, <1>5, <1>6, <1>7, <1>8, <1>9, Zenon DEF u

\* An actor that starts a program.
LEMMA StartsProgram ==
  ASSUME CallInv, ProgramsTyped, NEW a \in Actor, NEW p \in Seq(Step),
         prog' = [prog EXCEPT ![a] = p]
  PROVE  ProgramsTyped' /\ prog'[a] = p
         /\ \A b \in Actor \ {a} : prog'[b] = prog[b]
BY DEF CallInv, CallTypeOK, ProgramsTyped

\* The step is one of a transaction that keeps to TxDiscipline.
LEMMA ExecTx ==
  ASSUME CallInv, MemoryTypeOK, ProgramsTyped, TxPrograms,
         cls.medium = "tx", NEW a \in Actor, Exec(a)
  PROVE  /\ TxPrograms'
         /\ \A c \in live : mem'[c] # mem[c] => c \in Logged
         /\ live' \ live \subseteq fresh'
         /\ live \ live' # {} => intx /\ ~intx'
<1> DEFINE p == prog[a]  u == p[1]
<1>1. /\ p \in Seq(Step) /\ p # <<>> /\ u \in Step /\ MemoryStep(u)
      /\ prog'[a] = Tail(p)
      /\ \A b \in Actor \ {a} : prog'[b] = <<>>
  BY ExecDoes, Zenon
<1>2. LogsFirst(p, Logged) BY DEF TxPrograms
<1> HIDE DEF p
<1>3. /\ LogsFirst(Tail(p), Logged \cup Logs(u))
      /\ u.op = "tx_end" => Tail(p) = <<>>
      /\ u.op = "store" => u.c \in Logged
      /\ u.op \in {"store", "tx_begin", "tx_add_range", "tx_alloc",
                   "tx_zalloc", "tx_free", "tx_end"}
  BY <1>1, <1>2, LogsFirstTail
<1> HIDE DEF u
<1>4. /\ \A c \in live : mem'[c] # mem[c] => c \in Logged
      /\ live' \ live \subseteq fresh'
      /\ live \ live' # {} => intx /\ ~intx'
      /\ u.op # "tx_end" => Logged \cup Logs(u) \subseteq Logged'
  BY <1>1, <1>3, TxStepDoes
<1>5. \A A : LogsFirst(<<>>, A) BY DEF LogsFirst
<1>6. LogsFirst(prog'[a], Logged')
  <2>1. CASE u.op = "tx_end" BY <1>1, <1>3, <1>5, <2>1
  <2>2. CASE u.op # "tx_end"
    <3>1. Logged \cup Logs(u) \subseteq Logged' BY <1>4, <2>2
    <3>2. LogsFirst(Tail(p), Logged')
      BY <1>3, <3>1, Zenon DEF LogsFirst
    <3> QED BY <1>1, <3>2
  <2> QED BY <2>1, <2>2
<1>7. TxPrograms' BY <1>1, <1>5, <1>6 DEF TxPrograms
<1> QED BY <1>4, <1>7

-----------------------------------------------------------------------------
(***************************************************************************)
(* Sequences of sequences.                                                 *)
(***************************************************************************)

\* FlattenSeq is defined by a recursive function, which exists.
LEMMA FlattenRecursion ==
  ASSUME NEW ss, Len(ss) \in Nat \ {0}
  PROVE  \E f : /\ FlattenSeq(ss) = f[Len(ss)] /\ f[1] = ss[1]
                /\ \A n \in 2..Len(ss) : f[n] = f[n - 1] \o ss[n]
<1> DEFINE Def(f, n) ==
             f = [i \in 1..n |-> IF i = 1 THEN ss[i] ELSE f[i - 1] \o ss[i]]
           T == {n \in Nat : \E f : Def(f, n)}
<1>1. 0 \in T
  <2>1. Def([i \in {} |-> 0], 0) OBVIOUS
  <2> QED BY <2>1
<1>2. ASSUME NEW n \in T PROVE n + 1 \in T
  <2>1. n \in Nat OBVIOUS
  <2>2. PICK f : Def(f, n) OBVIOUS
  <2> DEFINE g == [i \in 1..(n + 1) |->
                     IF i = 1 THEN ss[i] ELSE f[i - 1] \o ss[i]]
  <2>3. \A i \in 1..n : f[i] = IF i = 1 THEN ss[i] ELSE f[i - 1] \o ss[i]
    BY <2>2, Zenon
  <2>4. \A i \in 1..n : i \in 1..(n + 1) BY <2>1
  <2>5. \A i \in 1..n : g[i] = f[i] BY <2>3, <2>4, Zenon
  <2>6. \A i \in 1..(n + 1) : i = 1 \/ i - 1 \in 1..n BY <2>1
  <2>7. g = [i \in 1..(n + 1) |->
               IF i = 1 THEN ss[i] ELSE g[i - 1] \o ss[i]]
    <3> DEFINE h == [i \in 1..(n + 1) |->
                       IF i = 1 THEN ss[i] ELSE g[i - 1] \o ss[i]]
    <3>1. \A i \in 1..(n + 1) : g[i] = h[i] BY <2>5, <2>6, Zenon
    <3>2. g = [i \in 1..(n + 1) |-> g[i]] OBVIOUS
    <3>3. h = [i \in 1..(n + 1) |-> h[i]] OBVIOUS
    <3> HIDE DEF g, h
    <3>4. g = h BY <3>1, <3>2, <3>3
    <3> QED BY <3>4 DEF h
  <2>8. Def(g, n + 1) BY <2>7, Zenon
  <2> HIDE DEF Def, g
  <2> QED BY <2>1, <2>8
<1>3. T = Nat
  <2>1. T \subseteq Nat OBVIOUS
  <2> HIDE DEF T
  <2> QED BY <1>1, <1>2, <2>1, NumbersByInduction
<1>4. \E f : Def(f, Len(ss))
  <2>1. Len(ss) \in T BY <1>3
  <2> QED BY <2>1, Zenon
<1> DEFINE F == CHOOSE f : Def(f, Len(ss))
<1>5. Def(F, Len(ss)) BY <1>4, Zenon
<1>6. FlattenSeq(ss) = F[Len(ss)] BY DEF FlattenSeq
<1> HIDE DEF F
<1>7. \A i \in 1..Len(ss) : F[i] = IF i = 1 THEN ss[i] ELSE F[i - 1] \o ss[i]
  BY <1>5, Zenon
<1>8. 1 \in 1..Len(ss) /\ \A n \in 2..Len(ss) : n \in 1..Len(ss) /\ n # 1
  OBVIOUS
<1> QED BY <1>6, <1>7, <1>8, Zenon

\* What stands in a flattened sequence, and that it does so once if it stands
\* once in the sequences it is made of.
LEMMA FlattenIs ==
  ASSUME NEW S, NEW ss, Len(ss) \in Nat \ {0},
         \A n \in 1..Len(ss) : ss[n] \in Seq(S)
  PROVE  LET r == FlattenSeq(ss) IN
         /\ r \in Seq(S)
         /\ \A m \in DOMAIN r : \E n \in 1..Len(ss) : \E i \in DOMAIN ss[n] :
              r[m] = ss[n][i]
         /\ \A n \in 1..Len(ss) : \A i \in DOMAIN ss[n] : \E m \in DOMAIN r :
              r[m] = ss[n][i]
         /\ (\A n, l \in 1..Len(ss) : \A i \in DOMAIN ss[n], j \in DOMAIN ss[l] :
               ss[n][i] = ss[l][j] => n = l /\ i = j)
            => \A m, l \in DOMAIN r : r[m] = r[l] => m = l
<1>1. PICK f : /\ FlattenSeq(ss) = f[Len(ss)] /\ f[1] = ss[1]
               /\ \A n \in 2..Len(ss) : f[n] = f[n - 1] \o ss[n]
  BY FlattenRecursion
<1> DEFINE Once == \A n, l \in 1..Len(ss) :
                     \A i \in DOMAIN ss[n], j \in DOMAIN ss[l] :
                       ss[n][i] = ss[l][j] => n = l /\ i = j
           From(k) == \A m \in DOMAIN f[k] : \E n \in 1..k : \E i \in DOMAIN ss[n] :
                        f[k][m] = ss[n][i]
           All(k) == \A n \in 1..k : \A i \in DOMAIN ss[n] : \E m \in DOMAIN f[k] :
                       f[k][m] = ss[n][i]
           Apart(k) == Once => \A m, l \in DOMAIN f[k] : f[k][m] = f[k][l] => m = l
           Flat(k) == f[k] \in Seq(S) /\ From(k) /\ All(k) /\ Apart(k)
           T == {k \in Nat : k + 1 \in 1..Len(ss) => Flat(k + 1)}
<1>2. 0 \in T
  <2>1. 1 \in 1..Len(ss) /\ \A n \in 1..1 : n = 1 OBVIOUS
  <2>2. 1 \in 1..1 OBVIOUS
  <2>3. f[1] \in Seq(S) /\ From(1) BY <1>1, <2>1, <2>2, Zenon
  <2>4. All(1)
    <3> SUFFICES ASSUME NEW n \in 1..1, NEW i \in DOMAIN ss[n]
                 PROVE  \E m \in DOMAIN f[1] : f[1][m] = ss[n][i]
      OBVIOUS
    <3>1. f[1] = ss[n] BY <1>1, <2>1, Zenon
    <3>2. i \in DOMAIN f[1] /\ f[1][i] = ss[n][i] BY <3>1
    <3> QED BY <3>2
  <2>5. Once => \A m, l \in DOMAIN ss[1] : ss[1][m] = ss[1][l] => m = l
    BY <2>1, Zenon
  <2>6. Flat(1)
    <3>1. Apart(1)
      <4> HIDE DEF Once
      <4> QED BY <1>1, <2>5
    <3> QED BY <2>3, <2>4, <3>1, Zenon
  <2> HIDE DEF Flat
  <2> QED BY <2>6
<1>3. ASSUME NEW k \in T PROVE k + 1 \in T
  <2> DEFINE n == k + 2
  <2> SUFFICES ASSUME n \in 1..Len(ss) PROVE Flat(n)
    <3>1. k \in Nat /\ (k + 1) + 1 = n OBVIOUS
    <3> HIDE DEF Flat
    <3> QED BY <3>1
  <2>1. /\ k \in Nat /\ n \in 2..Len(ss) /\ n - 1 \in 1..Len(ss)
        /\ n - 1 = k + 1 /\ k + 1 \in 1..Len(ss)
        /\ 1..n = (1..(n - 1)) \cup {n} /\ n \notin 1..(n - 1)
        /\ 1..(n - 1) \subseteq 1..Len(ss)
    OBVIOUS
  <2>2. Flat(n - 1)
    <3> HIDE DEF Flat
    <3> QED BY <2>1
  <2> HIDE DEF n
  <2> DEFINE p == f[n - 1]  q == ss[n]  r == f[n]
  <2>3. /\ p \in Seq(S) /\ q \in Seq(S) /\ r = p \o q
        /\ From(n - 1) /\ All(n - 1) /\ Apart(n - 1)
    BY <1>1, <2>1, <2>2, Zenon
  <2> HIDE DEF From, All, Apart, Once
  <2>4. /\ r \in Seq(S)
        /\ Len(p) \in Nat /\ Len(q) \in Nat
        /\ DOMAIN p = 1..Len(p) /\ DOMAIN q = 1..Len(q)
        /\ DOMAIN r = 1..(Len(p) + Len(q))
        /\ \A j \in DOMAIN p : j \in DOMAIN r /\ r[j] = p[j]
        /\ \A j \in DOMAIN q : Len(p) + j \in DOMAIN r /\ r[Len(p) + j] = q[j]
        /\ \A j \in DOMAIN r :
             j \in DOMAIN p \/ (j > Len(p) /\ j - Len(p) \in DOMAIN q)
    <3> HIDE DEF p, q, r
    <3> SUFFICES ASSUME r = p \o q PROVE
          /\ p \o q \in Seq(S) /\ Len(p \o q) = Len(p) + Len(q)
          /\ Len(p) \in Nat /\ Len(q) \in Nat
          /\ DOMAIN p = 1..Len(p) /\ DOMAIN q = 1..Len(q)
          /\ DOMAIN (p \o q) = 1..(Len(p) + Len(q))
          /\ \A j \in DOMAIN p : j \in DOMAIN (p \o q) /\ (p \o q)[j] = p[j]
          /\ \A j \in DOMAIN q : /\ Len(p) + j \in DOMAIN (p \o q)
                                 /\ (p \o q)[Len(p) + j] = q[j]
          /\ \A j \in DOMAIN (p \o q) :
               j \in DOMAIN p \/ (j > Len(p) /\ j - Len(p) \in DOMAIN q)
      BY <2>3, Zenon
    <3> QED BY <2>3, ConcatIs, Zenon
  <2>5. \A j \in DOMAIN r : j \notin DOMAIN p =>
          j - Len(p) \in DOMAIN q /\ r[j] = q[j - Len(p)]
    <3> HIDE DEF p, q, r
    <3> TAKE j \in DOMAIN r
    <3> DEFINE i == j - Len(p)
    <3>1. j \notin DOMAIN p => i \in DOMAIN q /\ j = Len(p) + i BY <2>4
    <3> HIDE DEF i
    <3>2. j \notin DOMAIN p => i \in DOMAIN q /\ r[j] = q[i] BY <2>4, <3>1
    <3> QED BY <3>2 DEF i
  <2>6. From(n)
    <3>1. ASSUME NEW m \in DOMAIN r
          PROVE  \E l \in 1..n : \E i \in DOMAIN ss[l] : r[m] = ss[l][i]
      <4>1. CASE m \in DOMAIN p
        <5>1. \E l \in 1..(n - 1) : \E i \in DOMAIN ss[l] : p[m] = ss[l][i]
          BY <2>3, <4>1, Zenon DEF From
        <5>2. r[m] = p[m] BY <2>4, <4>1, Zenon
        <5> HIDE DEF p, r
        <5> QED BY <2>1, <5>1, <5>2, Zenon
      <4>2. CASE m \notin DOMAIN p
        <5>1. n \in 1..n BY <2>1
        <5> QED BY <2>5, <4>2, <5>1, Zenon
      <4> QED BY <4>1, <4>2
    <3> QED BY <3>1, Zenon DEF From
  <2>7. All(n)
    <3>1. ASSUME NEW l \in 1..n, NEW i \in DOMAIN ss[l]
          PROVE  \E m \in DOMAIN r : r[m] = ss[l][i]
      <4>1. CASE l = n BY <2>4, <4>1, Zenon
      <4>2. CASE l # n
        <5>1. l \in 1..(n - 1) BY <2>1, <4>2
        <5>2. \E m \in DOMAIN p : p[m] = ss[l][i]
          BY <2>3, <5>1, Zenon DEF All
        <5> QED BY <2>4, <5>2, Zenon
      <4> QED BY <4>1, <4>2
    <3> QED BY <3>1, Zenon DEF All
  <2>8. Apart(n)
    <3> SUFFICES ASSUME Once, NEW m \in DOMAIN r, NEW l \in DOMAIN r,
                        r[m] = r[l]
                 PROVE  m = l
      BY Zenon DEF Apart
    <3>1. \A i \in DOMAIN p, j \in DOMAIN q : p[i] # q[j]
      <4> TAKE i \in DOMAIN p, j \in DOMAIN q
      <4>1. PICK a \in 1..(n - 1) : \E b \in DOMAIN ss[a] : p[i] = ss[a][b]
        BY <2>3, Zenon DEF From
      <4>2. PICK b \in DOMAIN ss[a] : p[i] = ss[a][b] BY <4>1
      <4>3. a \in 1..Len(ss) /\ a # n BY <2>1
      <4> QED BY <4>2, <4>3, Zenon DEF Once
    <3>2. \A i, j \in DOMAIN q : q[i] = q[j] => i = j BY Zenon DEF Once
    <3>3. \A i, j \in DOMAIN p : p[i] = p[j] => i = j
      BY <2>3, Zenon DEF Apart
    <3> HIDE DEF p, q, r
    <3>4. CASE m \in DOMAIN p /\ l \in DOMAIN p BY <2>4, <3>3, <3>4
    <3>5. CASE m \notin DOMAIN p /\ l \notin DOMAIN p
      <4>1. m - Len(p) = l - Len(p) BY <2>5, <3>2, <3>5, Zenon
      <4> QED BY <2>4, <4>1
    <3>6. CASE m \in DOMAIN p /\ l \notin DOMAIN p
      BY <2>4, <2>5, <3>1, <3>6, Zenon
    <3>7. CASE m \notin DOMAIN p /\ l \in DOMAIN p
      BY <2>4, <2>5, <3>1, <3>7, Zenon
    <3> QED BY <3>4, <3>5, <3>6, <3>7
  <2> QED BY <2>4, <2>6, <2>7, <2>8
<1>4. T = Nat
  <2>1. T \subseteq Nat OBVIOUS
  <2> HIDE DEF T
  <2> QED BY <1>2, <1>3, <2>1, NumbersByInduction
<1>5. Flat(Len(ss))
  <2>1. Len(ss) - 1 \in Nat /\ (Len(ss) - 1) + 1 = Len(ss)
        /\ Len(ss) \in 1..Len(ss)
    OBVIOUS
  <2> HIDE DEF Flat
  <2>2. Len(ss) - 1 \in T BY <1>4, <2>1
  <2> QED BY <2>1, <2>2
<1> DEFINE r == f[Len(ss)]
<1>6. r \in Seq(S) /\ From(Len(ss)) BY <1>5, Zenon
<1>7. All(Len(ss)) /\ Apart(Len(ss)) BY <1>5, Zenon
<1>8. /\ r \in Seq(S)
      /\ \A m \in DOMAIN r : \E n \in 1..Len(ss) : \E i \in DOMAIN ss[n] :
           r[m] = ss[n][i]
      /\ \A n \in 1..Len(ss) : \A i \in DOMAIN ss[n] : \E m \in DOMAIN r :
           r[m] = ss[n][i]
      /\ (\A n, l \in 1..Len(ss) : \A i \in DOMAIN ss[n], j \in DOMAIN ss[l] :
            ss[n][i] = ss[l][j] => n = l /\ i = j)
         => \A m, l \in DOMAIN r : r[m] = r[l] => m = l
  BY <1>6, <1>7, Zenon
<1> HIDE DEF r
<1>9. FlattenSeq(ss) = r BY <1>1 DEF r
<1> QED BY <1>8, <1>9

\* The flattening of sequences that are programs of S is one.
LEMMA FlattenSteps ==
  ASSUME NEW S, NEW n \in Nat, NEW ss, ss = [i \in 1..n |-> ss[i]],
         \A i \in 1..n : ss[i] \in Seq(S)
  PROVE  FlattenSeq(ss) \in Seq(S)
<1>1. Len(ss) = n
  <2>1. ss \in Seq(Seq(S)) BY LenProperties
  <2> QED BY <2>1
<1>2. CASE n = 0
  <2>1. FlattenSeq(ss) = ss BY <1>1, <1>2 DEF FlattenSeq
  <2>2. ss \in Seq(S) BY <1>2
  <2> QED BY <2>1, <2>2
<1>3. CASE n # 0
  <2>1. Len(ss) \in Nat \ {0} /\ \A i \in 1..Len(ss) : ss[i] \in Seq(S)
    BY <1>1, <1>3
  <2> QED BY <2>1, FlattenIs, Zenon
<1> QED BY <1>2, <1>3

LEMMA NoEndConcat ==
  ASSUME NEW p \in Seq(Step), NEW q \in Seq(Step),
         \A j \in DOMAIN p : p[j].op # "tx_end",
         \A j \in DOMAIN q : q[j].op # "tx_end"
  PROVE  /\ p \o q \in Seq(Step)
         /\ \A j \in DOMAIN (p \o q) : (p \o q)[j].op # "tx_end"
<1>1. /\ p \o q \in Seq(Step)
      /\ \A j \in DOMAIN (p \o q) : \/ \E i \in DOMAIN p : (p \o q)[j] = p[i]
                                    \/ \E i \in DOMAIN q : (p \o q)[j] = q[i]
  BY ConcatMembers
<1> QED BY <1>1, Zenon

\* Parts of a transaction that each log what they store, given A.
LEMMA FlattenLogs ==
  ASSUME NEW n \in Nat, NEW ss, ss = [i \in 1..n |-> ss[i]], NEW A,
         \A i \in 1..n : /\ ss[i] \in Seq(Step) /\ \A L : LogsFirst(ss[i], A \cup L)
                         /\ \A j \in DOMAIN ss[i] : ss[i][j].op # "tx_end"
  PROVE  /\ LogsFirst(FlattenSeq(ss), A)
         /\ \A j \in DOMAIN FlattenSeq(ss) : FlattenSeq(ss)[j].op # "tx_end"
<1>1. Len(ss) = n
  <2>1. ss \in Seq(Seq(Step)) OBVIOUS
  <2> QED BY <2>1
<1>2. CASE n = 0
  <2>1. FlattenSeq(ss) = ss BY <1>1, <1>2 DEF FlattenSeq
  <2>2. DOMAIN ss = {} BY <1>2
  <2> QED BY <2>1, <2>2 DEF LogsFirst
<1>3. CASE n # 0
  <2>1. Len(ss) \in Nat \ {0} BY <1>1, <1>3
  <2>2. PICK f : /\ FlattenSeq(ss) = f[Len(ss)] /\ f[1] = ss[1]
                 /\ \A i \in 2..Len(ss) : f[i] = f[i - 1] \o ss[i]
    BY <2>1, FlattenRecursion
  <2> DEFINE Ok(p) == /\ p \in Seq(Step) /\ \A L : LogsFirst(p, A \cup L)
                      /\ \A j \in DOMAIN p : p[j].op # "tx_end"
             T == {k \in Nat : k + 1 \in 1..n => Ok(f[k + 1])}
  <2>3. \A i \in 1..n : Ok(ss[i]) OBVIOUS
  <2>4. 0 \in T
    <3>1. 1 \in 1..n /\ 0 + 1 = 1 BY <1>3
    <3>2. Ok(f[1]) BY <2>2, <2>3, <3>1, Zenon
    <3> HIDE DEF Ok
    <3> QED BY <3>1, <3>2
  <2>5. ASSUME NEW k \in T PROVE k + 1 \in T
    <3> SUFFICES ASSUME k + 2 \in 1..n PROVE Ok(f[k + 2])
      <4>1. k \in Nat /\ (k + 1) + 1 = k + 2 OBVIOUS
      <4> HIDE DEF Ok
      <4> QED BY <4>1
    <3>1. /\ k \in Nat /\ k + 2 \in 2..Len(ss) /\ (k + 2) - 1 = k + 1
          /\ k + 1 \in 1..n /\ k + 2 \in 1..n
      BY <1>1
    <3> DEFINE p == f[k + 1]  q == ss[k + 2]
    <3>2. Ok(p) /\ Ok(q)
      <4> HIDE DEF Ok
      <4> QED BY <2>3, <3>1
    <3>3. f[k + 2] = p \o q
      <4>1. f[k + 2] = f[(k + 2) - 1] \o ss[k + 2] BY <2>2, <3>1, Zenon
      <4> QED BY <3>1, <4>1
    <3> HIDE DEF p, q
    <3>4. \A L : LogsFirst(p \o q, A \cup L)
      <4> TAKE L
      <4> DEFINE B == A \cup L
      <4>1. LogsFirst(p, B) BY <3>2, Zenon
      <4>2. LogsFirst(q, A \cup (L \cup ToLog(p))) BY <3>2, Zenon
      <4>3. A \cup (L \cup ToLog(p)) = B \cup ToLog(p) OBVIOUS
      <4>4. LogsFirst(q, B \cup ToLog(p)) BY <4>2, <4>3
      <4> HIDE DEF B
      <4>5. LogsFirst(p \o q, B) BY <3>2, <4>1, <4>4, ToLogConcat, Zenon
      <4> QED BY <4>5 DEF B
    <3>5. p \o q \in Seq(Step) /\ \A j \in DOMAIN (p \o q) : (p \o q)[j].op # "tx_end"
      BY <3>2, NoEndConcat, Zenon
    <3> QED BY <3>3, <3>4, <3>5
  <2>6. T = Nat
    <3>1. T \subseteq Nat OBVIOUS
    <3> HIDE DEF T
    <3> QED BY <2>4, <2>5, <3>1, NumbersByInduction
  <2>7. Ok(f[n])
    <3>1. n - 1 \in Nat /\ (n - 1) + 1 = n /\ n \in 1..n BY <1>3
    <3> HIDE DEF Ok
    <3>2. n - 1 \in T
      <4> HIDE DEF T
      <4> QED BY <2>6, <3>1
    <3> QED BY <3>1, <3>2
  <2>8. A \cup {} = A OBVIOUS
  <2>9. LogsFirst(f[n], A) BY <2>7, <2>8
  <2> QED BY <1>1, <2>2, <2>7, <2>9
<1> QED BY <1>2, <1>3

\* Programs one after the other, each from the memory the one before leaves.
LEMMA FlattenDoes ==
  ASSUME NEW n \in Nat \ {0}, NEW ss, ss = [i \in 1..n |-> ss[i]], NEW M,
         \A i \in 1..n : Does(ss[i], M[i - 1], M[i], {})
  PROVE  Does(FlattenSeq(ss), M[0], M[n], {})
<1>1. Len(ss) = n
  <2>1. \A i \in 1..n : ss[i] \in Seq(Step) BY DEF Does
  <2>2. ss \in Seq(Seq(Step)) BY <2>1
  <2> QED BY <2>2
<1>2. PICK f : /\ FlattenSeq(ss) = f[n] /\ f[1] = ss[1]
               /\ \A i \in 2..n : f[i] = f[i - 1] \o ss[i]
  <2>1. Len(ss) \in Nat \ {0} BY <1>1
  <2> QED BY <1>1, <2>1, FlattenRecursion
<1> DEFINE T == {k \in Nat : k + 1 \in 1..n => Does(f[k + 1], M[0], M[k + 1], {})}
<1>3. 0 \in T
  <2>1. 1 \in 1..n /\ 0 + 1 = 1 /\ 1 - 1 = 0 OBVIOUS
  <2>2. Does(ss[1], M[1 - 1], M[1], {}) BY <2>1, Zenon
  <2> QED BY <1>2, <2>1, <2>2
<1>4. ASSUME NEW k \in T PROVE k + 1 \in T
  <2> SUFFICES ASSUME k + 2 \in 1..n PROVE Does(f[k + 2], M[0], M[k + 2], {})
    <3>1. k \in Nat /\ (k + 1) + 1 = k + 2 OBVIOUS
    <3> QED BY <3>1
  <2>1. /\ k \in Nat /\ k + 2 \in 2..n /\ (k + 2) - 1 = k + 1
        /\ k + 1 \in 1..n /\ k + 2 \in 1..n
    OBVIOUS
  <2>2. Does(f[k + 1], M[0], M[k + 1], {}) BY <2>1
  <2>3. Does(ss[k + 2], M[k + 1], M[k + 2], {})
    <3>1. Does(ss[k + 2], M[(k + 2) - 1], M[k + 2], {}) BY <2>1, Zenon
    <3> QED BY <2>1, <3>1
  <2>4. f[k + 2] = f[k + 1] \o ss[k + 2]
    <3>1. f[k + 2] = f[(k + 2) - 1] \o ss[k + 2] BY <1>2, <2>1, Zenon
    <3> QED BY <2>1, <3>1
  <2>5. Does(f[k + 1] \o ss[k + 2], M[0], M[k + 2], {} \cup {})
    BY <2>2, <2>3, DoesConcat, Zenon
  <2>6. {} \cup {} = {} OBVIOUS
  <2> QED BY <2>4, <2>5, <2>6
<1>5. T = Nat
  <2>1. T \subseteq Nat OBVIOUS
  <2> HIDE DEF T
  <2> QED BY <1>3, <1>4, <2>1, NumbersByInduction
<1>6. n - 1 \in T /\ (n - 1) + 1 = n /\ n \in 1..n BY <1>5
<1> QED BY <1>2, <1>6

-----------------------------------------------------------------------------
(***************************************************************************)
(* Cells that hold nothing but certain values.                             *)
(***************************************************************************)
\* ... keep to them when a step stores nothing else in them, ...
LEMMA StepHoldsOnly ==
  ASSUME MemoryTypeOK, NEW u \in Step, MemoryStep(u), NEW C \in SUBSET Cell, NEW R,
         HoldOnly(C, R), \A c \in C \cap Assigns(u) : Assigned(u, c) \in R
  PROVE  HoldOnly(C, R)'
<1>1. \A c \in C : mem'[c] \in R
  <2>1. \A c \in Cell : mem'[c] = IF c \in Assigns(u) THEN Assigned(u, c)
                                  ELSE mem[c]
    BY StepDoes
  <2> QED BY <2>1 DEF HoldOnly
<1>2. \A c \in C : may'[c] \subseteq R
  <2>1. CASE u.op = "store"
    <3>1. Store(u.c, u.v) /\ Assigns(u) = {u.c} /\ \A c : Assigned(u, c) = u.v
      BY <2>1 DEF MemoryStep, Assigns, Assigned
    <3>2. may' = [may EXCEPT ![u.c] = IF u.c \in vol THEN {u.v} ELSE @ \cup {u.v}]
      BY <3>1 DEF Store
    <3> QED BY <3>1, <3>2 DEF HoldOnly, MemoryTypeOK
  <2>2. CASE u.op = "persist"
    <3>1. may' = [c \in Cell |-> IF c \in u.C THEN {mem[c]} ELSE may[c]]
      BY <2>2 DEF MemoryStep, Persist
    <3> QED BY <3>1 DEF HoldOnly
  <2>3. CASE u.op \in {"alloc", "free", "tx_begin", "tx_add_range", "tx_alloc",
                       "tx_free"}
    <3>1. may' = may
      BY <2>3 DEF MemoryStep, Alloc, Free, TxBegin, TxAddRange, TxAlloc, TxFree
    <3> QED BY <3>1 DEF HoldOnly
  <2>4. CASE u.op \in {"alloc_to", "free_in"}
    <3>1. /\ may' = [may EXCEPT ![u.c] = {Assigned(u, u.c)}]
          /\ Assigns(u) = {u.c}
      BY <2>4 DEF MemoryStep, AllocTo, FreeFrom, Assigns, Assigned
    <3> QED BY <3>1 DEF HoldOnly, MemoryTypeOK
  <2>5. CASE u.op \in {"zalloc_to", "tx_zalloc"}
    <3>1. \A d \in Cell : may'[d] = IF d \in Assigns(u) THEN {Assigned(u, d)}
                                    ELSE may[d]
      <4>1. CASE u.op = "zalloc_to"
        BY <4>1 DEF MemoryStep, ZAllocTo, Assigns, Assigned
      <4>2. CASE u.op = "tx_zalloc"
        <5>1. TxZAlloc(u.C) BY <4>2 DEF MemoryStep
        <5>2. Assigns(u) = u.C /\ \A d : Assigned(u, d) = Zero
          BY <4>2 DEF Assigns, Assigned
        <5> QED BY <5>1, <5>2 DEF TxZAlloc
      <4> QED BY <2>5, <4>1, <4>2
    <3>2. \A c \in C : c \in Cell /\ may[c] \subseteq R BY DEF HoldOnly
    <3>3. ASSUME NEW c \in C PROVE may'[c] \subseteq R
      <4>1. CASE c \in Assigns(u)
        <5>1. may'[c] = {Assigned(u, c)} /\ Assigned(u, c) \in R
          BY <3>1, <3>2, <4>1
        <5> QED BY <5>1
      <4>2. CASE c \notin Assigns(u) BY <3>1, <3>2, <4>2
      <4> QED BY <4>1, <4>2
    <3> QED BY <3>3
  <2>6. CASE u.op = "tx_end"
    <3>1. may' = [c \in Cell |-> IF c \in DOMAIN undo \cup fresh THEN {mem[c]}
                                 ELSE may[c]]
      BY <2>6 DEF MemoryStep, TxCommit
    <3> QED BY <3>1 DEF HoldOnly
  <2> QED BY <2>1, <2>2, <2>3, <2>4, <2>5, <2>6 DEF MemoryStep
<1>3. \A c \in C : c \in DOMAIN undo' => undo'[c] \in R
  <2>1. CASE u.op = "tx_add_range"
    <3>1. undo' = [c \in DOMAIN undo \cup u.C |->
                     IF c \in DOMAIN undo THEN undo[c] ELSE mem[c]]
      BY <2>1 DEF MemoryStep, TxAddRange
    <3> QED BY <3>1 DEF HoldOnly
  <2>2. CASE u.op = "tx_end"
    <3>1. undo' = NoUndo BY <2>2 DEF MemoryStep, TxCommit
    <3> QED BY <3>1, NoUndoFacts
  <2>3. CASE u.op \notin {"tx_add_range", "tx_end"}
    <3>1. undo' = undo
      BY <2>3 DEF MemoryStep, Store, Persist, Alloc, AllocTo, ZAllocTo, Free,
                  FreeFrom, TxBegin, TxAlloc, TxZAlloc, TxFree
    <3> QED BY <3>1 DEF HoldOnly
  <2> QED BY <2>1, <2>2, <2>3
<1> QED BY <1>1, <1>2, <1>3 DEF HoldOnly

\* ... when the process fails and the log is applied, ...
LEMMA FailHoldsOnly ==
  ASSUME MemoryTypeOK, NEW how, Fail(how), NEW C \in SUBSET Cell, NEW R,
         HoldOnly(C, R), Zero \in R
  PROVE  HoldOnly(C, R)'
<1>1. /\ mem' = [c \in Cell |-> AfterExit(c)]
      /\ may' = [c \in Cell |-> AfterFailure(c)] /\ undo' = NoUndo
  BY DEF Fail
<1>2. \A c \in C : AfterExit(c) \in R /\ AfterFailure(c) \subseteq R
  BY DEF HoldOnly, AfterExit, AfterFailure
<1>3. \A c \in C : mem'[c] \in R /\ may'[c] \subseteq R
  BY <1>1, <1>2
<1> QED BY <1>1, <1>3, NoUndoFacts DEF HoldOnly

\* ... and when the medium settles.
LEMMA SettleHoldsOnly ==
  ASSUME MemoryTypeOK, SettleNext, NEW C \in SUBSET Cell, NEW R, HoldOnly(C, R)
  PROVE  HoldOnly(C, R)'
<1>1. PICK d : \E v \in may[d] : Settle(d, v) BY DEF SettleNext
<1>2. PICK v \in may[d] : Settle(d, v) BY <1>1
<1>3. /\ mem' = [mem EXCEPT ![d] = v] /\ may' = [may EXCEPT ![d] = {v}]
      /\ undo' = undo
  BY <1>2 DEF Settle
<1> QED BY <1>2, <1>3 DEF HoldOnly, MemoryTypeOK

\* What a program stores, its rest does.
LEMMA StoresOnlyTail ==
  ASSUME NEW p \in Seq(Step), p # <<>>, NEW C, NEW R, StoresOnly(p, C, R)
  PROVE  /\ \A c \in C \cap Assigns(p[1]) : Assigned(p[1], c) \in R
         /\ StoresOnly(Tail(p), C, R)
<1>1. /\ Len(p) \in Nat \ {0} /\ DOMAIN p = 1..Len(p)
      /\ DOMAIN Tail(p) = 1..(Len(p) - 1)
      /\ \A j \in 1..(Len(p) - 1) : Tail(p)[j] = p[j + 1]
  BY TailIs
<1>2. 1 \in DOMAIN p /\ \A j \in DOMAIN Tail(p) : j + 1 \in DOMAIN p BY <1>1
<1> QED BY <1>1, <1>2 DEF StoresOnly

LEMMA FreesNothingTail ==
  ASSUME NEW p \in Seq(Step), p # <<>>, FreesNothing(p)
  PROVE  Releases(p[1]) = {} /\ FreesNothing(Tail(p))
<1>1. /\ Len(p) \in Nat \ {0} /\ DOMAIN p = 1..Len(p)
      /\ DOMAIN Tail(p) = 1..(Len(p) - 1)
      /\ \A j \in 1..(Len(p) - 1) : Tail(p)[j] = p[j + 1]
  BY TailIs
<1>2. 1 \in DOMAIN p /\ \A j \in DOMAIN Tail(p) : j + 1 \in DOMAIN p BY <1>1
<1> QED BY <1>1, <1>2 DEF FreesNothing

-----------------------------------------------------------------------------
(***************************************************************************)
(* Parts of a transaction that store only what they or A log.              *)
(***************************************************************************)
Part(p, A) ==
  /\ p \in Seq(Step) /\ \A L : LogsFirst(p, A \cup L)
  /\ \A j \in DOMAIN p : p[j].op # "tx_end"

LEMMA PartIs ==
  ASSUME NEW p \in Seq(Step), NEW A,
         \A j \in DOMAIN p :
           /\ p[j].op \in {"store", "tx_begin", "tx_add_range", "tx_alloc",
                           "tx_zalloc", "tx_free"}
           /\ p[j].op = "store" => p[j].c \in A
  PROVE  Part(p, A)
<1>1. ASSUME NEW L
      PROVE  LogsFirst(p, A \cup L) /\ \A j \in DOMAIN p : p[j].op # "tx_end"
  <2> DEFINE B == A \cup L
  <2>1. \A j \in DOMAIN p :
           /\ p[j].op \in {"store", "tx_begin", "tx_add_range", "tx_alloc",
                           "tx_zalloc", "tx_free"}
           /\ p[j].op = "store" => p[j].c \in B
    OBVIOUS
  <2> HIDE DEF B
  <2>2. LogsFirst(p, B) /\ \A j \in DOMAIN p : p[j].op # "tx_end"
    BY <2>1, LogsFirstAll, Zenon
  <2> QED BY <2>2 DEF B
<1> QED BY <1>1, Zenon DEF Part

\* One part after the other.
LEMMA PartConcat ==
  ASSUME NEW p, NEW q, NEW A, NEW B, Part(p, A), Part(q, B),
         B \subseteq A \cup ToLog(p)
  PROVE  /\ Part(p \o q, A)
         /\ ToLog(p) \subseteq ToLog(p \o q) /\ ToLog(q) \subseteq ToLog(p \o q)
<1>1. p \in Seq(Step) /\ q \in Seq(Step) BY DEF Part
<1>2. /\ p \o q \in Seq(Step)
      /\ \A j \in DOMAIN (p \o q) : (p \o q)[j].op # "tx_end"
  BY <1>1, NoEndConcat, Zenon DEF Part
<1>3. ASSUME NEW L PROVE LogsFirst(p \o q, A \cup L)
  <2> DEFINE D == A \cup L  E == D \cup ToLog(p)
  <2>1. LogsFirst(p, D) BY DEF Part
  <2>2. E = B \cup E OBVIOUS
  <2>3. LogsFirst(q, B \cup E) BY Zenon DEF Part
  <2>4. LogsFirst(q, E) BY <2>2, <2>3, Zenon
  <2>5. \A j \in DOMAIN p : p[j].op # "tx_end" BY DEF Part
  <2> HIDE DEF D
  <2>6. LogsFirst(p \o q, D) BY <1>1, <2>1, <2>4, <2>5, ToLogConcat, Zenon
  <2> QED BY <2>6 DEF D
<1>4. /\ ToLog(p) \subseteq ToLog(p \o q) /\ ToLog(q) \subseteq ToLog(p \o q)
  <2>1. /\ \A j \in DOMAIN p : j \in DOMAIN (p \o q) /\ (p \o q)[j] = p[j]
        /\ \A j \in DOMAIN q : /\ Len(p) + j \in DOMAIN (p \o q)
                               /\ (p \o q)[Len(p) + j] = q[j]
    BY <1>1, ConcatIs
  <2> DEFINE r == p \o q
  <2> HIDE DEF r
  <2> QED BY <2>1, Zenon DEF ToLog, r
<1> QED BY <1>2, <1>3, <1>4, Zenon DEF Part

LEMMA PartFlatten ==
  ASSUME NEW n \in Nat, NEW ss, ss = [i \in 1..n |-> ss[i]], NEW A,
         \A i \in 1..n : Part(ss[i], A)
  PROVE  Part(FlattenSeq(ss), A)
<1>1. \A i \in 1..n : ss[i] \in Seq(Step) BY DEF Part
<1>2. FlattenSeq(ss) \in Seq(Step) BY <1>1, FlattenSteps
<1>3. ASSUME NEW L
      PROVE  /\ LogsFirst(FlattenSeq(ss), A \cup L)
             /\ \A j \in DOMAIN FlattenSeq(ss) : FlattenSeq(ss)[j].op # "tx_end"
  <2> DEFINE B == A \cup L
  <2>1. ASSUME NEW i \in 1..n
        PROVE  /\ ss[i] \in Seq(Step) /\ \A M : LogsFirst(ss[i], B \cup M)
               /\ \A j \in DOMAIN ss[i] : ss[i][j].op # "tx_end"
    <3>1. \A M : B \cup M = A \cup (L \cup M) OBVIOUS
    <3>2. \A M : LogsFirst(ss[i], A \cup (L \cup M)) BY Zenon DEF Part
    <3>3. \A M : LogsFirst(ss[i], B \cup M) BY <3>1, <3>2, Zenon
    <3> QED BY <3>3, Zenon DEF Part
  <2> HIDE DEF B
  <2>2. /\ LogsFirst(FlattenSeq(ss), B)
        /\ \A j \in DOMAIN FlattenSeq(ss) : FlattenSeq(ss)[j].op # "tx_end"
    BY <2>1, FlattenLogs, Zenon
  <2> QED BY <2>2 DEF B
<1> QED BY <1>2, <1>3, Zenon DEF Part

\* TX_END completes a transaction whose parts keep to the log.
LEMMA PartsEnd ==
  ASSUME NEW p, Part(p, {}), NEW L
  PROVE  LogsFirst(p \o <<Cm>>, L)
<1>1. p \in Seq(Step) /\ \A j \in DOMAIN p : p[j].op # "tx_end" BY DEF Part
<1>2. LogsFirst(p, {} \cup L) BY Zenon DEF Part
<1>3. LogsFirst(p, L)
  <2>1. {} \cup L = L OBVIOUS
  <2> QED BY <1>2, <2>1, Zenon
<1>4. <<Cm>> \in Seq(Step)
  <2>1. Cm \in Step BY StepKinds
  <2> HIDE DEF Cm
  <2> QED BY <2>1
<1>5. LogsFirst(<<Cm>>, L \cup ToLog(p)) BY DEF LogsFirst, Cm
<1> QED BY <1>1, <1>3, <1>4, <1>5, ToLogConcat, Zenon
=============================================================================
