---------------------------- MODULE DriverProofs ----------------------------
(***************************************************************************)
(* For every number of threads, records and operations: the variables of   *)
(* Driver keep their types and no key number is inserted twice, the        *)
(* transactions find the records loaded but for the remainder, the load    *)
(* reports their number, a DB is destroyed after its last call, and the    *)
(* throughput is printed for the operations performed, but for theirs.     *)
(***************************************************************************)
EXTENDS Driver, TLAPS, FiniteSetTheorems

\* A client's workload is one of the workloads, whichever program runs.
LEMMA WorkloadOfClient == ASSUME NEW t \in Client PROVE wl(t) \in Client
BY DriverAssumption DEF wl, Client

\* Dividing the work leaves a thread a number of operations, perhaps none.
LEMMA ShareIsNat == ASSUME NEW b \in BOOLEAN PROVE num_ops(b) \in Nat
<1> DEFINE total == IF b THEN record_count ELSE operation_count
<1>1. total \in Nat BY DriverAssumption
<1>2. total \div NumThreads \in Nat
  <2> HIDE DEF total
  <2> QED BY <1>1, DriverAssumption
<1> QED BY <1>1, <1>2 DEF num_ops

\* main has started nothing and no counter has moved.
LEMMA InitIInv == Init => IInv
<1> SUFFICES ASSUME Init PROVE IInv OBVIOUS
<1>1. TypeOK BY DriverAssumption DEF Init, TypeOK, Unborn, ClientState
<1> QED BY <1>1 DEF Init, IInv, CallsCounted, HeldBelow, InsertedBelow,
                    InsertOnce, Unborn

\* An insert takes the counter's number, which no earlier insert has, and
\* moves the counter beyond it.
LEMMA DrawIInv ==
  ASSUME IInv, NEW t \in Client, cl[t].left > 0,
         Move(t, [cl[t] EXCEPT !.pc = "INSERT", !.op = "INSERT",
                               !.key = counter[wl(t)]]),
         NextSequenceKey(t), UNCHANGED inserted
  PROVE  IInv'
<1> DEFINE new == [cl[t] EXCEPT !.pc = "INSERT", !.op = "INSERT",
                                !.key = counter[wl(t)]]
<1>0. wl(t) \in Client /\ counter[wl(t)] \in Nat
  BY WorkloadOfClient DEF IInv, TypeOK
<1>1. \A u \in Client : wl(u)' = wl(u) BY DEF wl, Move
<1>2. cl[t] \in ClientState BY DEF IInv, TypeOK
<1>3. new \in ClientState /\ new.pc = "INSERT" /\ new.left = cl[t].left
        /\ new.key = counter[wl(t)]
  BY <1>0, <1>2 DEF ClientState
<1>4. cl' = [cl EXCEPT ![t] = new] BY DEF Move
<1>5. counter' = [counter EXCEPT ![wl(t)] = @ + 1] BY DEF NextSequenceKey
<1> HIDE DEF new
<1>6. TypeOK' BY <1>0, <1>3, <1>4, <1>5 DEF IInv, TypeOK, Move
<1>7. cl'[t] = new /\ \A u \in Client \ {t} : cl'[u] = cl[u]
  BY <1>4 DEF IInv, TypeOK
<1>8. CallsCounted' BY <1>3, <1>7 DEF IInv, CallsCounted
<1>9. \A d \in Client : counter[d] \in Nat /\ counter'[d] \in Nat
                         /\ counter[d] <= counter'[d]
  BY <1>0, <1>5 DEF IInv, TypeOK
<1>10. counter'[wl(t)] = counter[wl(t)] + 1 BY <1>0, <1>5 DEF IInv, TypeOK
<1>11. \A u \in Client : wl(u) \in Client /\ cl[u].key \in Nat
  BY WorkloadOfClient DEF IInv, TypeOK, ClientState
<1>12. HeldBelow'
  BY <1>0, <1>1, <1>3, <1>7, <1>9, <1>10, <1>11 DEF IInv, HeldBelow
<1>13. \A r \in inserted : r[1] \in Client /\ r[2] \in Nat
  BY DEF IInv, TypeOK
<1>14. InsertedBelow' BY <1>9, <1>13 DEF IInv, InsertedBelow
<1>15. <<wl(t), counter[wl(t)]>> \notin inserted
  BY <1>0 DEF IInv, InsertedBelow
<1>16. \A u \in Client \ {t} :
         cl[u].pc = "INSERT" /\ wl(u) = wl(t) => cl[u].key # counter[wl(t)]
  BY <1>0, <1>11 DEF IInv, HeldBelow
<1>17. InsertOnce' BY <1>1, <1>3, <1>7, <1>15, <1>16 DEF IInv, InsertOnce
<1> QED BY <1>6, <1>8, <1>12, <1>14, <1>17 DEF IInv

\* A step of a client, or main's start of one, after which the client holds
\* no key to insert, and which draws none, leaves every other key alone.
LEMMA QuietIInv ==
  ASSUME IInv, NEW t \in Client, NEW c \in ClientState, c.pc # "INSERT",
         c.pc \in {"READ", "UPDATE", "SCAN"} => c.left > 0,
         cl' = [cl EXCEPT ![t] = c],
         spawned' \in 0..NumThreads,
         UNCHANGED <<program, phase, joined, sum, counter, inserted>>
  PROVE  IInv'
<1>1. \A u \in Client : wl(u)' = wl(u) BY DEF wl
<1>2. cl'[t] = c /\ \A u \in Client \ {t} : cl'[u] = cl[u]
  BY DEF IInv, TypeOK
<1>3. TypeOK' BY DEF IInv, TypeOK
<1>4. CallsCounted' BY <1>2 DEF IInv, CallsCounted
<1>5. HeldBelow' BY <1>1, <1>2 DEF IInv, HeldBelow
<1>6. InsertedBelow' BY DEF IInv, InsertedBelow
<1>7. InsertOnce' BY <1>1, <1>2 DEF IInv, InsertOnce
<1> QED BY <1>3, <1>4, <1>5, <1>6, <1>7 DEF IInv

\* main's other steps touch neither clients nor keys.
LEMMA MainIInv ==
  ASSUME IInv, UNCHANGED <<program, cl, counter, inserted>>,
         phase' \in {"load", "run", "closed", "terminated"},
         spawned' \in 0..NumThreads, joined' \in 0..NumThreads, sum' \in Nat
  PROVE  IInv'
<1>1. \A u \in Client : wl(u)' = wl(u) BY DEF wl
<1> QED BY <1>1 DEF IInv, TypeOK, CallsCounted, HeldBelow, InsertedBelow,
                    InsertOnce

\* A counted call leaves the client a record of the right type, out of the call.
LEMMA IterationType ==
  ASSUME IInv, NEW t \in Client,
         cl[t].pc \in {"INSERT", "READ", "UPDATE", "SCAN"}
  PROVE  NextIteration(cl[t]) \in ClientState
         /\ NextIteration(cl[t]).pc = "loop"
<1>1. cl[t] \in ClientState /\ cl[t].left > 0
  BY DEF IInv, TypeOK, CallsCounted
<1>2. cl[t].left - 1 \in Nat /\ cl[t].oks + 1 \in Nat
  BY <1>1 DEF ClientState
<1>3. NextIteration(cl[t]) = [cl[t] EXCEPT !.pc = "loop",
                                !.left = cl[t].left - 1, !.oks = cl[t].oks + 1]
  BY <1>1 DEF NextIteration, ClientState
<1> QED BY <1>1, <1>2, <1>3 DEF ClientState

\* A returned insert moves its key from the client to the records.
LEMMA InsertReturnsIInv ==
  ASSUME IInv, NEW t \in Client, InsertReturns(t) PROVE IInv'
<1> DEFINE new == NextIteration(cl[t])
<1>1. cl[t].pc = "INSERT" BY DEF InsertReturns
<1>2. new \in ClientState /\ new.pc = "loop" BY <1>1, IterationType
<1>3. /\ cl' = [cl EXCEPT ![t] = new]
      /\ UNCHANGED <<program, phase, spawned, joined, sum, counter>>
      /\ inserted' = inserted \cup {<<wl(t), cl[t].key>>}
  BY DEF InsertReturns, Move
<1> HIDE DEF new
<1>4. \A u \in Client : wl(u)' = wl(u) BY <1>3 DEF wl
<1>5. cl'[t] = new /\ \A u \in Client \ {t} : cl'[u] = cl[u]
  BY <1>3 DEF IInv, TypeOK
<1>6. wl(t) \in Client /\ cl[t].key \in Nat
  BY WorkloadOfClient DEF IInv, TypeOK, ClientState
<1>7. TypeOK' BY <1>2, <1>3, <1>6 DEF IInv, TypeOK
<1>8. CallsCounted' BY <1>2, <1>5 DEF IInv, CallsCounted
<1>9. HeldBelow' BY <1>2, <1>3, <1>4, <1>5 DEF IInv, HeldBelow
<1>10. InsertedBelow' BY <1>1, <1>3 DEF IInv, InsertedBelow, HeldBelow
<1>11. InsertOnce'
  <2> SUFFICES ASSUME NEW u \in Client, cl'[u].pc = "INSERT"
               PROVE  /\ <<wl(u), cl'[u].key>> \notin inserted'
                      /\ \A w \in Client \ {u} :
                           cl'[w].pc = "INSERT" /\ wl(w) = wl(u)
                             => cl'[w].key # cl'[u].key
    BY <1>4 DEF InsertOnce
  <2>1. u # t /\ cl'[u] = cl[u] BY <1>2, <1>5
  <2>2. <<wl(u), cl[u].key>> # <<wl(t), cl[t].key>>
    BY <1>1, <2>1 DEF IInv, InsertOnce
  <2> QED BY <1>2, <1>3, <1>5, <2>1, <2>2 DEF IInv, InsertOnce
<1> QED BY <1>7, <1>8, <1>9, <1>10, <1>11 DEF IInv

\* Every step of a client.
LEMMA ClientIInv == ASSUME IInv, NEW t \in Client, DelegateClient(t) PROVE IInv'
<1>0. cl[t] \in ClientState /\ spawned \in 0..NumThreads
  BY DEF IInv, TypeOK
<1>1. CASE DoInsert(t)
  <2>1. cl[t].left > 0 BY <1>0, <1>1 DEF DoInsert, ClientState
  <2> QED BY <1>1, <2>1, DrawIInv DEF DoInsert
<1>2. CASE TransactionInsert(t)
  <2>1. cl[t].left > 0 BY <1>0, <1>2 DEF TransactionInsert, ClientState
  <2> QED BY <1>2, <2>1, DrawIInv DEF TransactionInsert
<1>3. CASE DoTransaction(t)
  <2>1. PICK o \in Ops \ {"INSERT"}, k \in NextTransactionKey :
          Move(t, [cl[t] EXCEPT !.pc = FirstCall(o), !.op = o, !.key = k])
    BY <1>3 DEF DoTransaction
  <2> DEFINE new == [cl[t] EXCEPT !.pc = FirstCall(o), !.op = o, !.key = k]
  <2>2. k \in Nat BY DriverAssumption DEF NextTransactionKey
  <2>3. FirstCall(o) \in {"READ", "UPDATE", "SCAN"}
    BY DriverAssumption DEF FirstCall
  <2>4. new \in ClientState /\ new.pc = FirstCall(o) /\ new.left = cl[t].left
    BY <1>0, <2>2, <2>3 DEF ClientState
  <2>5. cl[t].left > 0 BY <1>3 DEF DoTransaction
  <2>6. cl' = [cl EXCEPT ![t] = new] BY <2>1 DEF Move
  <2>7. UNCHANGED <<program, phase, spawned, joined, sum, counter, inserted>>
    BY <1>3, <2>1 DEF DoTransaction, Move
  <2> HIDE DEF new
  <2> QED BY <1>0, <2>3, <2>4, <2>5, <2>6, <2>7, QuietIInv
<1>4. CASE InsertReturns(t) BY <1>4, InsertReturnsIInv
<1>5. CASE ReadReturns(t)
  <2> DEFINE new == IF cl[t].op = "READMODIFYWRITE"
                    THEN [cl[t] EXCEPT !.pc = "UPDATE"]
                    ELSE NextIteration(cl[t])
  <2>1. cl[t].pc = "READ" /\ cl' = [cl EXCEPT ![t] = new]
        /\ UNCHANGED <<program, phase, spawned, joined, sum, counter, inserted>>
    BY <1>5 DEF ReadReturns, Move
  <2>2. cl[t].left > 0 BY <2>1 DEF IInv, CallsCounted
  <2>3. [cl[t] EXCEPT !.pc = "UPDATE"] \in ClientState
        /\ [cl[t] EXCEPT !.pc = "UPDATE"].pc = "UPDATE"
        /\ [cl[t] EXCEPT !.pc = "UPDATE"].left = cl[t].left
    BY <1>0 DEF ClientState
  <2>4. new \in ClientState /\ new.pc \in {"UPDATE", "loop"}
        /\ (new.pc = "UPDATE" => new.left > 0)
    BY <2>1, <2>2, <2>3, IterationType
  <2> HIDE DEF new
  <2> QED BY <1>0, <2>1, <2>4, QuietIInv
<1>6. CASE UpdateReturns(t)
  <2>1. cl[t].pc = "UPDATE" /\ cl' = [cl EXCEPT ![t] = NextIteration(cl[t])]
        /\ UNCHANGED <<program, phase, spawned, joined, sum, counter, inserted>>
    BY <1>6 DEF UpdateReturns, Move
  <2> QED BY <1>0, <2>1, IterationType, QuietIInv
<1>7. CASE ScanReturns(t)
  <2> DEFINE new == IF ScanThrows THEN [cl[t] EXCEPT !.pc = "threw"]
                    ELSE NextIteration(cl[t])
  <2>1. cl[t].pc = "SCAN" /\ cl' = [cl EXCEPT ![t] = new]
        /\ UNCHANGED <<program, phase, spawned, joined, sum, counter, inserted>>
    BY <1>7 DEF ScanReturns, Move
  <2>2. [cl[t] EXCEPT !.pc = "threw"] \in ClientState
        /\ [cl[t] EXCEPT !.pc = "threw"].pc = "threw"
    BY <1>0 DEF ClientState
  <2>3. new \in ClientState /\ new.pc \in {"threw", "loop"}
    BY <2>1, <2>2, IterationType
  <2> HIDE DEF new
  <2> QED BY <1>0, <2>1, <2>3, QuietIInv
<1>8. CASE ClientReturns(t)
  <2> DEFINE new == [cl[t] EXCEPT !.pc = "done"]
  <2>1. cl' = [cl EXCEPT ![t] = new]
        /\ UNCHANGED <<program, phase, spawned, joined, sum, counter, inserted>>
    BY <1>8 DEF ClientReturns, Move
  <2>2. new \in ClientState /\ new.pc = "done" BY <1>0 DEF ClientState
  <2> HIDE DEF new
  <2> QED BY <1>0, <2>1, <2>2, QuietIInv
<1> QED BY <1>1, <1>2, <1>3, <1>4, <1>5, <1>6, <1>7, <1>8 DEF DelegateClient

\* Every step of main.
LEMMA MainStepIInv == ASSUME IInv, Main PROVE IInv'
<1>0. /\ spawned \in 0..NumThreads /\ joined \in 0..NumThreads /\ sum \in Nat
      /\ phase \in {"load", "run", "closed", "terminated"}
      /\ NumThreads \in Nat
  BY DriverAssumption DEF IInv, TypeOK
<1>1. CASE Spawn("loop")
  <2> DEFINE new == [Unborn EXCEPT !.pc = "loop", !.loading = (phase = "load"),
                                   !.left = num_ops(phase = "load")]
  <2>1. num_ops(phase = "load") \in Nat BY ShareIsNat
  <2>2. new \in ClientState /\ new.pc = "loop"
    BY <2>1 DEF Unborn, ClientState
  <2>3. spawned < NumThreads /\ spawned' = spawned + 1
        /\ cl' = [cl EXCEPT ![spawned + 1] = new]
        /\ UNCHANGED <<program, phase, joined, sum, counter, inserted>>
    BY <1>1 DEF Spawn
  <2>4. spawned + 1 \in Client /\ spawned' \in 0..NumThreads
    BY <1>0, <2>3 DEF Client
  <2> HIDE DEF new
  <2> QED BY <2>2, <2>3, <2>4, QuietIInv
<1>2. CASE Join
  <2>1. joined < NumThreads /\ joined' = joined + 1
        /\ sum' = sum + cl[joined + 1].oks
        /\ UNCHANGED <<program, phase, spawned, cl, counter, inserted>>
    BY <1>2 DEF Join, Joining
  <2>2. joined + 1 \in Client BY <1>0, <2>1 DEF Client
  <2>3. cl[joined + 1].oks \in Nat BY <2>2 DEF IInv, TypeOK, ClientState
  <2> QED BY <1>0, <2>1, <2>3, MainIInv
<1>3. CASE Rethrow BY <1>0, <1>3, MainIInv DEF Rethrow
<1>4. CASE StartRun BY <1>0, <1>4, MainIInv DEF StartRun
<1>5. CASE Destroy BY <1>0, <1>5, MainIInv DEF Destroy
<1> QED BY <1>1, <1>2, <1>3, <1>4, <1>5 DEF Main

\* Every step of the program.
LEMMA NextIInv == IInv /\ [Next]_dvars => IInv'
<1> SUFFICES ASSUME IInv, [Next]_dvars PROVE IInv' OBVIOUS
<1>1. CASE \E t \in Client : DelegateClient(t) BY <1>1, ClientIInv
<1>2. CASE Main BY <1>2, MainStepIInv
<1>3. CASE UNCHANGED dvars
  BY <1>3 DEF dvars, IInv, TypeOK, CallsCounted, HeldBelow, InsertedBelow,
              InsertOnce, wl
<1> QED BY <1>1, <1>2, <1>3 DEF Next, Stays

\* The invariant holds in every behaviour of the drivers.
THEOREM Invariance == Spec => []IInv
BY InitIInv, NextIInv, PTL DEF Spec

\* ycsbc.cc, ycsbc_parallel.cc: whatever the schedule, the thread, record and
\* operation counts, the program's variables keep their types; in particular
\* no client counts an operation it was not told to perform.
THEOREM TypeCorrect == Spec => []TypeOK
<1>1. IInv => TypeOK BY DEF IInv
<1> QED BY Invariance, <1>1, PTL

\* counter_generator.h: for any number of clients, no two Inserts into one DB,
\* running or finished, have the same key number.
THEOREM KeysOnce == Spec => []InsertOnce
<1>1. IInv => InsertOnce BY DEF IInv
<1> QED BY Invariance, <1>1, PTL

-----------------------------------------------------------------------------
(***************************************************************************)
(* The load, the transactions and the end of a run.                        *)
(***************************************************************************)
WInv == Staged /\ SharesKept /\ Collected

(***************************************************************************)
(* What a step of a client amounts to: it goes on with its share, and      *)
(* draws a key, or finishes an insert, or does neither.                    *)
(***************************************************************************)
GoesOn(t, c) ==
  /\ cl' = [cl EXCEPT ![t] = c]
  /\ UNCHANGED <<program, phase, spawned, joined, sum>>
  /\ cl[t].pc \notin {"none", "done", "threw"} /\ c.pc # "none"
  /\ c.loading = cl[t].loading
  /\ c.oks + c.left = cl[t].oks + cl[t].left
  /\ c.pc = "done" => c.left = 0
  /\ c.loading => c.pc \in {"loop", "INSERT", "done"}

Draw(t, c) ==
  /\ cl[t].pc = "loop" /\ cl[t].left > 0
  /\ c.pc = "INSERT" /\ c.key = counter[wl(t)] /\ c.oks = cl[t].oks
  /\ counter' = [counter EXCEPT ![wl(t)] = @ + 1]
  /\ inserted' = inserted

Finish(t, c) ==
  /\ cl[t].pc = "INSERT"
  /\ c.pc = "loop" /\ c.oks = cl[t].oks + 1
  /\ inserted' = inserted \cup {<<wl(t), cl[t].key>>}
  /\ counter' = counter

Neither(t, c) ==
  /\ cl[t].pc # "INSERT" /\ c.pc # "INSERT"
  /\ c.loading => c.oks = cl[t].oks
  /\ counter' = counter /\ inserted' = inserted

Works(t, c) == GoesOn(t, c) /\ (Draw(t, c) \/ Finish(t, c) \/ Neither(t, c))

\* A counted call moves one operation from what is left to what is done.
LEMMA IterationShare ==
  ASSUME IInv, NEW t \in Client,
         cl[t].pc \in {"INSERT", "READ", "UPDATE", "SCAN"}
  PROVE  LET c == NextIteration(cl[t]) IN
         /\ c.loading = cl[t].loading
         /\ c.oks = cl[t].oks + 1
         /\ c.oks + c.left = cl[t].oks + cl[t].left
<1>1. cl[t] \in ClientState /\ cl[t].left > 0
  BY DEF IInv, TypeOK, CallsCounted
<1>2. NextIteration(cl[t]) = [cl[t] EXCEPT !.pc = "loop",
                                !.left = cl[t].left - 1, !.oks = cl[t].oks + 1]
  BY <1>1 DEF NextIteration, ClientState
<1>3. cl[t].left \in Nat /\ cl[t].oks \in Nat BY <1>1 DEF ClientState
<1> QED BY <1>1, <1>2, <1>3 DEF ClientState

\* Every action of a client is such a step.
LEMMA ClientWorks ==
  ASSUME IInv, WInv, NEW t \in Client, DelegateClient(t)
  PROVE  \E c \in ClientState : Works(t, c)
<1>0. cl[t] \in ClientState BY DEF IInv, TypeOK
<1>1. wl(t) \in Client /\ counter[wl(t)] \in Nat
  BY WorkloadOfClient DEF IInv, TypeOK
<1>2. CASE DoInsert(t) \/ TransactionInsert(t)
  <2> DEFINE c == [cl[t] EXCEPT !.pc = "INSERT", !.op = "INSERT",
                                !.key = counter[wl(t)]]
  <2>1. c \in ClientState /\ c.pc = "INSERT" /\ c.key = counter[wl(t)]
        /\ c.oks = cl[t].oks /\ c.left = cl[t].left
        /\ c.loading = cl[t].loading
    BY <1>0, <1>1 DEF ClientState
  <2>2. cl[t].pc = "loop" /\ cl[t].left > 0 /\ Move(t, c)
        /\ NextSequenceKey(t) /\ inserted' = inserted
    BY <1>2 DEF DoInsert, TransactionInsert
  <2> HIDE DEF c
  <2>3. Works(t, c)
    BY <2>1, <2>2 DEF Works, GoesOn, Draw, Move, NextSequenceKey
  <2> QED BY <2>1, <2>3
<1>3. CASE DoTransaction(t)
  <2>1. PICK o \in Ops \ {"INSERT"}, k \in NextTransactionKey :
          Move(t, [cl[t] EXCEPT !.pc = FirstCall(o), !.op = o, !.key = k])
    BY <1>3 DEF DoTransaction
  <2> DEFINE c == [cl[t] EXCEPT !.pc = FirstCall(o), !.op = o, !.key = k]
  <2>2. k \in Nat BY DriverAssumption DEF NextTransactionKey
  <2>3. FirstCall(o) \in {"READ", "UPDATE", "SCAN"}
    BY DriverAssumption DEF FirstCall
  <2>4. c \in ClientState /\ c.pc = FirstCall(o) /\ c.oks = cl[t].oks
        /\ c.left = cl[t].left /\ c.loading = cl[t].loading
    BY <1>0, <2>2, <2>3 DEF ClientState
  <2>5. cl[t].pc = "loop" /\ ~cl[t].loading
        /\ UNCHANGED <<counter, inserted>>
    BY <1>3 DEF DoTransaction
  <2> HIDE DEF c
  <2>6. Works(t, c)
    BY <2>1, <2>3, <2>4, <2>5 DEF Works, GoesOn, Neither, Move, c
  <2> QED BY <2>4, <2>6
<1>4. CASE InsertReturns(t)
  <2> DEFINE c == NextIteration(cl[t])
  <2>1. cl[t].pc = "INSERT" /\ Move(t, c) /\ counter' = counter
        /\ inserted' = inserted \cup {<<wl(t), cl[t].key>>}
    BY <1>4 DEF InsertReturns
  <2>2. c \in ClientState /\ c.pc = "loop" BY <2>1, IterationType
  <2>3. c.loading = cl[t].loading /\ c.oks = cl[t].oks + 1
        /\ c.oks + c.left = cl[t].oks + cl[t].left
    BY <2>1, IterationShare
  <2> HIDE DEF c
  <2>4. Works(t, c) BY <2>1, <2>2, <2>3 DEF Works, GoesOn, Finish, Move
  <2> QED BY <2>2, <2>4
<1>5. CASE ReadReturns(t) /\ cl[t].op = "READMODIFYWRITE"
  <2> DEFINE c == [cl[t] EXCEPT !.pc = "UPDATE"]
  <2>1. cl[t].pc = "READ" /\ Move(t, c) /\ UNCHANGED <<counter, inserted>>
    BY <1>5 DEF ReadReturns
  <2>2. c \in ClientState /\ c.pc = "UPDATE" /\ c.oks = cl[t].oks
        /\ c.left = cl[t].left /\ c.loading = cl[t].loading
    BY <1>0 DEF ClientState
  <2>3. ~cl[t].loading BY <2>1 DEF WInv, Staged
  <2> HIDE DEF c
  <2>4. Works(t, c)
    BY <2>1, <2>2, <2>3 DEF Works, GoesOn, Neither, Move
  <2> QED BY <2>2, <2>4
<1>6. CASE \/ ReadReturns(t) /\ cl[t].op # "READMODIFYWRITE"
           \/ UpdateReturns(t)
           \/ ScanReturns(t) /\ ~ScanThrows
  <2> DEFINE c == NextIteration(cl[t])
  <2>1. cl[t].pc \in {"READ", "UPDATE", "SCAN"} /\ Move(t, c)
        /\ UNCHANGED <<counter, inserted>>
    BY <1>6 DEF ReadReturns, UpdateReturns, ScanReturns
  <2>2. c \in ClientState /\ c.pc = "loop" BY <2>1, IterationType
  <2>3. c.loading = cl[t].loading
        /\ c.oks + c.left = cl[t].oks + cl[t].left
    BY <2>1, IterationShare
  <2>4. ~cl[t].loading BY <2>1 DEF WInv, Staged
  <2> HIDE DEF c
  <2>5. Works(t, c)
    BY <2>1, <2>2, <2>3, <2>4 DEF Works, GoesOn, Neither, Move
  <2> QED BY <2>2, <2>5
<1>7. CASE ScanReturns(t) /\ ScanThrows
  <2> DEFINE c == [cl[t] EXCEPT !.pc = "threw"]
  <2>1. cl[t].pc = "SCAN" /\ Move(t, c) /\ UNCHANGED <<counter, inserted>>
    BY <1>7 DEF ScanReturns
  <2>2. c \in ClientState /\ c.pc = "threw" /\ c.oks = cl[t].oks
        /\ c.left = cl[t].left /\ c.loading = cl[t].loading
    BY <1>0 DEF ClientState
  <2>3. ~cl[t].loading BY <2>1 DEF WInv, Staged
  <2> HIDE DEF c
  <2>4. Works(t, c)
    BY <2>1, <2>2, <2>3 DEF Works, GoesOn, Neither, Move
  <2> QED BY <2>2, <2>4
<1>8. CASE ClientReturns(t)
  <2> DEFINE c == [cl[t] EXCEPT !.pc = "done"]
  <2>1. cl[t].pc = "loop" /\ cl[t].left = 0 /\ Move(t, c)
        /\ UNCHANGED <<counter, inserted>>
    BY <1>8 DEF ClientReturns
  <2>2. c \in ClientState /\ c.pc = "done" /\ c.oks = cl[t].oks
        /\ c.left = cl[t].left /\ c.loading = cl[t].loading
    BY <1>0 DEF ClientState
  <2> HIDE DEF c
  <2>3. Works(t, c) BY <2>1, <2>2 DEF Works, GoesOn, Neither, Move
  <2> QED BY <2>2, <2>3
<1> QED BY <1>2, <1>3, <1>4, <1>5, <1>6, <1>7, <1>8
        DEF DelegateClient, ScanReturns

-----------------------------------------------------------------------------
\* The workloads, the shares and the records to load depend on the program
\* that runs and on nothing else.
LEMMA FixedByProgram ==
  ASSUME program' = program
  PROVE  /\ \A t \in Client : wl(t)' = wl(t)
         /\ LoadShare' = LoadShare /\ RunShare' = RunShare
         /\ Workload' = Workload
         /\ Loaded' = Loaded
BY DEF wl, num_ops, Workload, Loaded, LoadShare, RunShare

\* A client that works stays in its stage and keeps its share.
LEMMA WorksWInv ==
  ASSUME IInv, WInv, NEW t \in Client, NEW c \in ClientState, GoesOn(t, c)
  PROVE  WInv'
<1>1. cl'[t] = c /\ \A u \in Client \ {t} : cl'[u] = cl[u]
  BY DEF IInv, TypeOK, GoesOn
<1>2. /\ LoadShare' = LoadShare /\ RunShare' = RunShare
      /\ phase' = phase /\ spawned' = spawned /\ joined' = joined
      /\ sum' = sum
  BY FixedByProgram DEF GoesOn
<1>3. \A u \in Client : cl[u] \in ClientState BY DEF IInv, TypeOK
<1>4. Staged' BY <1>1, <1>2 DEF WInv, Staged, GoesOn
<1>5. SharesKept' 
  BY <1>1, <1>2, <1>3 DEF WInv, SharesKept, Share, GoesOn, ClientState
<1>6. Collected' 
  <2>1. \A u \in Client : u <= joined => u # t BY DEF WInv, Collected, GoesOn
  <2> QED BY <1>1, <1>2, <2>1 DEF WInv, Collected, Share, Ended
<1> QED BY <1>4, <1>5, <1>6 DEF WInv

\* Adding one share to the sum.
LEMMA OneMore ==
  ASSUME NEW j \in Nat, NEW n \in Nat PROVE (j + 1) * n = j * n + n
OBVIOUS

\* main's steps.
LEMMA MainWInv == ASSUME IInv, WInv, Main PROVE WInv'
<1>0. /\ spawned \in 0..NumThreads /\ joined \in 0..NumThreads /\ sum \in Nat
      /\ phase \in {"load", "run", "closed", "terminated"}
      /\ NumThreads \in Nat \ {0}
      /\ \A t \in Client : cl[t] \in ClientState /\ t \in Nat
  BY DriverAssumption DEF IInv, TypeOK, Client
<1>1. /\ LoadShare' = LoadShare /\ RunShare' = RunShare
      /\ LoadShare \in Nat /\ RunShare \in Nat
  <2>1. program' = program
    BY DEF Main, Spawn, Join, Rethrow, StartRun, Destroy
  <2> QED BY <2>1, FixedByProgram, ShareIsNat DEF LoadShare, RunShare
<1>2. CASE Spawn("loop")
  <2> DEFINE c == [Unborn EXCEPT !.pc = "loop", !.loading = (phase = "load"),
                                 !.left = num_ops(phase = "load")]
  <2>1. spawned < NumThreads /\ spawned' = spawned + 1
        /\ phase \in {"load", "run"}
        /\ cl' = [cl EXCEPT ![spawned + 1] = c]
        /\ UNCHANGED <<phase, joined, sum>>
    BY <1>2 DEF Spawn
  <2>2. c.pc = "loop" /\ (c.loading <=> phase = "load") /\ c.oks = 0
        /\ c.left = Share
    <3>1. num_ops(phase = "load") = Share
      BY DEF num_ops, Share, LoadShare, RunShare
    <3> QED BY <3>1 DEF Unborn
  <2> HIDE DEF c
  <2>3. spawned + 1 \in Client BY <1>0, <2>1 DEF Client
  <2>4. cl'[spawned + 1] = c
        /\ \A u \in Client \ {spawned + 1} : cl'[u] = cl[u]
    BY <2>1, <2>3 DEF IInv, TypeOK
  <2>5. joined = 0 BY <1>0, <2>1 DEF WInv, Collected
  <2>6. Staged'
    <3> SUFFICES ASSUME NEW u \in Client
                 PROVE  /\ cl'[u].pc = "none" <=> phase = "load" /\ u > spawned'
                        /\ cl'[u].loading <=> phase = "load" \/ u > spawned'
                        /\ phase # "load" /\ u > spawned' => cl'[u].pc = "done"
                        /\ cl'[u].loading =>
                             cl'[u].pc \in {"none", "loop", "INSERT", "done"}
      BY <2>1 DEF Staged
    <3>1. CASE u = spawned + 1 BY <1>0, <2>1, <2>2, <2>4, <3>1
    <3>2. CASE u # spawned + 1
      <4>1. u > spawned <=> u > spawned' BY <1>0, <2>1, <3>2
      <4> QED BY <2>4, <3>2, <4>1 DEF WInv, Staged
    <3> QED BY <3>1, <3>2
  <2>7. SharesKept'
    <3> SUFFICES ASSUME NEW u \in Client
                 PROVE  /\ cl'[u].pc # "none" =>
                             cl'[u].oks + cl'[u].left =
                               IF cl'[u].loading THEN LoadShare ELSE RunShare
                        /\ cl'[u].pc = "none" => cl'[u].oks = 0
                        /\ cl'[u].pc = "done" => cl'[u].left = 0
      BY <1>1 DEF SharesKept
    <3>1. CASE u = spawned + 1
      <4>1. cl'[u] = c BY <2>4, <3>1
      <4>2. 0 + Share = Share BY <1>1 DEF Share
      <4> QED BY <2>2, <4>1, <4>2 DEF Share
    <3>2. CASE u # spawned + 1 BY <2>4, <3>2 DEF WInv, SharesKept
    <3> QED BY <3>1, <3>2
  <2>8. Collected'
    <3>1. \A u \in Client : ~(u <= 0) BY <1>0 DEF Client
    <3>2. sum = 0 * Share BY <2>5 DEF WInv, Collected
    <3> QED BY <1>0, <1>1, <2>1, <2>5, <3>1, <3>2 DEF WInv, Collected, Share, Ended
  <2> QED BY <2>6, <2>7, <2>8 DEF WInv
<1>3. CASE Join
  <2>1. joined < NumThreads /\ joined' = joined + 1
        /\ phase \in {"load", "run"} /\ spawned = NumThreads
        /\ cl[joined + 1].pc = "done"
        /\ sum' = sum + cl[joined + 1].oks
        /\ UNCHANGED <<program, phase, spawned, cl, counter, inserted>>
    BY <1>3 DEF Join, Joining
  <2>2. joined + 1 \in Client BY <1>0, <2>1 DEF Client
  <2>3. cl[joined + 1].loading <=> phase = "load"
    BY <1>0, <2>1, <2>2 DEF WInv, Staged
  <2>4. cl[joined + 1].oks = Share
    BY <1>0, <2>1, <2>2, <2>3 DEF WInv, SharesKept, Share, ClientState
  <2>5. sum' = (joined + 1) * Share
    BY <1>0, <1>1, <2>1, <2>4, OneMore DEF WInv, Collected, Share
  <2>6. Staged' /\ SharesKept' BY <1>1, <2>1 DEF WInv, Staged, SharesKept, Share, ClientState
  <2>7. \A u \in Client : u <= joined + 1 => u <= joined \/ u = joined + 1
    BY <1>0
  <2>8. Collected'
    BY <1>0, <1>1, <2>1, <2>5, <2>7 DEF WInv, Collected, Share, Ended
  <2> QED BY <2>6, <2>8 DEF WInv
<1>4. CASE Rethrow
  <2>1. /\ phase \in {"load", "run"} /\ spawned = NumThreads
        /\ joined < NumThreads
        /\ cl[joined + 1].pc = "threw" /\ phase' = "terminated"
        /\ UNCHANGED <<program, spawned, joined, sum, cl, counter, inserted>>
    BY <1>4 DEF Rethrow, Joining
  <2>2. joined + 1 \in Client BY <1>0, <2>1 DEF Client
  <2>3. phase = "run" BY <2>1, <2>2 DEF WInv, Staged
  <2>4. \A u \in Client : ~(u > spawned) BY <1>0, <2>1 DEF Client
  <2> QED BY <1>1, <2>1, <2>3, <2>4
          DEF WInv, Staged, SharesKept, Share, Collected, Ended, ClientState
<1>5. CASE StartRun
  <2>1. /\ phase = "load" /\ joined = NumThreads
        /\ phase' = "run" /\ spawned' = 0 /\ joined' = 0 /\ sum' = 0
        /\ UNCHANGED <<program, cl, counter, inserted>>
    BY <1>5 DEF StartRun
  <2>2. \A u \in Client : u <= NumThreads /\ u > 0 /\ ~(u <= 0)
    BY <1>0 DEF Client
  <2>3. spawned = NumThreads BY <1>0, <2>1 DEF WInv, Collected
  <2>4. \A u \in Client : cl[u].pc = "done" /\ cl[u].loading
    BY <2>1, <2>2 DEF WInv, Collected, Staged
  <2>5. Staged' BY <2>1, <2>2, <2>4 DEF Staged
  <2>6. SharesKept' BY <1>1, <2>1 DEF WInv, SharesKept, Share, ClientState
  <2>7. Collected' BY <1>1, <2>1, <2>2 DEF Collected, Share, Ended
  <2> QED BY <2>5, <2>6, <2>7 DEF WInv
<1>6. CASE Destroy
  <2>1. /\ phase = "run" /\ joined = NumThreads /\ phase' = "closed"
        /\ UNCHANGED <<program, spawned, joined, sum, cl, counter, inserted>>
    BY <1>6 DEF Destroy
  <2> QED BY <1>0, <1>1, <2>1
          DEF WInv, Staged, SharesKept, Share, Collected, Ended, ClientState
<1> QED BY <1>2, <1>3, <1>4, <1>5, <1>6 DEF Main

-----------------------------------------------------------------------------
(***************************************************************************)
(* The keys.                                                               *)
(***************************************************************************)

\* A record is inserted or being inserted after a step of a client if it was
\* before, and, when the client has drawn a key, if it is that key.
LEMMA WorksNoGap ==
  ASSUME IInv, NoGap, NEW t \in Client, NEW c \in ClientState, Works(t, c)
  PROVE  NoGap'
<1>1. cl'[t] = c /\ \A u \in Client \ {t} : cl'[u] = cl[u]
  BY DEF IInv, TypeOK, Works, GoesOn
<1>2. Workload' = Workload /\ \A u \in Client : wl(u)' = wl(u)
  BY FixedByProgram DEF Works, GoesOn
<1>3. wl(t) \in Workload /\ wl(t) \in Client /\ Workload \subseteq Client
  BY WorkloadOfClient DEF Workload
<1>4. \A d \in Client : counter[d] \in Nat BY DEF IInv, TypeOK
<1>5. insert_start \in Nat BY DriverAssumption
<1>6. CASE Draw(t, c)
  <2>1. \A r : Inserting(r)' <=> Inserting(r) \/ r = <<wl(t), counter[wl(t)]>>
    BY <1>1, <1>2, <1>6 DEF Inserting, Draw
  <2>2. \A d \in Client : counter'[d] =
          IF d = wl(t) THEN counter[d] + 1 ELSE counter[d]
    BY <1>3, <1>6 DEF Draw, IInv, TypeOK
  <2>3. inserted' = inserted BY <1>6 DEF Draw
  <2>4. \A d \in Workload : counter'[d] >= insert_start
    BY <1>3, <1>4, <1>5, <2>2 DEF NoGap
  <2>5. ASSUME NEW d \in Workload, NEW k \in Nat
        PROVE  insert_start <= k /\ k < counter'[d]
                 <=> <<d, k>> \in inserted' \/ Inserting(<<d, k>>)'
    <3>1. d \in Client /\ counter[d] \in Nat /\ counter[d] >= insert_start
      BY <1>3, <1>4 DEF NoGap
    <3>2. insert_start <= k /\ k < counter'[d] <=>
            \/ insert_start <= k /\ k < counter[d]
            \/ d = wl(t) /\ k = counter[d]
      BY <1>5, <2>2, <3>1
    <3>3. insert_start <= k /\ k < counter[d]
            <=> <<d, k>> \in inserted \/ Inserting(<<d, k>>)
      BY DEF NoGap
    <3>4. <<d, k>> = <<wl(t), counter[wl(t)]>> <=> d = wl(t) /\ k = counter[d]
      OBVIOUS
    <3> QED BY <2>1, <2>3, <3>2, <3>3, <3>4
  <2> QED BY <1>2, <2>3, <2>4, <2>5 DEF NoGap
<1>7. CASE Finish(t, c) \/ Neither(t, c)
  <2>1. \A r : r \in inserted' \/ Inserting(r)'
                 <=> r \in inserted \/ Inserting(r)
    BY <1>1, <1>2, <1>7 DEF Inserting, Finish, Neither
  <2>2. counter' = counter BY <1>7 DEF Finish, Neither
  <2>3. inserted' \subseteq Workload \X Nat
    <3>1. cl[t].key \in Nat BY DEF IInv, TypeOK, ClientState
    <3> QED BY <1>3, <1>7, <3>1 DEF NoGap, Finish, Neither
  <2> QED BY <1>2, <2>1, <2>2, <2>3 DEF NoGap
<1> QED BY <1>6, <1>7 DEF Works

\* main holds no keys and takes none away.
LEMMA MainNoGap == ASSUME IInv, WInv, NoGap, Main PROVE NoGap'
<1>1. UNCHANGED <<program, counter, inserted>>
  BY DEF Main, Spawn, Join, Rethrow, StartRun, Destroy
<1>2. Workload' = Workload /\ \A u \in Client : wl(u)' = wl(u)
  BY <1>1, FixedByProgram
<1>3. \A r : Inserting(r)' <=> Inserting(r)
  <2>1. CASE Spawn("loop")
    <3>0. spawned \in Nat /\ NumThreads \in Nat
      BY DriverAssumption DEF IInv, TypeOK
    <3>1. spawned + 1 \in Client BY <2>1, <3>0 DEF Spawn, Client
    <3>2. spawned + 1 > spawned BY <3>0
    <3>3. cl[spawned + 1].pc # "INSERT"
      BY <2>1, <3>1, <3>2 DEF WInv, Staged, Spawn
    <3>4. cl'[spawned + 1].pc = "loop"
          /\ \A u \in Client \ {spawned + 1} : cl'[u] = cl[u]
      BY <2>1, <3>1 DEF Spawn, Unborn, IInv, TypeOK
    <3> QED BY <1>2, <3>1, <3>3, <3>4 DEF Inserting
  <2>2. CASE cl' = cl BY <1>2, <2>2 DEF Inserting
  <2> QED BY <2>1, <2>2 DEF Main, Join, Rethrow, StartRun, Destroy
<1> QED BY <1>1, <1>2, <1>3 DEF NoGap

-----------------------------------------------------------------------------
(***************************************************************************)
(* The number of draws.                                                    *)
(***************************************************************************)

\* What a thread has drawn of its share.
DrawnBy(x) == x.oks + (IF x.pc = "INSERT" THEN 1 ELSE 0)

LEMMA DrawsMembers ==
  ASSUME NEW d
  PROVE  Draws(d) = {r \in Client \X (1..LoadShare) :
                       wl(r[1]) = d /\ r[2] <= DrawnBy(cl[r[1]])}
BY DEF Draws, DrawnBy

LEMMA DrawsFinite ==
  ASSUME NEW d
  PROVE  IsFiniteSet(Draws(d)) /\ Cardinality(Draws(d)) \in Nat
<1>0. LoadShare \in Nat BY ShareIsNat DEF LoadShare
<1>1. NumThreads \in Int /\ 1 \in Int /\ LoadShare \in Int
  BY <1>0, DriverAssumption
<1>2. IsFiniteSet(Client) /\ IsFiniteSet(1..LoadShare)
  BY <1>1, FS_Interval DEF Client
<1>3. IsFiniteSet(Client \X (1..LoadShare)) BY <1>2, FS_Product
<1>4. Draws(d) \in SUBSET (Client \X (1..LoadShare)) BY DEF Draws
<1>5. IsFiniteSet(Draws(d)) BY <1>3, <1>4, FS_Subset
<1> QED BY <1>5, FS_CardinalityType

\* A draw adds one to the draws of its workload, and nothing else changes one.
LEMMA WorksDraws ==
  ASSUME IInv, WInv, DrawsCounted,
         NEW t \in Client, NEW c \in ClientState, Works(t, c)
  PROVE  DrawsCounted'
<1> SUFFICES ASSUME phase' = "load", NEW d \in Workload'
             PROVE  counter'[d] = insert_start + Cardinality(Draws(d)')
  BY DEF DrawsCounted
<1>1. cl'[t] = c /\ \A u \in Client \ {t} : cl'[u] = cl[u]
  BY DEF IInv, TypeOK, Works, GoesOn
<1>2. /\ Workload' = Workload /\ LoadShare' = LoadShare
      /\ \A u \in Client : wl(u)' = wl(u)
  BY FixedByProgram DEF Works, GoesOn
<1>3. wl(t) \in Client /\ d \in Client /\ d \in Workload
  BY <1>2, WorkloadOfClient DEF Workload
<1>4. phase = "load" /\ counter[d] = insert_start + Cardinality(Draws(d))
  BY <1>2 DEF Works, GoesOn, DrawsCounted
<1>5. LoadShare \in Nat /\ insert_start \in Nat
  BY DriverAssumption, ShareIsNat DEF LoadShare
<1>6. cl[t] \in ClientState /\ cl[t].loading /\ cl[t].pc # "none"
  BY <1>4 DEF IInv, TypeOK, WInv, Staged, Works, GoesOn
<1>7. cl[t].oks \in Nat /\ cl[t].left \in Nat
        /\ cl[t].oks + cl[t].left = LoadShare /\ c.oks \in Nat
  BY <1>6 DEF ClientState, WInv, SharesKept
<1>8. Draws(d)' = {r \in Client \X (1..LoadShare) :
                     wl(r[1]) = d /\ r[2] <= DrawnBy(cl'[r[1]])}
  BY <1>2 DEF Draws, DrawnBy
<1>9. CASE Draw(t, c)
  <2>1. DrawnBy(cl[t]) = cl[t].oks /\ DrawnBy(c) = cl[t].oks + 1
    BY <1>7, <1>9 DEF DrawnBy, Draw
  <2>2. cl[t].oks + 1 \in 1..LoadShare BY <1>5, <1>7, <1>9 DEF Draw
  <2> DEFINE new == <<t, cl[t].oks + 1>>
  <2>3. CASE d = wl(t)
    <3>1. Draws(d)' = Draws(d) \cup {new}
      <4>1. \A n \in 1..LoadShare :
              n <= cl[t].oks + 1 <=> n <= cl[t].oks \/ n = cl[t].oks + 1
        BY <1>5, <1>7
      <4> QED BY <1>1, <1>8, <2>1, <2>2, <2>3, <4>1, DrawsMembers
    <3>2. new \notin Draws(d)
      <4>1. ~(cl[t].oks + 1 <= cl[t].oks) BY <1>7
      <4> QED BY <2>1, <4>1, DrawsMembers
    <3>3. Cardinality(Draws(d)') = Cardinality(Draws(d)) + 1
      BY <3>1, <3>2, DrawsFinite, FS_AddElement
    <3>4. counter'[d] = counter[d] + 1
      BY <1>3, <1>9, <2>3 DEF Draw, IInv, TypeOK
    <3> QED BY <1>4, <1>5, <3>3, <3>4, DrawsFinite
  <2>4. CASE d # wl(t)
    <3>1. Draws(d)' = Draws(d) BY <1>1, <1>8, <2>4, DrawsMembers
    <3>2. counter'[d] = counter[d]
      BY <1>3, <1>9, <2>4 DEF Draw, IInv, TypeOK
    <3> QED BY <1>4, <3>1, <3>2
  <2> QED BY <2>3, <2>4
<1>10. CASE Finish(t, c) \/ Neither(t, c)
  <2>1. DrawnBy(c) = DrawnBy(cl[t])
    BY <1>6, <1>7, <1>10 DEF DrawnBy, Finish, Neither, Works, GoesOn
  <2>2. Draws(d)' = Draws(d) BY <1>1, <1>8, <2>1, DrawsMembers
  <2>3. counter' = counter BY <1>10 DEF Finish, Neither
  <2> QED BY <1>4, <2>2, <2>3
<1> QED BY <1>9, <1>10 DEF Works

\* A thread that main starts to load has drawn nothing yet.
LEMMA MainDraws == ASSUME IInv, WInv, DrawsCounted, Main PROVE DrawsCounted'
<1> SUFFICES ASSUME phase' = "load", NEW d \in Workload'
             PROVE  counter'[d] = insert_start + Cardinality(Draws(d)')
  BY DEF DrawsCounted
<1>1. UNCHANGED <<program, counter, inserted>>
  BY DEF Main, Spawn, Join, Rethrow, StartRun, Destroy
<1>2. /\ Workload' = Workload /\ LoadShare' = LoadShare
      /\ \A u \in Client : wl(u)' = wl(u)
  BY <1>1, FixedByProgram
<1>3. phase = "load"
  BY DEF Main, Spawn, Join, Rethrow, StartRun, Destroy
<1>4. Draws(d)' = {r \in Client \X (1..LoadShare) :
                     wl(r[1]) = d /\ r[2] <= DrawnBy(cl'[r[1]])}
  BY <1>2 DEF Draws, DrawnBy
<1>5. \A u \in Client : DrawnBy(cl'[u]) = DrawnBy(cl[u])
  <2>1. CASE Spawn("loop")
    <3>0. spawned \in Nat /\ NumThreads \in Nat
      BY DriverAssumption DEF IInv, TypeOK
    <3>1. spawned + 1 \in Client BY <2>1, <3>0 DEF Spawn, Client
    <3>2. spawned + 1 > spawned BY <3>0
    <3>3. cl[spawned + 1].pc = "none" /\ cl[spawned + 1].oks = 0
      BY <1>3, <3>1, <3>2 DEF WInv, Staged, SharesKept
    <3>4. cl'[spawned + 1].pc = "loop" /\ cl'[spawned + 1].oks = 0
          /\ \A u \in Client \ {spawned + 1} : cl'[u] = cl[u]
      BY <2>1, <3>1 DEF Spawn, Unborn, IInv, TypeOK
    <3> QED BY <3>1, <3>3, <3>4 DEF DrawnBy
  <2>2. CASE cl' = cl BY <2>2
  <2> QED BY <2>1, <2>2 DEF Main, Join, Rethrow, StartRun, Destroy
<1>6. Draws(d)' = Draws(d) BY <1>4, <1>5, DrawsMembers
<1> QED BY <1>1, <1>2, <1>3, <1>6 DEF DrawsCounted

-----------------------------------------------------------------------------
(***************************************************************************)
(* The end of the load.                                                    *)
(***************************************************************************)

\* The records one DB is to hold, and the threads that load it.
LoadTotal == IF program = "parallel" THEN LoadShare ELSE NumThreads * LoadShare
LoadersOf(d) == {t \in Client : wl(t) = d}

\* Either every DB has one thread, or one DB has them all.
LEMMA Loaders ==
  ASSUME IInv, NEW d \in Workload
  PROVE  /\ IsFiniteSet(LoadersOf(d)) /\ IsFiniteSet(Workload)
         /\ Cardinality(LoadersOf(d)) * LoadShare = LoadTotal
         /\ Cardinality(Workload) * LoadTotal = NumThreads * LoadShare
         /\ LoadTotal \in Nat
<1>1. LoadShare \in Nat /\ NumThreads \in Nat \ {0}
  BY DriverAssumption, ShareIsNat DEF LoadShare
<1>2. IsFiniteSet(Client) /\ Cardinality(Client) = NumThreads
  <2>1. NumThreads \in Int /\ 1 \in Int /\ ~(1 > NumThreads) BY <1>1
  <2> QED BY <1>1, <2>1, FS_Interval DEF Client
<1>3. CASE program = "parallel"
  <2>1. Workload = Client /\ LoadersOf(d) = {d}
    BY <1>3 DEF Workload, LoadersOf, wl
  <2>2. IsFiniteSet(LoadersOf(d)) /\ Cardinality(LoadersOf(d)) = 1
    BY <2>1, FS_Singleton
  <2> QED BY <1>1, <1>2, <1>3, <2>1, <2>2 DEF LoadTotal
<1>4. CASE program # "parallel"
  <2>1. 1 \in Client BY <1>1 DEF Client
  <2>2. Workload = {1} BY <1>4, <2>1 DEF Workload, wl
  <2>3. LoadersOf(d) = Client BY <1>4, <2>2 DEF LoadersOf, wl
  <2>4. IsFiniteSet(Workload) /\ Cardinality(Workload) = 1
    BY <2>2, FS_Singleton
  <2>5. NumThreads * LoadShare \in Nat BY <1>1
  <2> HIDE DEF Workload, LoadersOf
  <2> QED BY <1>1, <1>2, <1>4, <2>3, <2>4, <2>5 DEF LoadTotal
<1> QED BY <1>3, <1>4

\* The n numbers from a on.
LEMMA IntervalFrom ==
  ASSUME NEW a \in Nat, NEW n \in Nat
  PROVE  IsFiniteSet(a..(a + n - 1)) /\ Cardinality(a..(a + n - 1)) = n
<1> DEFINE b == a + n - 1
<1>1. a \in Int /\ b \in Int OBVIOUS
<1>2. (IF a > b THEN 0 ELSE b - a + 1) = n OBVIOUS
<1> HIDE DEF b
<1>3. IsFiniteSet(a..b) /\ Cardinality(a..b) = n
  BY <1>1, <1>2, FS_Interval
<1> QED BY <1>3 DEF b

\* When main has joined the loaders, each has drawn its share and returned, so
\* the numbers the counter handed out are those of the records.
LEMMA AllLoaded ==
  ASSUME IInv, WInv, NoGap, DrawsCounted, phase = "load", joined = NumThreads
  PROVE  inserted = Loaded /\ sum = Cardinality(inserted)
<1>1. LoadShare \in Nat /\ NumThreads \in Nat \ {0} /\ insert_start \in Nat
  BY DriverAssumption, ShareIsNat DEF LoadShare
<1>2. ASSUME NEW t \in Client
      PROVE  cl[t].pc = "done" /\ cl[t].oks = LoadShare
  <2>1. cl[t] \in ClientState /\ t <= NumThreads
    BY <1>1 DEF IInv, TypeOK, Client
  <2>2. cl[t].pc = "done" /\ cl[t].left = 0
    BY <2>1 DEF WInv, Collected, SharesKept
  <2>3. cl[t].loading /\ cl[t].oks + cl[t].left = LoadShare
    BY <2>2 DEF WInv, Staged, SharesKept
  <2> QED BY <2>1, <2>2, <2>3 DEF ClientState
<1>3. \A r : ~Inserting(r) BY <1>2 DEF Inserting
<1>4. ASSUME NEW d \in Workload PROVE counter[d] = insert_start + LoadTotal
  <2>1. \A t \in Client : DrawnBy(cl[t]) = LoadShare
    BY <1>1, <1>2 DEF DrawnBy
  <2>2. \A n \in 1..LoadShare : n <= LoadShare BY <1>1
  <2>3. Draws(d) = LoadersOf(d) \X (1..LoadShare)
    BY <2>1, <2>2, DrawsMembers DEF LoadersOf
  <2>4. IsFiniteSet(1..LoadShare) /\ Cardinality(1..LoadShare) = LoadShare
    <3>1. 1 + LoadShare - 1 = LoadShare BY <1>1
    <3> QED BY <1>1, <3>1, IntervalFrom
  <2>5. Cardinality(Draws(d)) = LoadTotal
    <3>1. IsFiniteSet(LoadersOf(d))
          /\ Cardinality(LoadersOf(d)) * LoadShare = LoadTotal
      BY Loaders
    <3> DEFINE N == 1..LoadShare
    <3>2. Cardinality(N) = LoadShare /\ IsFiniteSet(N)
          /\ Draws(d) = LoadersOf(d) \X N
      BY <2>3, <2>4
    <3> HIDE DEF N
    <3>3. Cardinality(LoadersOf(d) \X N)
            = Cardinality(LoadersOf(d)) * Cardinality(N)
      BY <3>1, <3>2, FS_Product
    <3> QED BY <3>1, <3>2, <3>3
  <2> QED BY <2>5 DEF DrawsCounted
<1>5. LoadTotal \in Nat
  <2>1. 1 \in Client /\ wl(1) \in Workload BY <1>1 DEF Client, Workload
  <2> QED BY <2>1, Loaders
<1> DEFINE Keys == insert_start..(insert_start + LoadTotal - 1)
<1>6. \A k \in Nat : k \in Keys <=>
                       insert_start <= k /\ k < insert_start + LoadTotal
  BY <1>1, <1>5
<1>7. Keys \subseteq Nat BY <1>1, <1>5
<1>8. inserted = Workload \X Keys
  <2>1. ASSUME NEW d \in Workload, NEW k \in Nat
        PROVE  <<d, k>> \in inserted <=> k \in Keys
    BY <1>3, <1>4, <1>6 DEF NoGap
  <2>2. inserted \subseteq Workload \X Nat BY DEF NoGap
  <2> HIDE DEF Keys
  <2>3. \A r \in inserted : r \in Workload \X Keys
    <3> SUFFICES ASSUME NEW r \in inserted PROVE r \in Workload \X Keys
      OBVIOUS
    <3>1. PICK d \in Workload, k \in Nat : r = <<d, k>> BY <2>2
    <3> QED BY <2>1, <3>1
  <2>4. \A r \in Workload \X Keys : r \in inserted
    <3> SUFFICES ASSUME NEW d \in Workload, NEW k \in Keys
                 PROVE  <<d, k>> \in inserted
      OBVIOUS
    <3> QED BY <1>7, <2>1
  <2> QED BY <2>3, <2>4
<1>9. Loaded = Workload \X Keys
  <2>1. Loaded = {<<d, insert_start + i>> :
                    d \in Workload, i \in 0..(LoadTotal - 1)}
    BY DEF Loaded, LoadTotal, LoadShare
  <2>2. \A i \in 0..(LoadTotal - 1) : insert_start + i \in Keys
    BY <1>1, <1>5
  <2>3. \A k \in Keys : k - insert_start \in 0..(LoadTotal - 1)
                         /\ k = insert_start + (k - insert_start)
    BY <1>1, <1>5
  <2> HIDE DEF Keys
  <2> QED BY <2>1, <2>2, <2>3
<1>10. Cardinality(inserted) = NumThreads * LoadShare
  <2>1. IsFiniteSet(Keys) /\ Cardinality(Keys) = LoadTotal
    BY <1>1, <1>5, IntervalFrom
  <2>2. 1 \in Client /\ wl(1) \in Workload BY <1>1 DEF Client, Workload
  <2> HIDE DEF Keys
  <2> QED BY <1>8, <2>1, <2>2, Loaders, FS_Product
<1>11. sum = NumThreads * LoadShare BY DEF WInv, Collected, Share
<1> QED BY <1>8, <1>9, <1>10, <1>11

-----------------------------------------------------------------------------
(***************************************************************************)
(* The invariant and the theorems.                                         *)
(***************************************************************************)

\* No thread exists and no number has been handed out.
LEMMA InitLInv == Init => LInv
<1> SUFFICES ASSUME Init PROVE LInv OBVIOUS
<1>1. NumThreads \in Nat \ {0} /\ insert_start \in Nat
      /\ LoadShare \in Nat
  BY DriverAssumption, ShareIsNat DEF LoadShare
<1>2. \A t \in Client : t > 0 /\ ~(t <= 0) BY <1>1 DEF Client
<1>3. \A t \in Client : cl[t] = Unborn BY DEF Init
<1>4. Staged BY <1>2, <1>3 DEF Init, Staged, Unborn
<1>5. SharesKept BY <1>3 DEF SharesKept, Unborn
<1>6. Collected
  <2>1. 0 * Share = 0 BY <1>1 DEF Share, Init
  <2> QED BY <1>2, <2>1 DEF Init, Collected, Ended
<1>7. \A d \in Workload : counter[d] = insert_start
  <2>1. Workload \subseteq Client BY WorkloadOfClient DEF Workload
  <2> QED BY <2>1 DEF Init
<1>8. NoGap
  <2>1. \A r : ~Inserting(r) BY <1>3 DEF Inserting, Unborn
  <2>2. inserted = {} BY DEF Init
  <2>3. \A k \in Nat : ~(insert_start <= k /\ k < insert_start) BY <1>1
  <2> QED BY <1>1, <1>7, <2>1, <2>2, <2>3 DEF NoGap
<1>9. DrawsCounted
  <2> SUFFICES ASSUME NEW d \in Workload
               PROVE  counter[d] = insert_start + Cardinality(Draws(d))
    BY DEF DrawsCounted
  <2>1. \A t \in Client : DrawnBy(cl[t]) = 0 BY <1>3 DEF DrawnBy, Unborn
  <2>2. \A n \in 1..LoadShare : ~(n <= 0) BY <1>1
  <2>3. Draws(d) = {} BY <2>1, <2>2, DrawsMembers
  <2>4. Cardinality(Draws(d)) = 0 BY <2>3, FS_EmptySet
  <2> QED BY <1>1, <1>7, <2>4
<1>10. LoadedBefore BY DEF Init, LoadedBefore
<1> QED BY <1>4, <1>5, <1>6, <1>8, <1>9, <1>10 DEF LInv

\* Records stay inserted; main goes on to the transactions when it has joined
\* all loaders.
LEMMA NextLoadedBefore ==
  ASSUME IInv, LInv, \/ \E t \in Client, c \in ClientState : Works(t, c)
                     \/ Main
  PROVE  LoadedBefore'
<1>1. CASE \E t \in Client, c \in ClientState : Works(t, c)
  <2>1. program' = program /\ phase' = phase /\ inserted \subseteq inserted'
    BY <1>1 DEF Works, GoesOn, Draw, Finish, Neither
  <2> QED BY <2>1, FixedByProgram DEF LInv, LoadedBefore
<1>2. CASE StartRun
  <2>1. inserted = Loaded
    BY <1>2, AllLoaded DEF StartRun, LInv, WInv
  <2> QED BY <1>2, <2>1, FixedByProgram DEF StartRun, LoadedBefore
<1>3. CASE Spawn("loop") \/ Join \/ Destroy
  <2>1. program' = program /\ inserted' = inserted
        /\ (phase' # "load" => phase # "load")
    BY <1>3 DEF Spawn, Join, Destroy
  <2> QED BY <2>1, FixedByProgram DEF LInv, LoadedBefore
<1>4. CASE Rethrow
  <2>1. /\ phase \in {"load", "run"} /\ joined < NumThreads
        /\ cl[joined + 1].pc = "threw"
        /\ program' = program /\ inserted' = inserted
    BY <1>4 DEF Rethrow, Joining
  <2>2. joined \in Nat /\ NumThreads \in Nat
    BY DriverAssumption DEF IInv, TypeOK
  <2>3. joined + 1 \in Client BY <2>1, <2>2 DEF Client
  <2>4. phase # "load" BY <2>1, <2>3 DEF LInv, Staged
  <2> QED BY <2>1, <2>4, FixedByProgram DEF LInv, LoadedBefore
<1> QED BY <1>1, <1>2, <1>3, <1>4 DEF Main

\* Every step of the program.
LEMMA NextLInv == IInv /\ LInv /\ [Next]_dvars => LInv'
<1> SUFFICES ASSUME IInv, LInv, [Next]_dvars PROVE LInv' OBVIOUS
<1>1. WInv /\ NoGap /\ DrawsCounted BY DEF LInv, WInv
<1>2. CASE \E t \in Client : DelegateClient(t)
  <2>1. PICK t \in Client, c \in ClientState : Works(t, c)
    BY <1>1, <1>2, ClientWorks
  <2>2. WInv' BY <1>1, <2>1, WorksWInv DEF Works
  <2>3. NoGap' BY <1>1, <2>1, WorksNoGap
  <2>4. DrawsCounted' BY <1>1, <2>1, WorksDraws
  <2>5. LoadedBefore' BY <2>1, NextLoadedBefore
  <2> QED BY <2>2, <2>3, <2>4, <2>5 DEF LInv, WInv
<1>3. CASE Main
  <2>1. WInv' BY <1>1, <1>3, MainWInv
  <2>2. NoGap' BY <1>1, <1>3, MainNoGap
  <2>3. DrawsCounted' BY <1>1, <1>3, MainDraws
  <2>4. LoadedBefore' BY <1>3, NextLoadedBefore
  <2> QED BY <2>1, <2>2, <2>3, <2>4 DEF LInv, WInv
<1>4. CASE UNCHANGED dvars
  <2>1. UNCHANGED <<program, phase, spawned, joined, sum, cl, counter, inserted>>
    BY <1>4 DEF dvars
  <2>2. /\ \A t \in Client : wl(t)' = wl(t)
        /\ LoadShare' = LoadShare /\ RunShare' = RunShare
        /\ Workload' = Workload /\ Loaded' = Loaded
    BY <2>1, FixedByProgram
  <2>3. Staged' /\ SharesKept' /\ Collected'
    BY <2>1, <2>2 DEF LInv, Staged, SharesKept, Collected, Ended, Share
  <2>4. \A r : Inserting(r)' <=> Inserting(r) BY <2>1, <2>2 DEF Inserting
  <2>5. NoGap' BY <2>1, <2>2, <2>4 DEF LInv, NoGap
  <2>6. \A d : Draws(d)' = Draws(d) BY <2>1, <2>2 DEF Draws
  <2>7. DrawsCounted' BY <2>1, <2>2, <2>6 DEF LInv, DrawsCounted
  <2>8. LoadedBefore' BY <2>1, <2>2 DEF LInv, LoadedBefore
  <2> QED BY <2>3, <2>5, <2>7, <2>8 DEF LInv
<1> QED BY <1>2, <1>3, <1>4 DEF Next, Stays

\* Both invariants hold in every behaviour of the drivers.
THEOREM LoadInvariance == Spec => [](IInv /\ LInv)
BY InitIInv, InitLInv, NextIInv, NextLInv, PTL DEF Spec

\* The division drops less than one operation for each thread.
LEMMA Remainder ==
  ASSUME NEW n \in Nat
  PROVE  /\ NumThreads * (n \div NumThreads) <= n
         /\ n < NumThreads * (n \div NumThreads) + NumThreads
BY DriverAssumption

\* ycsbc.cc, ycsbc_parallel.cc: whatever the schedule and the counts, a thread
\* that runs transactions finds all records inserted, but for the remainder of
\* the division, and the sum that "# Loading records:" prints is the number of
\* records the DBs hold.
THEOREM LoadBeforeRun == Spec => []LoadComplete
<1>1. ASSUME NEW d \in Workload, NEW i \in 0..(record_count - 1),
             program = "parallel" \/ i + NumThreads <= record_count
      PROVE  <<d, insert_start + i>> \in Loaded
  <2> DEFINE share == num_ops(TRUE)
             total == IF program = "parallel" THEN share ELSE NumThreads * share
  <2>1. record_count \in Nat /\ NumThreads \in Nat /\ share \in Nat
    BY DriverAssumption, ShareIsNat
  <2>2. program = "parallel" => share = record_count BY DEF num_ops
  <2>3. program # "parallel" => record_count < NumThreads * share + NumThreads
    BY <2>1, Remainder DEF num_ops
  <2>4. Loaded = {<<e, insert_start + k>> : e \in Workload, k \in 0..(total - 1)}
    BY DEF Loaded
  <2> HIDE DEF share
  <2>5. NumThreads * share \in Nat BY <2>1
  <2>6. total \in Nat /\ i < total BY <1>1, <2>1, <2>2, <2>3, <2>5
  <2> HIDE DEF total
  <2>7. i \in 0..(total - 1) BY <2>1, <2>6
  <2> QED BY <2>4, <2>7
<1>2. IInv /\ LInv => LoadComplete
  <2> SUFFICES ASSUME IInv, LInv PROVE LoadComplete OBVIOUS
  <2>1. ASSUME \E t \in Client : ~cl[t].loading PROVE phase # "load"
    BY <2>1 DEF LInv, Staged
  <2>2. phase # "load" => Loaded \subseteq inserted BY DEF LInv, LoadedBefore
  <2>3. phase = "load" /\ joined = NumThreads => sum = Cardinality(inserted)
    BY AllLoaded DEF LInv, WInv
  <2> QED BY <1>1, <2>1, <2>2, <2>3 DEF LoadComplete
<1> QED BY LoadInvariance, <1>2, PTL

\* ycsbc.cc, ycsbc_parallel.cc: main destroys a DB after the last call of it has
\* returned; the operations it divides by the time they took are those that were
\* performed, or in ycsbc fewer than num_threads more.
THEOREM DestroyedAlone == Spec => []DestroyAlone
<1>1. IInv /\ LInv => DestroyAlone
  <2> SUFFICES ASSUME IInv, LInv, phase = "closed"
               PROVE  /\ \A t \in Client : cl[t].pc = "done"
                      /\ sum <= printed_ops /\ printed_ops < sum + NumThreads
                      /\ program = "parallel" => sum = printed_ops
    BY DEF DestroyAlone
  <2>1. joined = NumThreads /\ sum = joined * RunShare
    BY DEF LInv, Collected, Share
  <2>2. \A t \in Client : t <= NumThreads BY DriverAssumption DEF Client
  <2>3. \A t \in Client : cl[t].pc = "done" BY <2>1, <2>2 DEF LInv, Collected
  <2>4. operation_count \in Nat /\ NumThreads \in Nat \ {0}
    BY DriverAssumption
  <2>5. CASE program = "parallel"
    <3>1. RunShare = operation_count BY <2>5 DEF RunShare, num_ops
    <3>2. sum = printed_ops BY <2>1, <2>4, <2>5, <3>1 DEF printed_ops
    <3>3. sum \in Nat BY DEF IInv, TypeOK
    <3> QED BY <2>3, <2>4, <3>2, <3>3
  <2>6. CASE program # "parallel"
    <3>1. sum = NumThreads * (operation_count \div NumThreads)
      BY <2>1, <2>6 DEF RunShare, num_ops
    <3>2. printed_ops = operation_count BY <2>6 DEF printed_ops
    <3> QED BY <2>3, <2>4, <2>6, <3>1, <3>2, Remainder
  <2> QED BY <2>5, <2>6
<1> QED BY LoadInvariance, <1>1, PTL
=============================================================================
