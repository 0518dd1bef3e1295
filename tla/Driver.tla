------------------------------- MODULE Driver -------------------------------
(***************************************************************************)
(* The benchmark programs: main starts the client threads that load the    *)
(* records, joins them, starts the ones that run transactions, joins them  *)
(* and destroys the DB.  "ycsbc" has one DB and one CoreWorkload for all   *)
(* threads, "parallel" one of each for every thread.  A call of the DB is  *)
(* two steps, its call and its return: what happens in between is the      *)
(* subject of the structure modules.                                       *)
(***************************************************************************)
EXTENDS Naturals, FiniteSets

CONSTANTS
  Programs,         (* the programs a run looks at *)
  NumThreads,       (* threadcount *)
  record_count,     (* recordcount *)
  operation_count,  (* operationcount *)
  insert_start,     (* insertstart *)
  Ops,              (* the operations with a proportion > 0 *)
  Drawn,            (* the key numbers key_chooser_ can draw *)
  ScanThrows        (* the structure does not implement scan *)

ASSUME DriverAssumption ==
  /\ NumThreads \in Nat \ {0} /\ record_count \in Nat \ {0}
  /\ operation_count \in Nat /\ insert_start \in Nat
  /\ Ops \subseteq {"READ", "UPDATE", "INSERT", "SCAN", "READMODIFYWRITE"}
  /\ Drawn \subseteq Nat /\ 0 \in Drawn
  /\ ScanThrows \in BOOLEAN

VARIABLES
  program,   (* the program that runs; never changes *)
  phase,     (* where main is *)
  spawned,   (* client threads started in this phase *)
  joined,    (* client threads whose result main has *)
  sum,       (* of their results *)
  cl,        (* the client threads *)
  counter,   (* key_generator_ of each CoreWorkload *)
  inserted   (* history: the records whose Insert has returned *)

dvars == <<program, phase, spawned, joined, sum, cl, counter, inserted>>

Client == 1..NumThreads

\* The workload, and DB, that thread t uses; the workloads in use.
wl(t) == IF program = "parallel" THEN t ELSE 1
Workload == {wl(t) : t \in Client}

\* Mutant: every program divides the work, also the one with a DB for each
\* thread.
num_ops_divided(loading) ==
  (IF loading THEN record_count ELSE operation_count) \div NumThreads

\* What a client thread is told to do.
num_ops(loading) ==
  LET total_ops == IF loading THEN record_count ELSE operation_count
  IN IF program = "parallel" THEN total_ops ELSE total_ops \div NumThreads

\* insert_key_sequence_ is set once, by Init.
Last == record_count - 1

Unborn == [pc |-> "none", loading |-> TRUE, left |-> 0, oks |-> 0,
           op |-> "none", key |-> 0]

Init ==
  /\ program \in Programs
  /\ phase = "load" /\ spawned = 0 /\ joined = 0 /\ sum = 0
  /\ cl = [t \in Client |-> Unborn]
  /\ counter = [d \in Client |-> insert_start]
  /\ inserted = {}

-----------------------------------------------------------------------------
(***************************************************************************)
(* A client thread.                                                        *)
(***************************************************************************)
Running == phase # "terminated"

Move(t, c) ==
  /\ cl' = [cl EXCEPT ![t] = c]
  /\ UNCHANGED <<program, phase, spawned, joined, sum>>

\* Mutant: a load and a store, between which another thread's store is lost.
NextSequenceKey_racy(t) ==
  \/ counter' = [counter EXCEPT ![wl(t)] = @ + 1]
  \/ counter' = counter

\* CounterGenerator::Next is one atomic fetch_add.
NextSequenceKey(t) ==
  counter' = [counter EXCEPT ![wl(t)] = @ + 1]

DoInsert(t) ==
  LET c == cl[t] IN
  /\ Running /\ c.pc = "loop" /\ c.left > 0 /\ c.loading
  /\ Move(t, [c EXCEPT !.pc = "INSERT", !.op = "INSERT",
                       !.key = counter[wl(t)]])
  /\ NextSequenceKey(t)
  /\ UNCHANGED inserted

TransactionInsert(t) ==
  LET c == cl[t] IN
  /\ Running /\ c.pc = "loop" /\ c.left > 0 /\ ~c.loading
  /\ "INSERT" \in Ops
  /\ Move(t, [c EXCEPT !.pc = "INSERT", !.op = "INSERT",
                       !.key = counter[wl(t)]])
  /\ NextSequenceKey(t)
  /\ UNCHANGED inserted

\* A key that is beyond Last is drawn again, until one is not.
NextTransactionKey == {k \in Drawn : k <= Last}

\* A read-modify-write is a read, then an update.
FirstCall(o) == IF o = "READMODIFYWRITE" THEN "READ" ELSE o

DoTransaction(t) ==
  LET c == cl[t] IN
  /\ Running /\ c.pc = "loop" /\ c.left > 0 /\ ~c.loading
  /\ \E o \in Ops \ {"INSERT"}, k \in NextTransactionKey :
       Move(t, [c EXCEPT !.pc = FirstCall(o), !.op = o, !.key = k])
  /\ UNCHANGED <<counter, inserted>>

NextIteration(c) == [c EXCEPT !.pc = "loop", !.left = @ - 1, !.oks = @ + 1]

InsertReturns(t) ==
  /\ Running /\ cl[t].pc = "INSERT"
  /\ inserted' = inserted \cup {<<wl(t), cl[t].key>>}
  /\ Move(t, NextIteration(cl[t]))
  /\ UNCHANGED counter

\* Mutant: the loop counts only operations that found their record.
ReadReturns_uncounted(t) ==
  /\ Running /\ cl[t].pc = "READ"
  /\ Move(t, IF cl[t].op = "READMODIFYWRITE" THEN [cl[t] EXCEPT !.pc = "UPDATE"]
             ELSE IF <<wl(t), cl[t].key>> \in inserted THEN NextIteration(cl[t])
             ELSE [cl[t] EXCEPT !.pc = "loop"])
  /\ UNCHANGED <<counter, inserted>>

ReadReturns(t) ==
  /\ Running /\ cl[t].pc = "READ"
  /\ Move(t, IF cl[t].op = "READMODIFYWRITE" THEN [cl[t] EXCEPT !.pc = "UPDATE"]
             ELSE NextIteration(cl[t]))
  /\ UNCHANGED <<counter, inserted>>

UpdateReturns(t) ==
  /\ Running /\ cl[t].pc = "UPDATE"
  /\ Move(t, NextIteration(cl[t]))
  /\ UNCHANGED <<counter, inserted>>

\* The exception of an unimplemented scan ends the thread and is kept in its
\* future.
ScanReturns(t) ==
  /\ Running /\ cl[t].pc = "SCAN"
  /\ Move(t, IF ScanThrows THEN [cl[t] EXCEPT !.pc = "threw"]
             ELSE NextIteration(cl[t]))
  /\ UNCHANGED <<counter, inserted>>

ClientReturns(t) ==
  /\ Running /\ cl[t].pc = "loop" /\ cl[t].left = 0
  /\ Move(t, [cl[t] EXCEPT !.pc = "done"])
  /\ UNCHANGED <<counter, inserted>>

DelegateClient(t) ==
  \/ DoInsert(t) \/ TransactionInsert(t) \/ DoTransaction(t)
  \/ InsertReturns(t) \/ ReadReturns(t) \/ UpdateReturns(t) \/ ScanReturns(t)
  \/ ClientReturns(t)

-----------------------------------------------------------------------------
(***************************************************************************)
(* main.                                                                   *)
(***************************************************************************)
\* async(launch::async, DelegateClient, ...), for one thread after the other.
Spawn(pc) ==
  /\ phase \in {"load", "run"} /\ spawned < NumThreads
  /\ cl' = [cl EXCEPT ![spawned + 1] =
              [Unborn EXCEPT !.pc = pc, !.loading = (phase = "load"),
                             !.left = num_ops(phase = "load")]]
  /\ spawned' = spawned + 1
  /\ UNCHANGED <<program, phase, joined, sum, counter, inserted>>

\* n.get() of the threads in the order of their creation.
Joining == phase \in {"load", "run"} /\ spawned = NumThreads
                                    /\ joined < NumThreads

\* Mutant: main does not wait for the thread.
Join_detached ==
  /\ Joining
  /\ joined' = joined + 1
  /\ sum' = sum + cl[joined + 1].oks
  /\ UNCHANGED <<program, phase, spawned, cl, counter, inserted>>

Join ==
  /\ Joining /\ cl[joined + 1].pc = "done"
  /\ joined' = joined + 1
  /\ sum' = sum + cl[joined + 1].oks
  /\ UNCHANGED <<program, phase, spawned, cl, counter, inserted>>

\* n.get() rethrows; main has no handler.
Rethrow ==
  /\ Joining /\ cl[joined + 1].pc = "threw"
  /\ phase' = "terminated"
  /\ UNCHANGED <<program, spawned, joined, sum, cl, counter, inserted>>

StartRun ==
  /\ phase = "load" /\ joined = NumThreads
  /\ phase' = "run" /\ spawned' = 0 /\ joined' = 0 /\ sum' = 0
  /\ UNCHANGED <<program, cl, counter, inserted>>

\* The operations that the printed throughput is about: ycsbc_parallel
\* multiplies the property by the threads, ycsbc takes it as it is and not what
\* its division has left.
printed_ops ==
  IF program = "parallel" THEN operation_count * NumThreads ELSE operation_count

\* The throughput is printed and the DBs are destroyed.
Destroy ==
  /\ phase = "run" /\ joined = NumThreads
  /\ phase' = "closed"
  /\ UNCHANGED <<program, spawned, joined, sum, cl, counter, inserted>>

Main == Spawn("loop") \/ Join \/ Rethrow \/ StartRun \/ Destroy

Ended == phase \in {"closed", "terminated"}

Stays == Ended /\ UNCHANGED dvars

Next == (\E t \in Client : DelegateClient(t)) \/ Main \/ Stays

Spec == Init /\ [][Next]_dvars

\* Every thread is scheduled.
FairSpec ==
  Spec /\ WF_dvars(Main) /\ \A t \in Client : WF_dvars(DelegateClient(t))

-----------------------------------------------------------------------------
ClientState ==
  [pc: {"none", "loop", "INSERT", "READ", "UPDATE", "SCAN", "done", "threw"},
   loading: BOOLEAN, left: Nat, oks: Nat,
   op: Ops \cup {"none", "INSERT"}, key: Nat]

\* Every variable has its type.
TypeOK ==
  /\ program \in Programs
  /\ phase \in {"load", "run", "closed", "terminated"}
  /\ spawned \in 0..NumThreads /\ joined \in 0..NumThreads /\ sum \in Nat
  /\ cl \in [Client -> ClientState]
  /\ counter \in [Client -> Nat]
  /\ inserted \subseteq Client \X Nat

\* No two Inserts of a DB, running or finished, have the same key number: the
\* counter hands out each number once.  linkedlist's insert, which appends
\* without a lookup, depends on it.
InsertOnce ==
  \A t \in Client : cl[t].pc = "INSERT" =>
    /\ <<wl(t), cl[t].key>> \notin inserted
    /\ \A u \in Client \ {t} :
         cl[u].pc = "INSERT" /\ wl(u) = wl(t) => cl[u].key # cl[t].key

(***************************************************************************)
(* The inductive invariant behind InsertOnce.                              *)
(***************************************************************************)

\* A thread that is in a call has that call still to count.
CallsCounted ==
  \A t \in Client : cl[t].pc \in {"INSERT", "READ", "UPDATE", "SCAN"}
                      => cl[t].left > 0

\* Keys that are being inserted, or have been, came from the counter.
HeldBelow ==
  \A t \in Client : cl[t].pc = "INSERT" => cl[t].key < counter[wl(t)]

InsertedBelow == \A r \in inserted : r[2] < counter[r[1]]

IInv == TypeOK /\ CallsCounted /\ HeldBelow /\ InsertedBelow /\ InsertOnce

\* No transaction starts before each DB has its records, in key order from
\* insert_start: record_count of them, or in ycsbc, whose division drops a
\* remainder, all but fewer than NumThreads.  "# Loading records:" reports the
\* number of records the DBs then hold.
LoadComplete ==
  /\ (\E t \in Client : ~cl[t].loading) \/ phase = "run" =>
       \A d \in Workload, i \in 0..(record_count - 1) :
         program = "parallel" \/ i + NumThreads <= record_count
           => <<d, insert_start + i>> \in inserted
  /\ phase = "load" /\ joined = NumThreads => sum = Cardinality(inserted)

\* A DB is destroyed only after every call of it has returned.  The operations
\* the clients have then performed are those that main divides by the time to
\* print the throughput; in ycsbc the throughput may count more than that, but
\* fewer than NumThreads more.
DestroyAlone ==
  phase = "closed" =>
    /\ \A t \in Client : cl[t].pc = "done"
    /\ sum <= printed_ops /\ printed_ops < sum + NumThreads
    /\ program = "parallel" => sum = printed_ops

(***************************************************************************)
(* The inductive invariant behind LoadComplete and DestroyAlone.           *)
(***************************************************************************)

\* Which threads exist in which phase, and what they were told to do.
Staged ==
  \A t \in Client :
    /\ cl[t].pc = "none" <=> phase = "load" /\ t > spawned
    /\ cl[t].loading <=> phase = "load" \/ t > spawned
    /\ phase # "load" /\ t > spawned => cl[t].pc = "done"
    /\ cl[t].loading => cl[t].pc \in {"none", "loop", "INSERT", "done"}

LoadShare == num_ops(TRUE)
RunShare == num_ops(FALSE)
Share == IF phase = "load" THEN LoadShare ELSE RunShare

\* A thread has done its share, but for what it has left.
SharesKept ==
  \A t \in Client :
    /\ cl[t].pc # "none" => cl[t].oks + cl[t].left =
           IF cl[t].loading THEN LoadShare ELSE RunShare
    /\ cl[t].pc = "none" => cl[t].oks = 0
    /\ cl[t].pc = "done" => cl[t].left = 0

\* main has the results of the threads it has joined.
Collected ==
  /\ joined > 0 \/ Ended => spawned = NumThreads
  /\ phase = "closed" => joined = NumThreads
  /\ \A t \in Client : t <= joined => cl[t].pc = "done"
  /\ sum = joined * Share

Inserting(r) == \E t \in Client : cl[t].pc = "INSERT" /\ r = <<wl(t), cl[t].key>>

\* The counter leaves no gap: every number it has handed out belongs to a
\* record that is being inserted or has been.
NoGap ==
  /\ \A d \in Workload : counter[d] >= insert_start
  /\ \A d \in Workload, k \in Nat :
       insert_start <= k /\ k < counter[d]
         <=> <<d, k>> \in inserted \/ Inserting(<<d, k>>)
  /\ inserted \subseteq Workload \X Nat

\* The inserts of the threads that load d, each as its thread and its number.
Draws(d) ==
  {r \in Client \X (1..LoadShare) :
     /\ wl(r[1]) = d
     /\ r[2] <= cl[r[1]].oks + (IF cl[r[1]].pc = "INSERT" THEN 1 ELSE 0)}

\* While records are loaded the counter counts these inserts.
DrawsCounted ==
  phase = "load" =>
    \A d \in Workload : counter[d] = insert_start + Cardinality(Draws(d))

\* The records the clients were told to load.
Loaded == {<<d, insert_start + i>> :
             d \in Workload,
             i \in 0..((IF program = "parallel" THEN num_ops(TRUE)
                        ELSE NumThreads * num_ops(TRUE)) - 1)}

LoadedBefore == phase # "load" => Loaded \subseteq inserted

LInv ==
  /\ Staged /\ SharesKept /\ Collected /\ NoGap /\ DrawsCounted
  /\ LoadedBefore

\* The program ends, however the threads are scheduled.
Ends == <>Ended
=============================================================================
